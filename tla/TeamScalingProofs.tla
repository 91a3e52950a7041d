------------------------- MODULE TeamScalingProofs -------------------------
(***************************************************************************)
(* Theorems about TeamScaling, for any processes, limits and bounds.       *)
(*                                                                         *)
(*   TInv  types, what each step of a call has at hand, and who is in      *)
(*         which lock                                                      *)
(*   NInv  the task files have ids of their own, and an id that is about   *)
(*         to be used is free                                              *)
(*   RInv  every copy of the configuration, on disk or in a call, has a    *)
(*         sound roster, with room for the workers still to come           *)
(*   LInv  until a mishap, the roster that the scaler has read and the one *)
(*         on disk agree, and hold all the workers that run                *)
(***************************************************************************)
EXTENDS TeamScaling, FiniteSetTheorems, WellFoundedInduction, TLAPS

-----------------------------------------------------------------------------
(* The invariants.                                                          *)

\* p is between taking and releasing the scaling lock.
Scales(p) == scale[p] # None /\ at[p] # "lockScale"

\* The steps of a scale-up that has room for its workers.
Raising == {"adopt", "up", "greet"} \cup CreateSteps
Raises(p) == scale[p] # None /\ at[p] \in Raising

\* The steps of a scaling that has read the configuration.
HasCopy(p) ==
  scale[p] # None /\ at[p] \in Raising \cup {"rollback", "remove", "close", "saveDown"}

Fits1(p) ==
  /\ at[p] = "idle" => scale[p] = None
  /\ at[p] \in ScaleSteps => scale[p] # None
  /\ at[p] \in {"pick", "writeTask", "saveConfig"} => copy[p] # None
  /\ at[p] \in {"writeTask", "saveConfig", "unlockTasks"} => id[p] > 0
  /\ HasCopy(p) => scale[p].copy # None
  /\ Raises(p) => scale[p].goal > 0
  /\ Raises(p) \/ at[p] = "rollback" => scale[p].first > 0
  /\ at[p] \in CreateSteps \ {"lockTasks"} => taskLock = p
  /\ Scales(p) <=> scaleLock = p

Bounded == \E b \in Nat : \A x \in tasks : x.id <= b

TInv == TypeOK /\ Bounded /\ \A p \in Actor : Fits1(p)

-----------------------------------------------------------------------------
(* Types.                                                                   *)

LEMMA ConfigType ==
  ASSUME NEW c \in Config
  PROVE  /\ c # None
         /\ c.nextTask \in Positive /\ c.workers \subseteq Worker /\ c.nextIndex \in Positive
BY NoneAssumption DEF Config

LEMMA InitTInv == Init => TInv
<1> SUFFICES ASSUME Init PROVE TInv
  OBVIOUS
<1>1. live \subseteq Worker
  BY LimitAssumption DEF Init, Worker, Positive
<1>2. config \in Config
  BY <1>1, LimitAssumption DEF Init, Config, Positive
<1>3. TypeOK
  BY <1>1, <1>2, LimitAssumption, BoundAssumption DEF Init, TypeOK
<1>4. ASSUME NEW p \in Actor PROVE Fits1(p)
  BY ActorAssumption DEF Init, Fits1, HasCopy, Raises, Raising, Scales, CreateSteps, ScaleSteps
<1>5. Bounded
  BY DEF Init, Bounded
<1> QED BY <1>3, <1>4, <1>5 DEF TInv

\* A step of p leaves the local variables and the locks of the others alone.
Apart(p) ==
  \A q \in Actor \ {p} :
    /\ at'[q] = at[q] /\ scale'[q] = scale[q] /\ copy'[q] = copy[q] /\ id'[q] = id[q]
    /\ taskLock = q => taskLock' = q
    /\ scaleLock = q <=> scaleLock' = q

Step(p) ==
  \/ Create(p) \/ Up(p) \/ Down(p)
  \/ LockScale(p) \/ ScaleTimesOut(p) \/ Leave(p) \/ Crash(p)

LEMMA StepsApart ==
  ASSUME TInv, NEW p \in Actor, Step(p)
  PROVE  Apart(p)
<1>1. /\ at \in [Actor -> {"idle"} \cup CreateSteps \cup ScaleSteps]
      /\ scale \in [Actor -> Scaling \cup {None}]
      /\ copy \in [Actor -> Config \cup {None}] /\ id \in [Actor -> Nat]
      /\ p # None /\ p # "orphan"
  BY ActorAssumption DEF TInv, TypeOK
<1>2. at[p] \in CreateSteps \ {"lockTasks"} => taskLock = p
  BY DEF TInv, Fits1
<1>3. at[p] = "leave" => scaleLock = p
  BY DEF TInv, Fits1, Scales, ScaleSteps
<1>4. CASE Create(p)
  BY <1>1, <1>2, <1>4, ActorAssumption DEF Create, Apart, CallCreate, Enter, Goto, LockTasks, TasksTimeOut,
     ReadConfig, Pick, WriteTask, SaveConfig, UnlockTasks, creation, counts, CreateSteps
<1>5. CASE Up(p)
  BY <1>1, <1>5 DEF Up, Apart, CallUp, Enter, Goto, PlanUp, Adopt, AskTask, OpenPane, NoPane,
     Join, NotGreeted, Throw, RollBack, RemoveTask, SaveRollBack, creation, counts
<1>6. CASE Down(p)
  BY <1>1, <1>6 DEF Down, Apart, CallDown, Enter, Goto, PlanDown, ClosePanes, SaveDown,
     creation, counts
<1>7. CASE LockScale(p) \/ ScaleTimesOut(p) \/ Leave(p)
  BY <1>1, <1>3, <1>7, ActorAssumption DEF Apart, LockScale, ScaleTimesOut, Leave, Goto, creation, counts
<1>8. CASE Crash(p)
  BY <1>1, <1>8, ActorAssumption DEF Apart, Crash, Goto
<1> QED BY <1>4, <1>5, <1>6, <1>7, <1>8 DEF Step

LEMMA OthersFit ==
  ASSUME TInv, NEW p \in Actor, Apart(p), Fits1(p)'
  PROVE  \A q \in Actor : Fits1(q)'
<1> SUFFICES ASSUME NEW q \in Actor, q # p PROVE Fits1(q)'
  OBVIOUS
<1>1. Fits1(q)
  BY DEF TInv
<1> QED BY <1>1 DEF Apart, Fits1, HasCopy, Raises, Scales

-----------------------------------------------------------------------------
(* What the steps make of the local variables of a scaling.                 *)

LEMMA ScalingType ==
  ASSUME NEW s \in Scaling
  PROVE  /\ s # None /\ s.goal \in Nat /\ s.ask \in Nat /\ s.copy \in Config \cup {None}
         /\ s.first \in Nat /\ s.added \subseteq Worker /\ s.hand \subseteq Worker
         /\ s.made \subseteq Positive
BY NoneAssumption DEF Scaling

LEMMA JoinedType ==
  ASSUME NEW s \in Scaling, s.copy \in Config
  PROVE  /\ Joined(s) \in Config /\ Joined(s).workers = s.copy.workers \cup s.hand
         /\ Joined(s).nextIndex = s.copy.nextIndex + 1
<1> DEFINE c == s.copy
<1>1. c \in Config /\ c.nextIndex + 1 \in Positive /\ c.workers \cup s.hand \in SUBSET Worker
  BY ConfigType, ScalingType DEF Positive
<1>2. Joined(s) = [c EXCEPT !.workers = c.workers \cup s.hand, !.nextIndex = c.nextIndex + 1]
  BY DEF Joined
<1>3. c.workers \cup s.hand = s.copy.workers \cup s.hand /\ c.nextIndex + 1 = s.copy.nextIndex + 1
  OBVIOUS
<1> HIDE DEF c
<1> QED BY <1>1, <1>2, <1>3 DEF Config

LEMMA UndoneType ==
  ASSUME NEW s \in Scaling, s.copy \in Config, s.first \in Positive
  PROVE  /\ Undone(s) \in Config /\ Undone(s).workers = s.copy.workers \ s.added
         /\ Undone(s).nextIndex = s.first
<1> DEFINE c == s.copy
<1>1. c \in Config /\ c.workers \ s.added \in SUBSET Worker
  BY ConfigType, ScalingType
<1>2. Undone(s) = [c EXCEPT !.workers = c.workers \ s.added, !.nextIndex = s.first]
  BY DEF Undone
<1>3. c.workers \ s.added = s.copy.workers \ s.added
  OBVIOUS
<1> HIDE DEF c
<1> QED BY <1>1, <1>2, <1>3 DEF Config

LEMMA GreetedType ==
  ASSUME NEW s \in Scaling, s.copy \in Config, s.goal > 0
  PROVE  /\ Greeted(s) \in Scaling /\ Greeted(s).goal = s.goal - 1 /\ Greeted(s).ask = s.ask
         /\ Greeted(s).copy = Joined(s) /\ Greeted(s).first = s.first
         /\ Greeted(s).added = s.added \cup s.hand /\ Greeted(s).hand = {}
         /\ Greeted(s).made = s.made
<1>1. s.goal - 1 \in Nat /\ s.added \cup s.hand \in SUBSET Worker
  BY ScalingType
<1>2. Joined(s) \in Config
  BY JoinedType
<1> QED BY <1>1, <1>2 DEF Greeted, Scaling

LEMMA PlanUpGives ==
  ASSUME TInv, NEW p \in Actor, PlanUp(p)
  PROVE  /\ scale' \in [Actor -> Scaling \cup {None}] /\ scale'[p] \in Scaling
         /\ scale'[p].goal = scale[p].goal
         /\ scale'[p].ask = scale[p].ask
         /\ scale'[p].copy = config
         /\ scale'[p].first = config.nextIndex
         /\ scale'[p].added = scale[p].added
         /\ scale'[p].hand = scale[p].hand
         /\ scale'[p].made = scale[p].made
<1>1. scale \in [Actor -> Scaling \cup {None}] /\ scale[p] \in Scaling
  BY DEF TInv, TypeOK, Fits1, PlanUp, ScaleSteps
<1>2. config \in Config /\ config.nextIndex \in Nat
  BY ConfigType DEF TInv, TypeOK, Positive
<1> QED BY <1>1, <1>2 DEF PlanUp, Scaling

LEMMA PlanDownGives ==
  ASSUME TInv, NEW p \in Actor, PlanDown(p), at'[p] = "close"
  PROVE  /\ scale' \in [Actor -> Scaling \cup {None}] /\ scale'[p] \in Scaling
         /\ scale'[p].goal = scale[p].goal
         /\ scale'[p].ask = scale[p].ask
         /\ scale'[p].copy = config
         /\ scale'[p].first = scale[p].first
         /\ scale'[p].added = scale[p].added
         /\ scale'[p].hand \subseteq config.workers /\ scale'[p].hand # config.workers
         /\ scale'[p].made = scale[p].made
<1>1. scale \in [Actor -> Scaling \cup {None}] /\ scale[p] \in Scaling
  BY DEF TInv, TypeOK, Fits1, PlanDown, ScaleSteps
<1>2. config \in Config /\ config.workers \subseteq Worker
  BY ConfigType DEF TInv, TypeOK
<1>3. at'[p] # "leave" /\ at \in [Actor -> {"idle"} \cup CreateSteps \cup ScaleSteps]
  BY DEF TInv, TypeOK
<1>4. PICK gone \in SUBSET config.workers :
        /\ gone # config.workers
        /\ scale' = [scale EXCEPT ![p].copy = config, ![p].hand = gone]
  BY <1>3 DEF PlanDown, Goto
<1> QED BY <1>1, <1>2, <1>4 DEF Scaling

LEMMA AskTaskGives ==
  ASSUME TInv, NEW p \in Actor, AskTask(p)
  PROVE  /\ scale' \in [Actor -> Scaling \cup {None}] /\ scale'[p] \in Scaling
         /\ scale'[p].goal = scale[p].goal
         /\ scale'[p].ask = scale[p].ask - 1
         /\ scale'[p].copy = scale[p].copy
         /\ scale'[p].first = scale[p].first
         /\ scale'[p].added = scale[p].added
         /\ scale'[p].hand = scale[p].hand
         /\ scale'[p].made = scale[p].made
<1>1. scale \in [Actor -> Scaling \cup {None}] /\ scale[p] \in Scaling
  BY DEF TInv, TypeOK, Fits1, AskTask, ScaleSteps
<1> QED BY <1>1 DEF AskTask, Scaling

LEMMA OpenPaneGives ==
  ASSUME TInv, NEW p \in Actor, OpenPane(p)
  PROVE  /\ scale' \in [Actor -> Scaling \cup {None}] /\ scale'[p] \in Scaling
         /\ scale'[p].goal = scale[p].goal
         /\ scale'[p].ask = scale[p].ask
         /\ scale'[p].copy = scale[p].copy
         /\ scale'[p].first = scale[p].first
         /\ scale'[p].added = scale[p].added
         /\ scale'[p].hand = {[index |-> scale[p].copy.nextIndex, pane |-> panes + 1]}
         /\ scale'[p].made = scale[p].made
<1>1. scale \in [Actor -> Scaling \cup {None}] /\ scale[p] \in Scaling
  BY DEF TInv, TypeOK, Fits1, OpenPane, AboutToOpen, ScaleSteps
<1>2. [index |-> scale[p].copy.nextIndex, pane |-> panes + 1] \in Worker
  <2>1. scale[p].copy \in Config
    BY <1>1, ScalingType DEF TInv, Fits1, OpenPane, AboutToOpen, HasCopy, Raising
  <2>2. scale[p].copy.nextIndex \in Positive
    BY <2>1, ConfigType
  <2>3. panes \in Nat
    BY DEF TInv, TypeOK
  <2> QED BY <2>2, <2>3 DEF Worker, Positive
<1> QED BY <1>1, <1>2 DEF OpenPane, Scaling

LEMMA JoinGives ==
  ASSUME TInv, NEW p \in Actor, Join(p)
  PROVE  /\ scale' \in [Actor -> Scaling \cup {None}] /\ scale'[p] \in Scaling
         /\ scale'[p].goal = scale[p].goal - 1 /\ scale'[p].ask = scale[p].ask
         /\ scale'[p].copy = config' /\ scale'[p].first = scale[p].first
         /\ scale'[p].added = scale[p].added \cup scale[p].hand /\ scale'[p].hand = {}
         /\ scale'[p].made = scale[p].made
         /\ config' \in Config
         /\ config'.workers = scale[p].copy.workers \cup scale[p].hand
         /\ config'.nextIndex = scale[p].copy.nextIndex + 1
<1>1. scale \in [Actor -> Scaling \cup {None}] /\ scale[p] \in Scaling
  BY DEF TInv, TypeOK, Fits1, Join, ScaleSteps
<1>2. scale[p].copy \in Config /\ scale[p].goal > 0
  BY <1>1, ScalingType DEF TInv, Fits1, Join, HasCopy, Raises, Raising
<1>3. config' = Joined(scale[p]) /\ scale'[p] = Greeted(scale[p])
  BY <1>1 DEF Join
<1>4. scale' = [scale EXCEPT ![p] = Greeted(scale[p])]
  BY DEF Join
<1> QED BY <1>1, <1>2, <1>3, <1>4, JoinedType, GreetedType

LEMMA RollBackGives ==
  ASSUME TInv, NEW p \in Actor, RollBack(p)
  PROVE  /\ scale' \in [Actor -> Scaling \cup {None}] /\ scale'[p] \in Scaling
         /\ scale'[p].copy \in Config
         /\ scale'[p].copy.workers = scale[p].copy.workers \ scale[p].added
         /\ scale'[p].copy.nextIndex = scale[p].first
         /\ scale'[p].made = scale[p].made
<1>1. scale \in [Actor -> Scaling \cup {None}] /\ scale[p] \in Scaling
  BY DEF TInv, TypeOK, Fits1, RollBack, ScaleSteps
<1>2. scale[p].copy \in Config /\ scale[p].first \in Positive
  BY <1>1, ScalingType DEF TInv, Fits1, RollBack, HasCopy, Positive
<1> DEFINE c == Undone(scale[p])
<1>3. /\ c \in Config /\ c.workers = scale[p].copy.workers \ scale[p].added
      /\ c.nextIndex = scale[p].first
  BY <1>1, <1>2, UndoneType
<1>4. scale' = [scale EXCEPT ![p].copy = c]
  BY DEF RollBack
<1> HIDE DEF c
<1> QED BY <1>1, <1>3, <1>4 DEF Scaling

LEMMA RemoveTaskGives ==
  ASSUME TInv, NEW p \in Actor, RemoveTask(p)
  PROVE  /\ scale' \in [Actor -> Scaling \cup {None}] /\ scale'[p] \in Scaling
         /\ scale'[p].copy = scale[p].copy /\ scale'[p].made \subseteq scale[p].made
         /\ \E i \in scale[p].made :
              tasks' = {x \in tasks : x.id # i} /\ scale'[p].made = scale[p].made \ {i}
<1>1. scale \in [Actor -> Scaling \cup {None}] /\ scale[p] \in Scaling
  BY DEF TInv, TypeOK, Fits1, RemoveTask, ScaleSteps
<1> QED BY <1>1 DEF RemoveTask, Scaling

LEMMA UnlockTasksGives ==
  ASSUME TInv, NEW p \in Actor, UnlockTasks(p), scale[p] # None
  PROVE  /\ scale' \in [Actor -> Scaling \cup {None}] /\ scale'[p] \in Scaling
         /\ scale'[p].goal = scale[p].goal /\ scale'[p].ask = scale[p].ask
         /\ scale'[p].copy = scale[p].copy /\ scale'[p].first = scale[p].first
         /\ scale'[p].added = scale[p].added /\ scale'[p].hand = scale[p].hand
         /\ scale'[p].made = scale[p].made \cup {id[p]}
<1>1. scale \in [Actor -> Scaling \cup {None}] /\ scale[p] \in Scaling
  BY DEF TInv, TypeOK
<1>2. id[p] \in Positive
  BY DEF TInv, TypeOK, Fits1, UnlockTasks, Positive
<1> QED BY <1>1, <1>2 DEF UnlockTasks, Scaling

-----------------------------------------------------------------------------
(* The next task id.                                                        *)

LEMMA LeastElement ==
  ASSUME NEW T \in SUBSET Nat, T # {}
  PROVE  \E n \in T : \A m \in T : n <= m
<1>1. IsWellFoundedOn(OpToRel(<, Nat), Nat)
  BY NatLessThanWellFounded
<1>2. PICK n \in T : \A m \in T : <<m, n>> \notin OpToRel(<, Nat)
  BY <1>1, WFMin
<1>3. \A m \in T : ~(m < n)
  BY <1>2 DEF OpToRel
<1> QED BY <1>3

\* The least bound of a set is its greatest element.
LEMMA GreatestElement ==
  ASSUME NEW T \in SUBSET Nat, T # {}, NEW b \in Nat, \A n \in T : n <= b
  PROVE  \E n \in T : \A m \in T : n >= m
<1> DEFINE U == {u \in Nat : \A n \in T : n <= u}
<1>1. PICK u \in U : \A m \in U : u <= m
  <2>1. U \in SUBSET Nat /\ U # {}
    OBVIOUS
  <2> HIDE DEF U
  <2> QED BY <2>1, LeastElement
<1>2. u \in T
  <2> SUFFICES ASSUME u \notin T PROVE FALSE
    OBVIOUS
  <2>1. \A n \in T : n <= u - 1
    BY <1>1
  <2>2. u - 1 \in Nat
    <3>1. PICK n \in T : TRUE
      OBVIOUS
    <3>2. n \in Nat /\ u \in Nat /\ n <= u - 1
      BY <2>1, <3>1
    <3> QED BY <3>2
  <2>3. u - 1 \in U
    BY <2>1, <2>2
  <2> QED BY <1>1, <2>3
<1> QED BY <1>1, <1>2

\* The id that is picked is past the counter and past every file.
LEMMA NextIdIsNew ==
  ASSUME TInv, NEW c \in Config
  PROVE  /\ NextId(c) \in Positive /\ NextId(c) >= c.nextTask
         /\ \A x \in tasks : x.id < NextId(c)
<1> DEFINE ids == {c.nextTask} \cup {x.id + 1 : x \in tasks}
<1>1. tasks \subseteq [id : Positive, maker : Actor]
  BY DEF TInv, TypeOK
<1>2. c.nextTask \in Positive
  BY ConfigType
<1>3. ids \subseteq Positive /\ ids # {}
  BY <1>1, <1>2 DEF Positive
<1>4. PICK b \in Nat : \A x \in tasks : x.id <= b
  BY DEF TInv, Bounded
<1>5. \A n \in ids : n <= b + 1 + c.nextTask
  BY <1>1, <1>2, <1>4 DEF Positive
<1>6. \E n \in ids : \A m \in ids : n >= m
  <2>1. ids \in SUBSET Nat /\ b + 1 + c.nextTask \in Nat
    BY <1>2, <1>3, <1>4 DEF Positive
  <2> HIDE DEF ids
  <2> QED BY <1>3, <1>5, <2>1, GreatestElement
<1>7. NextId(c) \in ids /\ \A m \in ids : NextId(c) >= m
  <2>1. NextId(c) = CHOOSE n \in ids : \A m \in ids : n >= m
    BY DEF NextId
  <2> HIDE DEF ids
  <2> QED BY <1>6, <2>1
<1>8. \A x \in tasks : x.id + 1 \in ids
  OBVIOUS
<1>9. c.nextTask \in ids
  OBVIOUS
<1> HIDE DEF ids
<1>10. NextId(c) \in Positive /\ NextId(c) >= c.nextTask
  BY <1>3, <1>7, <1>9
<1>11. ASSUME NEW x \in tasks PROVE x.id < NextId(c)
  <2>1. x.id \in Nat /\ NextId(c) \in Nat
    BY <1>1, <1>10 DEF Positive
  <2>2. NextId(c) >= x.id + 1
    BY <1>7, <1>8
  <2> QED BY <2>1, <2>2
<1> QED BY <1>10, <1>11

-----------------------------------------------------------------------------
(* TInv is kept.                                                            *)

LEMMA WorkType ==
  ASSUME NEW n \in Nat, NEW k \in Nat
  PROVE  Work(n, k) \in Scaling /\ Work(n, k).goal = n /\ Work(n, k).made = {}
BY DEF Work, Scaling

LEMMA CopyType ==
  ASSUME TypeOK, NEW p \in Actor, scale[p] # None, scale[p].copy # None
  PROVE  scale[p] \in Scaling /\ scale[p].copy \in Config
BY ScalingType DEF TypeOK

LEMMA SaveConfigGives ==
  ASSUME TInv, NEW p \in Actor, SaveConfig(p)
  PROVE  /\ copy[p] \in Config /\ config' \in Config
         /\ config'.workers = copy[p].workers /\ config'.nextIndex = copy[p].nextIndex
<1>1. copy[p] \in Config /\ id[p] + 1 \in Positive
  BY DEF SaveConfig, TInv, TypeOK, Fits1, Positive
<1>2. config' = [copy[p] EXCEPT !.nextTask = id[p] + 1]
  BY DEF SaveConfig
<1> QED BY <1>1, <1>2 DEF Config

LEMMA SaveDownGives ==
  ASSUME TInv, NEW p \in Actor, SaveDown(p)
  PROVE  /\ scale[p] \in Scaling /\ scale[p].copy \in Config /\ config' \in Config
         /\ config'.workers = scale[p].copy.workers \ scale[p].hand
         /\ config'.nextIndex = scale[p].copy.nextIndex
<1>1. scale[p] \in Scaling /\ scale[p].copy \in Config
  BY CopyType DEF SaveDown, TInv, Fits1, HasCopy, ScaleSteps
<1> DEFINE c == scale[p].copy
<1>2. c \in Config /\ c.workers \ scale[p].hand \in SUBSET Worker
  BY <1>1, ConfigType
<1>3. config' = [c EXCEPT !.workers = c.workers \ scale[p].hand]
  BY DEF SaveDown
<1>4. c = scale[p].copy
  OBVIOUS
<1> HIDE DEF c
<1> QED BY <1>1, <1>2, <1>3, <1>4 DEF Config

LEMMA CreateType ==
  ASSUME TInv, NEW p \in Actor, Create(p)
  PROVE  TypeOK'
<1> USE DEF CreateSteps, ScaleSteps
<1>0. TypeOK /\ p # None /\ p # "orphan"
  BY ActorAssumption DEF TInv
<1>1. CASE CallCreate(p)
  BY <1>0, <1>1, BoundAssumption DEF CallCreate, Enter, Goto, creation, TypeOK
<1>2. CASE LockTasks(p)
  BY <1>0, <1>2, BoundAssumption DEF LockTasks, Goto, creation, counts, TypeOK
<1>3. CASE TasksTimeOut(p)
  BY <1>0, <1>3, BoundAssumption DEF TasksTimeOut, Goto, creation, counts, TypeOK
<1>4. CASE ReadConfig(p)
  BY <1>0, <1>4, BoundAssumption DEF ReadConfig, Goto, creation, counts, TypeOK
<1>5. CASE Pick(p)
  <2>1. copy[p] \in Config
    BY <1>0, <1>5 DEF Pick, TInv, TypeOK, Fits1
  <2>2. NextId(copy[p]) \in Nat
    BY <2>1, NextIdIsNew DEF Positive
  <2> QED BY <1>0, <1>5, <2>2 DEF Pick, Goto, creation, counts, TypeOK
<1>6. CASE WriteTask(p)
  <2>1. id[p] \in Positive
    BY <1>0, <1>6 DEF WriteTask, TInv, TypeOK, Fits1, Positive
  <2>2. tasks' \subseteq [id : Positive, maker : Actor]
    BY <1>0, <1>6, <2>1 DEF WriteTask, TypeOK
  <2> QED BY <1>0, <1>6, <2>2 DEF WriteTask, Goto, creation, counts, TypeOK
<1>7. CASE SaveConfig(p)
  <2>1. config' \in Config
    BY <1>7, SaveConfigGives
  <2> QED BY <1>0, <1>7, <2>1 DEF SaveConfig, Goto, creation, counts, TypeOK
<1>8. CASE UnlockTasks(p)
  <2>1. scale' \in [Actor -> Scaling \cup {None}]
    BY <1>0, <1>8, UnlockTasksGives DEF UnlockTasks, TypeOK
  <2> QED BY <1>0, <1>8, <2>1 DEF UnlockTasks, Goto, counts, TypeOK
<1> QED BY <1>1, <1>2, <1>3, <1>4, <1>5, <1>6, <1>7, <1>8 DEF Create

LEMMA UpType ==
  ASSUME TInv, NEW p \in Actor, Up(p)
  PROVE  TypeOK'
<1> USE DEF CreateSteps, ScaleSteps
<1>0. TypeOK /\ p # None /\ p # "orphan"
  BY ActorAssumption DEF TInv
<1>1. CASE CallUp(p)
  <2>1. PICK n \in 1 .. MaxAdd, k \in 0 .. MaxAsk : scale' = [scale EXCEPT ![p] = Work(n, k)]
    BY <1>1 DEF CallUp
  <2>2. Work(n, k) \in Scaling
    BY <2>1, WorkType, BoundAssumption
  <2> QED BY <1>0, <1>1, <2>1, <2>2, BoundAssumption DEF CallUp, Enter, Goto, creation, TypeOK
<1>2. CASE PlanUp(p)
  <2>1. scale' \in [Actor -> Scaling \cup {None}]
    BY <1>2, PlanUpGives
  <2> QED BY <1>0, <1>2, <2>1 DEF PlanUp, Goto, creation, counts, TypeOK
<1>3. CASE Adopt(p)
  <2>1. scale[p].copy \in Config
    BY <1>0, <1>3, CopyType DEF Adopt, Fits1, TInv, HasCopy, Raising
  <2> QED BY <1>0, <1>3, <2>1 DEF Adopt, Goto, creation, counts, TypeOK
<1>4. CASE AskTask(p)
  <2>1. scale' \in [Actor -> Scaling \cup {None}]
    BY <1>4, AskTaskGives
  <2> QED BY <1>0, <1>4, <2>1 DEF AskTask, Goto, creation, counts, TypeOK
<1>5. CASE OpenPane(p)
  <2>1. scale' \in [Actor -> Scaling \cup {None}] /\ scale'[p] \in Scaling
    BY <1>5, OpenPaneGives
  <2>2. scale'[p].hand \subseteq Worker /\ live' = live \cup scale'[p].hand
    BY <1>5, <2>1, ScalingType, OpenPaneGives DEF OpenPane
  <2> QED BY <1>0, <1>5, <2>1, <2>2 DEF OpenPane, Goto, creation, counts, TypeOK
<1>6. CASE NoPane(p)
  BY <1>0, <1>6, BoundAssumption DEF NoPane, AboutToOpen, Goto, creation, counts, TypeOK
<1>7. CASE Join(p)
  <2>1. scale' \in [Actor -> Scaling \cup {None}] /\ config' \in Config
    BY <1>7, JoinGives
  <2> QED BY <1>0, <1>7, <2>1 DEF Join, Goto, creation, counts, TypeOK
<1>8. CASE NotGreeted(p)
  BY <1>0, <1>8, BoundAssumption DEF NotGreeted, Goto, creation, counts, TypeOK
<1>9. CASE Throw(p)
  BY <1>0, <1>9, BoundAssumption DEF Throw, AboutToOpen, Goto, creation, counts, TypeOK
<1>10. CASE RollBack(p)
  <2>1. scale' \in [Actor -> Scaling \cup {None}]
    BY <1>10, RollBackGives
  <2> QED BY <1>0, <1>10, <2>1 DEF RollBack, Goto, creation, counts, TypeOK
<1>11. CASE RemoveTask(p)
  <2>1. scale' \in [Actor -> Scaling \cup {None}]
    BY <1>11, RemoveTaskGives
  <2> QED BY <1>0, <1>11, <2>1 DEF RemoveTask, Goto, creation, counts, TypeOK
<1>12. CASE SaveRollBack(p)
  <2>1. scale[p].copy \in Config
    BY <1>0, <1>12, CopyType DEF SaveRollBack, Fits1, TInv, HasCopy, Raising
  <2> QED BY <1>0, <1>12, <2>1 DEF SaveRollBack, Goto, creation, counts, TypeOK
<1> QED BY <1>1, <1>2, <1>3, <1>4, <1>5, <1>6, <1>7, <1>8, <1>9, <1>10, <1>11, <1>12 DEF Up

LEMMA DownType ==
  ASSUME TInv, NEW p \in Actor, Down(p)
  PROVE  TypeOK'
<1> USE DEF CreateSteps, ScaleSteps
<1>0. TypeOK /\ p # None /\ p # "orphan"
  BY ActorAssumption DEF TInv
<1>1. CASE CallDown(p)
  <2>1. Work(0, 0) \in Scaling
    BY WorkType
  <2> QED BY <1>0, <1>1, <2>1, BoundAssumption DEF CallDown, Enter, Goto, creation, TypeOK
<1>2. CASE PlanDown(p)
  <2>1. scale' \in [Actor -> Scaling \cup {None}]
    BY <1>0, <1>2, PlanDownGives DEF PlanDown, Goto, TypeOK
  <2> QED BY <1>0, <1>2, <2>1 DEF PlanDown, Goto, creation, counts, TypeOK
<1>3. CASE ClosePanes(p)
  BY <1>0, <1>3, BoundAssumption DEF ClosePanes, Goto, creation, counts, TypeOK
<1>4. CASE SaveDown(p)
  <2>1. config' \in Config
    BY <1>4, SaveDownGives
  <2> QED BY <1>0, <1>4, <2>1 DEF SaveDown, Goto, creation, counts, TypeOK
<1> QED BY <1>1, <1>2, <1>3, <1>4 DEF Down

LEMMA LockType ==
  ASSUME TInv, NEW p \in Actor, LockScale(p) \/ ScaleTimesOut(p) \/ Leave(p) \/ Crash(p)
  PROVE  TypeOK'
<1> USE DEF CreateSteps, ScaleSteps
<1>0. TypeOK /\ p # None /\ p # "orphan"
  BY ActorAssumption DEF TInv
<1>1. CASE LockScale(p)
  BY <1>0, <1>1, BoundAssumption DEF LockScale, Goto, creation, counts, TypeOK
<1>2. CASE ScaleTimesOut(p)
  BY <1>0, <1>2, BoundAssumption DEF ScaleTimesOut, Goto, creation, counts, TypeOK
<1>3. CASE Leave(p)
  BY <1>0, <1>3, BoundAssumption DEF Leave, Goto, creation, counts, TypeOK
<1>4. CASE Crash(p)
  BY <1>0, <1>4, BoundAssumption DEF Crash, Goto, TypeOK
<1> QED BY <1>1, <1>2, <1>3, <1>4

\* What p has at hand after its own steps.
LEMMA CreateFits ==
  ASSUME TInv, NEW p \in Actor, Create(p)
  PROVE  Fits1(p)'
<1>0. /\ Fits1(p) /\ p # None /\ p # "orphan"
      /\ at \in [Actor -> {"idle"} \cup CreateSteps \cup ScaleSteps]
      /\ scale \in [Actor -> Scaling \cup {None}] /\ None \notin Scaling
      /\ copy \in [Actor -> Config \cup {None}] /\ id \in [Actor -> Nat]
      /\ config \in Config /\ None \notin Config
  BY ActorAssumption, NoneAssumption DEF TInv, TypeOK
<1>1. CASE CallCreate(p)
  BY <1>0, <1>1, ActorAssumption DEF CallCreate, Enter, Goto, creation, Fits1, HasCopy, Raises,
     Raising, Scales, CreateSteps, ScaleSteps
<1>2. CASE LockTasks(p)
  BY <1>0, <1>2, ActorAssumption DEF LockTasks, Goto, creation, counts, Fits1, HasCopy, Raises,
     Raising, Scales, CreateSteps, ScaleSteps
<1>3. CASE TasksTimeOut(p)
  BY <1>0, <1>3, ActorAssumption DEF TasksTimeOut, Goto, creation, counts, Fits1, HasCopy, Raises,
     Raising, Scales, CreateSteps, ScaleSteps
<1>4. CASE ReadConfig(p)
  BY <1>0, <1>4, ActorAssumption DEF ReadConfig, Goto, creation, counts, Fits1, HasCopy, Raises,
     Raising, Scales, CreateSteps, ScaleSteps
<1>5. CASE Pick(p)
  <2>1. copy[p] \in Config
    BY <1>0, <1>5 DEF Pick, Fits1
  <2>2. NextId(copy[p]) \in Nat /\ NextId(copy[p]) > 0
    BY <2>1, NextIdIsNew DEF Positive
  <2> QED BY <1>0, <1>5, <2>2 DEF Pick, Goto, Fits1, HasCopy, Raises,
     Raising, Scales, CreateSteps, ScaleSteps
<1>6. CASE WriteTask(p)
  BY <1>0, <1>6, ActorAssumption DEF WriteTask, Goto, creation, counts, Fits1, HasCopy, Raises,
     Raising, Scales, CreateSteps, ScaleSteps
<1>7. CASE SaveConfig(p)
  BY <1>0, <1>7, ActorAssumption DEF SaveConfig, Goto, creation, counts, Fits1, HasCopy, Raises,
     Raising, Scales, CreateSteps, ScaleSteps
<1>8. CASE UnlockTasks(p)
  <2>1. CASE scale[p] = None
    BY <1>0, <1>8, <2>1 DEF UnlockTasks, Goto, Fits1, HasCopy, Raises,
     Raising, Scales, CreateSteps, ScaleSteps
  <2>2. CASE scale[p] # None
    <3>1. /\ scale'[p] # None /\ scale'[p].copy = scale[p].copy
          /\ scale'[p].goal = scale[p].goal /\ scale'[p].first = scale[p].first
      BY <1>8, <2>2, UnlockTasksGives, ScalingType
    <3>2. at'[p] = "up" /\ scaleLock' = scaleLock
      BY <1>0, <1>8, <2>2 DEF UnlockTasks, Goto
    <3>3. Raises(p) /\ HasCopy(p) /\ Scales(p)
      BY <1>8, <2>2 DEF UnlockTasks, Raises, HasCopy, Scales, Raising, CreateSteps
    <3>4. Raises(p)' /\ HasCopy(p)' /\ Scales(p)'
      BY <3>1, <3>2 DEF Raises, HasCopy, Scales, Raising
    <3> QED BY <1>0, <3>1, <3>2, <3>3, <3>4 DEF Fits1, CreateSteps, ScaleSteps
  <2> QED BY <2>1, <2>2
<1> QED BY <1>1, <1>2, <1>3, <1>4, <1>5, <1>6, <1>7, <1>8 DEF Create

LEMMA UpFits ==
  ASSUME TInv, NEW p \in Actor, Up(p)
  PROVE  Fits1(p)'
<1>0. /\ Fits1(p) /\ p # None /\ p # "orphan"
      /\ at \in [Actor -> {"idle"} \cup CreateSteps \cup ScaleSteps]
      /\ scale \in [Actor -> Scaling \cup {None}] /\ None \notin Scaling
      /\ copy \in [Actor -> Config \cup {None}] /\ id \in [Actor -> Nat]
      /\ config \in Config /\ None \notin Config
  BY ActorAssumption, NoneAssumption DEF TInv, TypeOK
<1>1. CASE CallUp(p)
  <2>1. PICK n \in 1 .. MaxAdd, k \in 0 .. MaxAsk : scale' = [scale EXCEPT ![p] = Work(n, k)]
    BY <1>1 DEF CallUp
  <2>2. Work(n, k) \in Scaling
    BY <2>1, WorkType, BoundAssumption
  <2>3. scale'[p] # None /\ at'[p] = "lockScale" /\ scaleLock' = scaleLock /\ at[p] = "idle"
    BY <1>0, <1>1, <2>1, <2>2 DEF CallUp, Enter, Goto
  <2> QED BY <1>0, <2>3 DEF Fits1, HasCopy, Raises,
     Raising, Scales, CreateSteps, ScaleSteps
<1>2. CASE PlanUp(p)
  <2>1. /\ scale'[p] # None /\ scale'[p].copy = config /\ scale'[p].goal = scale[p].goal
        /\ scale'[p].first = config.nextIndex /\ config.nextIndex > 0
    BY <1>0, <1>2, PlanUpGives, ScalingType, ConfigType DEF Positive
  <2>2. at'[p] \in {"adopt", "up", "leave"} /\ scaleLock' = scaleLock /\ scale[p].goal > 0
    BY <1>0, <1>2 DEF PlanUp, Goto, ScaleSteps
  <2>3. Scales(p) /\ Scales(p)'
    BY <1>0, <1>2, <2>1, <2>2 DEF PlanUp, Scales, Fits1, ScaleSteps
  <2> QED BY <1>0, <2>1, <2>2, <2>3 DEF Fits1, HasCopy, Raises, Raising, CreateSteps, ScaleSteps
<1>3. CASE Adopt(p)
  BY <1>0, <1>3, ActorAssumption DEF Adopt, Goto, creation, counts, Fits1, HasCopy, Raises,
     Raising, Scales, CreateSteps, ScaleSteps
<1>4. CASE AskTask(p)
  <2>1. /\ scale'[p] # None /\ scale'[p].copy = scale[p].copy
        /\ scale'[p].goal = scale[p].goal /\ scale'[p].first = scale[p].first
    BY <1>4, AskTaskGives, ScalingType
  <2>2. at'[p] = "lockTasks" /\ at[p] = "up" /\ scaleLock' = scaleLock
    BY <1>0, <1>4 DEF AskTask, Goto, CreateSteps
  <2> QED BY <1>0, <2>1, <2>2 DEF Fits1, HasCopy, Raises,
     Raising, Scales, CreateSteps, ScaleSteps
<1>5. CASE OpenPane(p)
  <2>1. /\ scale'[p] # None /\ scale'[p].copy = scale[p].copy
        /\ scale'[p].goal = scale[p].goal /\ scale'[p].first = scale[p].first
    BY <1>5, OpenPaneGives, ScalingType
  <2>2. at'[p] = "greet" /\ at[p] = "up" /\ scaleLock' = scaleLock
    BY <1>0, <1>5 DEF OpenPane, AboutToOpen, Goto, ScaleSteps
  <2> QED BY <1>0, <2>1, <2>2 DEF Fits1, HasCopy, Raises,
     Raising, Scales, CreateSteps, ScaleSteps
<1>6. CASE NoPane(p)
  BY <1>0, <1>6, ActorAssumption DEF NoPane, AboutToOpen, Goto, creation, counts, Fits1, HasCopy, Raises,
     Raising, Scales, CreateSteps, ScaleSteps
<1>7. CASE Join(p)
  <2>1. /\ scale'[p] # None /\ scale'[p].copy # None /\ scale'[p].first = scale[p].first
        /\ scale'[p].goal = scale[p].goal - 1
    BY <1>7, JoinGives, ScalingType, ConfigType
  <2>2. /\ at'[p] = (IF scale[p].goal = 1 THEN "leave" ELSE "up")
        /\ at[p] = "greet" /\ scaleLock' = scaleLock
    BY <1>0, <1>7 DEF Join, Goto, ScaleSteps
  <2>3. scale[p].goal \in Nat /\ scale[p].goal > 0
    BY <1>0, <2>2, ScalingType DEF Fits1, Raises, Raising, ScaleSteps
  <2> QED BY <1>0, <2>1, <2>2, <2>3 DEF Fits1, HasCopy, Raises,
     Raising, Scales, CreateSteps, ScaleSteps
<1>8. CASE NotGreeted(p)
  BY <1>0, <1>8, ActorAssumption DEF NotGreeted, Goto, creation, counts, Fits1, HasCopy, Raises,
     Raising, Scales, CreateSteps, ScaleSteps
<1>9. CASE Throw(p)
  BY <1>0, <1>9, ActorAssumption DEF Throw, AboutToOpen, Goto, creation, counts, Fits1, HasCopy, Raises,
     Raising, Scales, CreateSteps, ScaleSteps
<1>10. CASE RollBack(p)
  <2>1. scale'[p] # None /\ scale'[p].copy # None
    BY <1>10, RollBackGives, ScalingType, ConfigType
  <2>2. at'[p] = "remove" /\ at[p] = "rollback" /\ scaleLock' = scaleLock
    BY <1>0, <1>10 DEF RollBack, Goto, ScaleSteps
  <2> QED BY <1>0, <2>1, <2>2 DEF Fits1, HasCopy, Raises,
     Raising, Scales, CreateSteps, ScaleSteps
<1>11. CASE RemoveTask(p)
  <2>1. scale'[p] # None /\ scale'[p].copy = scale[p].copy
    BY <1>11, RemoveTaskGives, ScalingType
  <2>2. at'[p] = "remove" /\ at[p] = "remove" /\ scaleLock' = scaleLock
    BY <1>0, <1>11 DEF RemoveTask, ScaleSteps
  <2> QED BY <1>0, <2>1, <2>2 DEF Fits1, HasCopy, Raises,
     Raising, Scales, CreateSteps, ScaleSteps
<1>12. CASE SaveRollBack(p)
  BY <1>0, <1>12, ActorAssumption DEF SaveRollBack, Goto, creation, counts, Fits1, HasCopy, Raises,
     Raising, Scales, CreateSteps, ScaleSteps
<1> QED BY <1>1, <1>2, <1>3, <1>4, <1>5, <1>6, <1>7, <1>8, <1>9, <1>10, <1>11, <1>12 DEF Up

LEMMA DownFits ==
  ASSUME TInv, NEW p \in Actor, Down(p)
  PROVE  Fits1(p)'
<1>0. /\ Fits1(p) /\ p # None /\ p # "orphan"
      /\ at \in [Actor -> {"idle"} \cup CreateSteps \cup ScaleSteps]
      /\ scale \in [Actor -> Scaling \cup {None}] /\ None \notin Scaling
      /\ copy \in [Actor -> Config \cup {None}] /\ id \in [Actor -> Nat]
      /\ config \in Config /\ None \notin Config
  BY ActorAssumption, NoneAssumption DEF TInv, TypeOK
<1>1. CASE CallDown(p)
  <2>1. Work(0, 0) \in Scaling
    BY WorkType
  <2>2. scale'[p] # None /\ at'[p] = "lockScale" /\ scaleLock' = scaleLock /\ at[p] = "idle"
    BY <1>0, <1>1, <2>1 DEF CallDown, Enter, Goto
  <2> QED BY <1>0, <2>2 DEF Fits1, HasCopy, Raises,
     Raising, Scales, CreateSteps, ScaleSteps
<1>2. CASE PlanDown(p)
  <2>0. at'[p] \in {"close", "leave"} /\ scaleLock' = scaleLock
    BY <1>0, <1>2 DEF PlanDown, Goto, ScaleSteps
  <2>1. CASE at'[p] = "close"
    <3>1. scale'[p] # None /\ scale'[p].copy # None
      BY <1>0, <1>2, <2>1, PlanDownGives, ScalingType
    <3>2. Scales(p) /\ Scales(p)'
      BY <1>0, <1>2, <2>1, <3>1 DEF PlanDown, Scales, Fits1, ScaleSteps
    <3> QED BY <1>0, <2>0, <2>1, <3>1, <3>2
        DEF Fits1, HasCopy, Raises, Raising, CreateSteps, ScaleSteps
  <2>2. CASE at'[p] = "leave"
    <3>1. scale'[p] = scale[p]
      BY <1>0, <1>2, <2>2 DEF PlanDown, Goto, ScaleSteps
    <3> QED BY <1>0, <1>2, <2>0, <2>2, <3>1 DEF PlanDown, Fits1, HasCopy, Raises,
     Raising, Scales, CreateSteps, ScaleSteps
  <2> QED BY <2>0, <2>1, <2>2
<1>3. CASE ClosePanes(p)
  BY <1>0, <1>3, ActorAssumption DEF ClosePanes, Goto, creation, counts, Fits1, HasCopy, Raises,
     Raising, Scales, CreateSteps, ScaleSteps
<1>4. CASE SaveDown(p)
  BY <1>0, <1>4, ActorAssumption DEF SaveDown, Goto, creation, counts, Fits1, HasCopy, Raises,
     Raising, Scales, CreateSteps, ScaleSteps
<1> QED BY <1>1, <1>2, <1>3, <1>4 DEF Down

LEMMA LockFits ==
  ASSUME TInv, NEW p \in Actor, LockScale(p) \/ ScaleTimesOut(p) \/ Leave(p) \/ Crash(p)
  PROVE  Fits1(p)'
<1>0. /\ Fits1(p) /\ p # None /\ p # "orphan"
      /\ at \in [Actor -> {"idle"} \cup CreateSteps \cup ScaleSteps]
      /\ scale \in [Actor -> Scaling \cup {None}] /\ None \notin Scaling
      /\ copy \in [Actor -> Config \cup {None}] /\ id \in [Actor -> Nat]
      /\ config \in Config /\ None \notin Config
  BY ActorAssumption, NoneAssumption DEF TInv, TypeOK
<1>1. CASE LockScale(p)
  BY <1>0, <1>1, ActorAssumption DEF LockScale, Goto, creation, counts, Fits1, HasCopy, Raises,
     Raising, Scales, CreateSteps, ScaleSteps
<1>2. CASE ScaleTimesOut(p)
  BY <1>0, <1>2, ActorAssumption DEF ScaleTimesOut, Goto, creation, counts, Fits1, HasCopy, Raises,
     Raising, Scales, CreateSteps, ScaleSteps
<1>3. CASE Leave(p)
  BY <1>0, <1>3, ActorAssumption DEF Leave, Goto, creation, counts, Fits1, HasCopy, Raises,
     Raising, Scales, CreateSteps, ScaleSteps
<1>4. CASE Crash(p)
  BY <1>0, <1>4, ActorAssumption DEF Crash, Goto, Fits1, HasCopy, Raises,
     Raising, Scales, CreateSteps, ScaleSteps
<1> QED BY <1>1, <1>2, <1>3, <1>4

\* The bound on the ids moves with the ids.
LEMMA StaysBounded ==
  ASSUME TInv, NEW p \in Actor, Step(p)
  PROVE  Bounded'
<1>1. PICK b \in Nat : \A x \in tasks : x.id <= b
  BY DEF TInv, Bounded
<1>2. CASE WriteTask(p)
  <2>1. id[p] \in Nat
    BY DEF TInv, TypeOK
  <2>2. PICK m \in Nat : m >= b /\ m >= id[p]
    BY <2>1
  <2>3. ASSUME NEW x \in tasks' PROVE x.id <= m
    <3>1. CASE x \in tasks
      <4>1. x.id \in Nat /\ x.id <= b
        BY <1>1, <3>1 DEF TInv, TypeOK, Positive
      <4> QED BY <2>2, <4>1
    <3>2. CASE x = [id |-> id[p], maker |-> p]
      BY <2>2, <3>2
    <3> QED BY <1>2, <2>3, <3>1, <3>2 DEF WriteTask
  <2> QED BY <2>3 DEF Bounded
<1>3. CASE ~WriteTask(p)
  <2>1. tasks' \subseteq tasks
    <3>1. CASE Create(p)
      BY <1>3, <3>1 DEF Create, CallCreate, Enter, LockTasks, TasksTimeOut, ReadConfig, Pick,
         SaveConfig, UnlockTasks
    <3>2. CASE Up(p)
      BY <3>2 DEF Up, CallUp, Enter, PlanUp, Adopt, AskTask, OpenPane, NoPane, Join,
         NotGreeted, Throw, RollBack, RemoveTask, SaveRollBack
    <3>3. CASE Down(p)
      BY <3>3 DEF Down, CallDown, Enter, PlanDown, ClosePanes, SaveDown
    <3>4. CASE LockScale(p) \/ ScaleTimesOut(p) \/ Leave(p) \/ Crash(p)
      BY <3>4 DEF LockScale, ScaleTimesOut, Leave, Crash
    <3> QED BY <3>1, <3>2, <3>3, <3>4 DEF Step
  <2> QED BY <1>1, <2>1 DEF Bounded
<1> QED BY <1>2, <1>3

LEMMA StepTInv ==
  ASSUME TInv, NEW p \in Actor, Step(p)
  PROVE  TInv'
<1>1. TypeOK'
  BY CreateType, UpType, DownType, LockType DEF Step
<1>2. Fits1(p)'
  BY CreateFits, UpFits, DownFits, LockFits DEF Step
<1> QED BY <1>1, <1>2, StepsApart, OthersFit, StaysBounded DEF TInv

LEMMA RecoverTInv ==
  ASSUME TInv, RecoverLock
  PROVE  TInv'
<1>1. TypeOK'
  BY DEF TInv, TypeOK, RecoverLock, creation, counts
<1>2. Bounded'
  BY DEF TInv, Bounded, RecoverLock
<1>3. ASSUME NEW q \in Actor PROVE Fits1(q)'
  <2>1. Fits1(q)
    BY DEF TInv
  <2> QED BY <2>1, ActorAssumption
      DEF RecoverLock, creation, Fits1, HasCopy, Raises, Scales
<1> QED BY <1>1, <1>2, <1>3 DEF TInv

LEMMA NextCases == Next <=> (\E p \in Actor : Step(p)) \/ RecoverLock
BY DEF Next, Step

LEMMA IdleTInv ==
  ASSUME TInv, UNCHANGED vars
  PROVE  TInv'
<1>1. TypeOK'
  BY DEF TInv, TypeOK, vars, creation, counts
<1>2. Bounded'
  BY DEF TInv, Bounded, vars
<1>3. ASSUME NEW q \in Actor PROVE Fits1(q)'
  BY DEF TInv, vars, Fits1, HasCopy, Raises, Scales
<1> QED BY <1>1, <1>2, <1>3 DEF TInv

LEMMA NextTInv == TInv /\ [Next]_vars => TInv'
BY StepTInv, RecoverTInv, IdleTInv, NextCases

\* Types are kept, for any numbers of processes, workers and calls.
THEOREM Typing == Spec => []TypeOK
<1>1. TInv => TypeOK
  BY DEF TInv
<1> QED BY InitTInv, NextTInv, <1>1, PTL DEF Spec

-----------------------------------------------------------------------------
(* The task files.                                                          *)

\* The task that p has written, or is writing, and those of its scale-up.
Mine(p, i) == [id |-> i, maker |-> p] \in tasks

Kept(p) ==
  /\ at[p] = "writeTask" => \A x \in tasks : x.id # id[p]
  /\ at[p] \in {"saveConfig", "unlockTasks"} => Mine(p, id[p])
  /\ scale[p] # None => \A i \in scale[p].made : Mine(p, i)

NInv ==
  /\ \A x, y \in tasks : x.id = y.id => x = y
  /\ \A p \in Actor : Kept(p)

LEMMA InitNInv == Init => NInv
BY DEF Init, NInv, Kept

\* One written: its id was free.
LEMMA WriteNInv ==
  ASSUME TInv, NInv, NEW p \in Actor, WriteTask(p)
  PROVE  NInv' /\ tasks \subseteq tasks'
<1>1. \A x \in tasks : x.id # id[p]
  BY DEF NInv, Kept, WriteTask
<1>2. tasks' = tasks \cup {[id |-> id[p], maker |-> p]}
  BY <1>1 DEF WriteTask
<1>3. /\ at[p] = "writeTask" /\ at \in [Actor -> {"idle"} \cup CreateSteps \cup ScaleSteps]
      /\ at' = [at EXCEPT ![p] = "saveConfig"] /\ id' = id /\ scale' = scale
  BY DEF WriteTask, Goto, creation, TInv, TypeOK
<1>4. \A x, y \in tasks' : x.id = y.id => x = y
  BY <1>1, <1>2 DEF NInv
<1>5. ASSUME NEW q \in Actor PROVE Kept(q)'
  <2>1. CASE q = p
    BY <1>2, <1>3, <2>1 DEF NInv, Kept, Mine
  <2>2. CASE q # p
    <3>1. at[q] # "writeTask"
      BY <1>3, <2>2 DEF TInv, Fits1, CreateSteps
    <3> QED BY <1>2, <1>3, <2>2, <3>1 DEF NInv, Kept, Mine
  <2> QED BY <2>1, <2>2
<1> QED BY <1>2, <1>4, <1>5 DEF NInv

\* One removed: it was made by the scale-up that removes it.
LEMMA RemoveNInv ==
  ASSUME TInv, NInv, NEW p \in Actor, RemoveTask(p)
  PROVE  /\ NInv'
         /\ \A x \in tasks \ tasks' : x.maker = p /\ x.id \in scale[p].made
<1>1. PICK i \in scale[p].made :
        tasks' = {x \in tasks : x.id # i} /\ scale'[p].made = scale[p].made \ {i}
  BY RemoveTaskGives
<1>2. at[p] = "remove" /\ at' = at /\ id' = id /\ scale[p] # None
  BY DEF RemoveTask, creation, TInv, Fits1, ScaleSteps
<1>3. Mine(p, i)
  BY <1>1, <1>2 DEF NInv, Kept
<1>4. \A x \in tasks \ tasks' : x = [id |-> i, maker |-> p]
  BY <1>1, <1>3 DEF NInv, Mine
<1>5. ASSUME NEW q \in Actor PROVE Kept(q)'
  <2>1. CASE q = p
    <3>1. \A j \in scale[p].made \ {i} : [id |-> j, maker |-> p] \in tasks'
      BY <1>1, <1>2 DEF NInv, Kept, Mine
    <3> QED BY <1>1, <1>2, <2>1, <3>1 DEF Kept, Mine
  <2>2. CASE q # p
    <3>1. scale'[q] = scale[q]
      BY <2>2, StepsApart DEF Apart, Step, Up
    <3>2. \A j : [id |-> j, maker |-> q] \in tasks => [id |-> j, maker |-> q] \in tasks'
      <4>1. \A j : [id |-> j, maker |-> q] # [id |-> i, maker |-> p]
        BY <2>2
      <4> QED BY <1>4, <4>1
    <3> QED BY <1>1, <1>2, <3>1, <3>2 DEF NInv, Kept, Mine
  <2> QED BY <2>1, <2>2
<1> QED BY <1>1, <1>4, <1>5 DEF NInv

\* The other steps leave the files alone; what p holds of them it has by Pick,
\* SaveConfig and UnlockTasks.
LEMMA RestNInv ==
  ASSUME TInv, NInv, NEW p \in Actor, Step(p), ~WriteTask(p), ~RemoveTask(p)
  PROVE  NInv' /\ tasks' = tasks
<1>1. tasks' = tasks
  <2>1. CASE Create(p)
    BY <2>1 DEF Create, CallCreate, Enter, LockTasks, TasksTimeOut, ReadConfig, Pick,
       SaveConfig, UnlockTasks
  <2>2. CASE Up(p)
    BY <2>2 DEF Up, CallUp, Enter, PlanUp, Adopt, AskTask, OpenPane, NoPane, Join,
       NotGreeted, Throw, RollBack, SaveRollBack
  <2>3. CASE Down(p)
    BY <2>3 DEF Down, CallDown, Enter, PlanDown, ClosePanes, SaveDown
  <2>4. CASE LockScale(p) \/ ScaleTimesOut(p) \/ Leave(p) \/ Crash(p)
    BY <2>4 DEF LockScale, ScaleTimesOut, Leave, Crash
  <2> QED BY <2>1, <2>2, <2>3, <2>4 DEF Step
<1>2. ASSUME NEW q \in Actor, q # p PROVE Kept(q)'
  BY <1>1, <1>2, StepsApart DEF Apart, NInv, Kept, Mine
<1>3. /\ at \in [Actor -> {"idle"} \cup CreateSteps \cup ScaleSteps] /\ Kept(p)
      /\ scale \in [Actor -> Scaling \cup {None}] /\ id \in [Actor -> Nat]
      /\ copy \in [Actor -> Config \cup {None}]
  BY DEF TInv, TypeOK, NInv
<1>4. Kept(p)'
  <2>1. CASE Pick(p)
    <3>1. copy[p] \in Config
      BY <2>1, <1>3 DEF Pick, TInv, Fits1
    <3>2. /\ at'[p] = "writeTask" /\ id'[p] = NextId(copy[p]) /\ scale' = scale
      BY <1>3, <2>1 DEF Pick, Goto
    <3>3. \A x \in tasks : x.id # id'[p]
      BY <3>1, <3>2, NextIdIsNew DEF TInv, TypeOK, Positive
    <3> QED BY <1>1, <1>3, <3>2, <3>3 DEF Kept, Mine
  <2>2. CASE SaveConfig(p)
    BY <1>1, <1>3, <2>2 DEF SaveConfig, Goto, creation, Kept, Mine
  <2>3. CASE UnlockTasks(p)
    <3>1. at'[p] \in {"idle", "up"} /\ Mine(p, id[p])
      BY <1>3, <2>3 DEF UnlockTasks, Goto, Kept
    <3>2. CASE scale[p] = None
      BY <1>1, <1>3, <2>3, <3>1, <3>2 DEF UnlockTasks, Kept
    <3>3. CASE scale[p] # None
      <4>1. scale'[p].made = scale[p].made \cup {id[p]}
        BY <2>3, <3>3, UnlockTasksGives
      <4> QED BY <1>1, <1>3, <3>1, <3>3, <4>1 DEF Kept, Mine
    <3> QED BY <3>2, <3>3
  <2>4. CASE CallCreate(p) \/ LockTasks(p) \/ TasksTimeOut(p) \/ ReadConfig(p)
    BY <1>1, <1>3, <2>4 DEF CallCreate, Enter, LockTasks, TasksTimeOut, ReadConfig, Goto,
       creation, Kept, Mine
  <2>5. CASE CallUp(p)
    <3>1. PICK n \in 1 .. MaxAdd, k \in 0 .. MaxAsk : scale' = [scale EXCEPT ![p] = Work(n, k)]
      BY <2>5 DEF CallUp
    <3>2. scale'[p] = Work(n, k) /\ Work(n, k).made = {} /\ at'[p] = "lockScale"
      BY <1>3, <2>5, <3>1, WorkType, BoundAssumption DEF CallUp, Enter, Goto
    <3> QED BY <3>2 DEF Kept
  <2>6. CASE CallDown(p)
    <3>1. scale'[p] = Work(0, 0) /\ Work(0, 0).made = {} /\ at'[p] = "lockScale"
      BY <1>3, <2>6, WorkType DEF CallDown, Enter, Goto
    <3> QED BY <3>1 DEF Kept
  <2>7. CASE PlanUp(p) \/ AskTask(p) \/ OpenPane(p) \/ Join(p) \/ RollBack(p)
    <3>1. scale'[p].made = scale[p].made /\ scale[p] # None
      BY <2>7, PlanUpGives, AskTaskGives, OpenPaneGives, JoinGives, RollBackGives
      DEF PlanUp, AskTask, OpenPane, AboutToOpen, Join, RollBack, TInv, Fits1, ScaleSteps
    <3>2. at'[p] \notin {"writeTask", "saveConfig", "unlockTasks"}
      BY <1>3, <2>7 DEF PlanUp, AskTask, OpenPane, Join, RollBack, Goto
    <3> QED BY <1>1, <1>3, <3>1, <3>2 DEF Kept, Mine
  <2>8. CASE PlanDown(p)
    <3>1. at'[p] \in {"close", "leave"} /\ scale[p] # None
      BY <1>3, <2>8 DEF PlanDown, Goto, TInv, Fits1, ScaleSteps
    <3>2. scale'[p].made = scale[p].made
      BY <1>3, <2>8, <3>1, PlanDownGives DEF PlanDown, Goto
    <3> QED BY <1>1, <1>3, <3>1, <3>2 DEF Kept, Mine
  <2>9. CASE \/ Adopt(p) \/ NoPane(p) \/ NotGreeted(p) \/ Throw(p) \/ SaveRollBack(p)
             \/ ClosePanes(p) \/ SaveDown(p) \/ LockScale(p)
    <3>1. scale' = scale /\ at'[p] \notin {"writeTask", "saveConfig", "unlockTasks"}
      BY <1>3, <2>9 DEF Adopt, NoPane, NotGreeted, Throw, SaveRollBack, ClosePanes, SaveDown,
         LockScale, Goto
    <3> QED BY <1>1, <1>3, <3>1 DEF Kept, Mine
  <2>10. CASE ScaleTimesOut(p) \/ Leave(p) \/ Crash(p)
    BY <1>3, <2>10 DEF ScaleTimesOut, Leave, Crash, Goto, Kept
  <2> QED BY <2>1, <2>2, <2>3, <2>4, <2>5, <2>6, <2>7, <2>8, <2>9, <2>10
      DEF Step, Create, Up, Down
<1> QED BY <1>1, <1>2, <1>4 DEF NInv

LEMMA NextNInv == TInv /\ NInv /\ [Next]_vars => NInv'
<1> SUFFICES ASSUME TInv, NInv, [Next]_vars PROVE NInv'
  OBVIOUS
<1>1. ASSUME NEW p \in Actor, Step(p) PROVE NInv'
  BY <1>1, WriteNInv, RemoveNInv, RestNInv
<1>2. CASE RecoverLock
  BY <1>2 DEF RecoverLock, creation, NInv, Kept, Mine
<1>3. CASE UNCHANGED vars
  BY <1>3 DEF vars, NInv, Kept, Mine
<1> QED BY <1>1, <1>2, <1>3, NextCases

\* No task file is written over or taken away but by the roll-back of the scale-up
\* that made it, whatever the counter in the configuration has fallen behind to.
THEOREM TasksAreKept == Spec => TasksStay
<1>1. ASSUME TInv, NInv, Next
      PROVE  \A x \in tasks :
               \/ x \in tasks'
               \/ at[x.maker] = "remove" /\ x.id \in scale[x.maker].made
  <2>1. ASSUME NEW p \in Actor, Step(p)
        PROVE  \A x \in tasks :
                 \/ x \in tasks'
                 \/ at[x.maker] = "remove" /\ x.id \in scale[x.maker].made
    <3>1. CASE WriteTask(p)
      BY <1>1, <3>1, WriteNInv
    <3>2. CASE RemoveTask(p)
      BY <1>1, <3>2, RemoveNInv DEF RemoveTask
    <3>3. CASE ~WriteTask(p) /\ ~RemoveTask(p)
      BY <1>1, <2>1, <3>3, RestNInv
    <3> QED BY <3>1, <3>2, <3>3
  <2>2. CASE RecoverLock
    BY <2>2 DEF RecoverLock
  <2> QED BY <1>1, <2>1, <2>2, NextCases
<1>2. TInv /\ NInv /\ [Next]_vars
      => [\A x \in tasks :
            \/ x \in tasks'
            \/ at[x.maker] = "remove" /\ x.id \in scale[x.maker].made]_tasks
  BY <1>1 DEF vars
<1> QED BY <1>2, InitTInv, NextTInv, InitNInv, NextNInv, PTL DEF Spec, TasksStay

-----------------------------------------------------------------------------
(* The rosters.                                                             *)

\* What holds of the configuration and of every copy of it, however old.
Good(c) ==
  /\ IsFiniteSet(c.workers) /\ c.workers # {}
  /\ Cardinality(c.workers) <= DefaultMax
  /\ \A v \in c.workers :
       v.index < c.nextIndex /\ \A w \in c.workers : v.index = w.index => v = w

Rosters(p) ==
  /\ copy[p] # None => Good(copy[p])
  /\ HasCopy(p) => Good(scale[p].copy)
  /\ Raises(p) => Cardinality(scale[p].copy.workers) + scale[p].goal <= DefaultMax
  /\ Raises(p) \/ at[p] = "rollback" =>
       /\ \A w \in scale[p].copy.workers : w \in scale[p].added \/ w.index < scale[p].first
       /\ \E w \in scale[p].copy.workers : w \notin scale[p].added
  /\ scale[p] # None /\ at[p] \in {"lockScale", "plan"} =>
       scale[p].added = {} /\ scale[p].hand = {}
  /\ Raises(p) /\ at[p] # "greet" => scale[p].hand = {}
  /\ at[p] = "greet" => \E w : scale[p].hand = {w} /\ w.index = scale[p].copy.nextIndex
  /\ at[p] = "rollback" => scale[p].hand = {} \/
       \E w : scale[p].hand = {w} /\ w.index = scale[p].copy.nextIndex
  /\ at[p] \in {"close", "saveDown"} =>
       /\ scale[p].hand \subseteq scale[p].copy.workers
       /\ scale[p].hand # scale[p].copy.workers

RInv == Good(config) /\ \A p \in Actor : Rosters(p)

\* The team starts with workers 1 .. InitWorkers.
LEMMA InitRInv == Init => RInv
<1> SUFFICES ASSUME Init PROVE RInv
  OBVIOUS
<1> DEFINE I == 1 .. InitWorkers
           f == [i \in I |-> [index |-> i, pane |-> i]]
<1>1. IsFiniteSet(I) /\ Cardinality(I) = InitWorkers
  BY FS_Interval, LimitAssumption
<1>2. live = {f[i] : i \in I}
  BY DEF Init
<1>3. \A i, j \in I : f[i] = f[j] => i = j
  <2>1. \A i \in I : f[i].index = i
    OBVIOUS
  <2> QED BY <2>1
<1>4. f \in [I -> live] /\ \A w \in live : \E i \in I : f[i] = w
  BY <1>2
<1> HIDE DEF I
<1>5. ExistsBijection(I, live)
  <2>1. f \in Bijection(I, live)
    <3> HIDE DEF f
    <3> QED BY <1>3, <1>4 DEF Bijection, Injection, IsInjective, Surjection
  <2> QED BY <2>1 DEF ExistsBijection
<1>6. IsFiniteSet(live) /\ Cardinality(live) = InitWorkers
  BY <1>1, <1>5, FS_Bijection
<1> USE DEF I
<1>7. Good(config)
  <2>1. config.workers = live /\ config.nextIndex = InitWorkers + 1
    BY DEF Init
  <2>2. live # {}
    <3>1. InitWorkers # 0
      BY LimitAssumption
    <3> QED BY <1>6, <3>1, FS_EmptySet
  <2>3. ASSUME NEW v \in live, NEW w \in live
        PROVE  v.index < InitWorkers + 1 /\ (v.index = w.index => v = w)
    BY LimitAssumption DEF Init
  <2> QED BY <1>6, <2>1, <2>2, <2>3, LimitAssumption DEF Good
<1>8. ASSUME NEW p \in Actor PROVE Rosters(p)
  BY DEF Init, Rosters, HasCopy, Raises
<1> QED BY <1>7, <1>8 DEF RInv

\* A roster taken from a good one is good, if not empty.
LEMMA FewerGood ==
  ASSUME NEW c \in Config, NEW d \in Config, Good(c),
         d.workers \subseteq c.workers, d.workers # {},
         \A w \in d.workers : w.index < d.nextIndex
  PROVE  Good(d) /\ Cardinality(d.workers) <= Cardinality(c.workers)
<1>1. IsFiniteSet(d.workers) /\ Cardinality(d.workers) <= Cardinality(c.workers)
  BY FS_Subset DEF Good
<1>2. Cardinality(d.workers) \in Nat /\ Cardinality(c.workers) \in Nat
  BY <1>1, FS_CardinalityType DEF Good
<1> QED BY <1>1, <1>2, LimitAssumption DEF Good

\* So is one with a worker named by the counter, if there is room.
LEMMA MoreGood ==
  ASSUME NEW c \in Config, NEW d \in Config, NEW w \in Worker, Good(c),
         d.workers = c.workers \cup {w}, d.nextIndex = c.nextIndex + 1,
         w.index = c.nextIndex, Cardinality(c.workers) + 1 <= DefaultMax
  PROVE  Good(d) /\ Cardinality(d.workers) = Cardinality(c.workers) + 1
<1>1. c.nextIndex \in Nat /\ \A v \in c.workers : v.index \in Nat
  BY ConfigType DEF Worker, Positive
<1>2. w \notin c.workers
  <2>1. w \in c.workers => w.index < c.nextIndex
    BY DEF Good
  <2>2. ~(w.index < c.nextIndex)
    BY <1>1
  <2> QED BY <2>1, <2>2
<1>3. IsFiniteSet(d.workers) /\ Cardinality(d.workers) = Cardinality(c.workers) + 1
  <2>1. IsFiniteSet(c.workers)
    BY DEF Good
  <2>2. /\ IsFiniteSet(c.workers \cup {w})
        /\ Cardinality(c.workers \cup {w}) = IF w \in c.workers THEN Cardinality(c.workers)
                                            ELSE Cardinality(c.workers) + 1
    BY <2>1, FS_AddElement, Zenon
  <2> QED BY <1>2, <2>2
<1>4. ASSUME NEW v \in d.workers
      PROVE  v.index < d.nextIndex /\ \A u \in d.workers : v.index = u.index => v = u
  <2>1. v \in c.workers => v.index < c.nextIndex
    BY DEF Good
  <2>2. \A u \in d.workers : u \in c.workers \/ u = w
    OBVIOUS
  <2>3. \A u \in c.workers : u.index < c.nextIndex
    BY DEF Good
  <2> QED BY <1>1, <2>1, <2>2, <2>3 DEF Good
<1> QED BY <1>3, <1>4 DEF Good

LEMMA OthersRosters ==
  ASSUME RInv, NEW p \in Actor, Apart(p), Rosters(p)'
  PROVE  \A q \in Actor : Rosters(q)'
<1> SUFFICES ASSUME NEW q \in Actor, q # p PROVE Rosters(q)'
  OBVIOUS
<1>1. Rosters(q)
  BY DEF RInv
<1>2. at'[q] = at[q] /\ scale'[q] = scale[q] /\ copy'[q] = copy[q]
  BY DEF Apart
<1> QED BY <1>1, <1>2 DEF Rosters, HasCopy, Raises, Good

\* A step of p keeps the configuration and its own copies good.
LEMMA CreateRosters ==
  ASSUME TInv, RInv, NEW p \in Actor, Create(p)
  PROVE  Good(config)' /\ Rosters(p)'
<1>0. /\ at \in [Actor -> {"idle"} \cup CreateSteps \cup ScaleSteps]
      /\ scale \in [Actor -> Scaling \cup {None}] /\ None \notin Scaling
      /\ copy \in [Actor -> Config \cup {None}] /\ config \in Config
      /\ Good(config) /\ Rosters(p) /\ Fits1(p)
  BY NoneAssumption DEF TInv, TypeOK, RInv
<1>1. CASE CallCreate(p)
  <2>1. scale[p] = None /\ scale' = scale /\ copy' = copy /\ config' = config
    BY <1>0, <1>1 DEF CallCreate, Enter, Fits1, creation
  <2>2. at'[p] = "lockTasks"
    BY <1>0, <1>1 DEF CallCreate, Enter, Goto
  <2> QED BY <1>0, <2>1, <2>2 DEF Rosters, HasCopy, Raises, Raising,
     CreateSteps, ScaleSteps, Good
<1>2. CASE LockTasks(p)
  <2>1. /\ at[p] = "lockTasks" /\ at'[p] = "readConfig"
        /\ scale' = scale /\ copy' = copy /\ config' = config
    BY <1>0, <1>2 DEF LockTasks, Goto, creation
  <2> QED BY <1>0, <2>1 DEF Rosters, HasCopy, Raises, Raising,
     CreateSteps, ScaleSteps, Good
<1>3. CASE TasksTimeOut(p)
  <2>1. /\ at[p] = "lockTasks" /\ at'[p] \in {"idle", "leave"}
        /\ scale' = scale /\ copy' = copy /\ config' = config
    BY <1>0, <1>3 DEF TasksTimeOut, Goto, creation
  <2> QED BY <1>0, <2>1 DEF Rosters, HasCopy, Raises, Raising,
     CreateSteps, ScaleSteps, Good
<1>4. CASE ReadConfig(p)
  <2>1. /\ at[p] = "readConfig" /\ at'[p] = "pick"
        /\ scale' = scale /\ copy'[p] = config /\ config' = config
    BY <1>0, <1>4 DEF ReadConfig, Goto
  <2> QED BY <1>0, <2>1 DEF Rosters, HasCopy, Raises, Raising,
     CreateSteps, ScaleSteps, Good
<1>5. CASE Pick(p)
  <2>1. /\ at[p] = "pick" /\ at'[p] = "writeTask"
        /\ scale' = scale /\ copy' = copy /\ config' = config
    BY <1>0, <1>5 DEF Pick, Goto
  <2> QED BY <1>0, <2>1 DEF Rosters, HasCopy, Raises, Raising,
     CreateSteps, ScaleSteps, Good
<1>6. CASE WriteTask(p)
  <2>1. /\ at[p] = "writeTask" /\ at'[p] = "saveConfig"
        /\ scale' = scale /\ copy' = copy /\ config' = config
    BY <1>0, <1>6 DEF WriteTask, Goto, creation
  <2> QED BY <1>0, <2>1 DEF Rosters, HasCopy, Raises, Raising,
     CreateSteps, ScaleSteps, Good
<1>7. CASE SaveConfig(p)
  <2>1. /\ at[p] = "saveConfig" /\ at'[p] = "unlockTasks"
        /\ scale' = scale /\ copy' = copy
    BY <1>0, <1>7 DEF SaveConfig, Goto, creation
  <2>2. copy[p] \in Config /\ copy[p] # None
    BY <1>7, SaveConfigGives, ConfigType
  <2>3. Good(config)'
    BY <1>0, <1>7, <2>2, SaveConfigGives DEF Good, Rosters
  <2> QED BY <1>0, <2>1, <2>3 DEF Rosters, HasCopy, Raises, Raising,
     CreateSteps, ScaleSteps, Good
<1>8. CASE UnlockTasks(p)
  <2>1. copy'[p] = None /\ config' = config /\ at[p] = "unlockTasks"
    BY <1>0, <1>8 DEF UnlockTasks
  <2>2. CASE scale[p] = None
    <3>1. scale' = scale /\ at'[p] = "idle"
      BY <1>0, <1>8, <2>2 DEF UnlockTasks, Goto
    <3> QED BY <1>0, <2>1, <2>2, <3>1 DEF Rosters, HasCopy, Raises, Raising,
     CreateSteps, ScaleSteps, Good
  <2>3. CASE scale[p] # None
    <3>1. /\ scale'[p].goal = scale[p].goal /\ scale'[p].copy = scale[p].copy
          /\ scale'[p].first = scale[p].first /\ scale'[p].added = scale[p].added
          /\ scale'[p].hand = scale[p].hand
      BY <1>8, <2>3, UnlockTasksGives
    <3>2. at'[p] = "up"
      BY <1>0, <1>8, <2>3 DEF UnlockTasks, Goto
    <3>3. Raises(p) /\ HasCopy(p)
      BY <2>1, <2>3 DEF Raises, HasCopy, Raising, CreateSteps
    <3> QED BY <1>0, <2>1, <3>1, <3>2, <3>3 DEF Rosters, HasCopy, Raises, Raising,
     CreateSteps, ScaleSteps, Good
  <2> QED BY <2>2, <2>3
<1> QED BY <1>1, <1>2, <1>3, <1>4, <1>5, <1>6, <1>7, <1>8 DEF Create

LEMMA UpRosters ==
  ASSUME TInv, RInv, NEW p \in Actor, Up(p)
  PROVE  Good(config)' /\ Rosters(p)'
<1>0. /\ at \in [Actor -> {"idle"} \cup CreateSteps \cup ScaleSteps]
      /\ scale \in [Actor -> Scaling \cup {None}] /\ None \notin Scaling
      /\ copy \in [Actor -> Config \cup {None}] /\ config \in Config
      /\ Good(config) /\ Rosters(p) /\ Fits1(p)
  BY NoneAssumption DEF TInv, TypeOK, RInv
<1>1. CASE CallUp(p)
  <2>1. PICK n \in 1 .. MaxAdd, m \in 0 .. MaxAsk : scale' = [scale EXCEPT ![p] = Work(n, m)]
    BY <1>1 DEF CallUp
  <2>2. scale'[p].added = {} /\ scale'[p].hand = {}
    BY <1>0, <2>1 DEF Work
  <2>3. at'[p] = "lockScale" /\ copy' = copy /\ config' = config
    BY <1>0, <1>1 DEF CallUp, Enter, Goto, creation
  <2> QED BY <1>0, <2>2, <2>3 DEF Rosters, HasCopy, Raises, Raising,
     CreateSteps, ScaleSteps, Good
<1>2. CASE PlanUp(p)
  <2>1. /\ scale'[p] # None /\ scale'[p].copy = config /\ scale'[p].goal = scale[p].goal
        /\ scale'[p].first = config.nextIndex
        /\ scale'[p].added = scale[p].added /\ scale'[p].hand = scale[p].hand
    BY <1>2, PlanUpGives, ScalingType
  <2>2. scale[p].added = {} /\ scale[p].hand = {}
    BY <1>0, <1>2 DEF PlanUp, Rosters, Fits1, ScaleSteps
  <2>3. /\ at'[p] \in {"adopt", "up"} => Fits(config, scale[p].goal)
        /\ at'[p] \in {"adopt", "up", "leave"} /\ copy' = copy /\ config' = config
    BY <1>0, <1>2 DEF PlanUp, Goto, creation, ScaleSteps
  <2>4. /\ \A w \in config.workers : w.index < config.nextIndex
        /\ \E w \in config.workers : w \notin {}
    BY <1>0 DEF Good
  <2> QED BY <1>0, <2>1, <2>2, <2>3, <2>4 DEF Rosters, HasCopy, Raises, Raising,
     CreateSteps, ScaleSteps, Good, Fits
<1>3. CASE Adopt(p)
  <2>1. /\ at[p] = "adopt" /\ at'[p] = "up" /\ scale' = scale /\ copy' = copy
        /\ config' = scale[p].copy
    BY <1>0, <1>3 DEF Adopt, Goto, creation
  <2>2. Raises(p) /\ HasCopy(p)
    BY <1>0, <2>1 DEF Raises, HasCopy, Raising, Fits1, ScaleSteps
  <2> QED BY <1>0, <2>1, <2>2 DEF Rosters, HasCopy, Raises, Raising,
     CreateSteps, ScaleSteps, Good
<1>4. CASE AskTask(p)
  <2>1. /\ scale'[p] # None /\ scale'[p].copy = scale[p].copy /\ scale'[p].goal = scale[p].goal
        /\ scale'[p].first = scale[p].first
        /\ scale'[p].added = scale[p].added /\ scale'[p].hand = scale[p].hand
    BY <1>4, AskTaskGives, ScalingType
  <2>2. at[p] = "up" /\ at'[p] = "lockTasks" /\ copy' = copy /\ config' = config
    BY <1>0, <1>4 DEF AskTask, Goto, creation
  <2>3. Raises(p) /\ HasCopy(p)
    BY <1>0, <2>2 DEF Raises, HasCopy, Raising, Fits1, ScaleSteps
  <2> QED BY <1>0, <2>1, <2>2, <2>3 DEF Rosters, HasCopy, Raises, Raising,
     CreateSteps, ScaleSteps, Good
<1>5. CASE OpenPane(p)
  <2>1. /\ scale'[p] # None /\ scale'[p].copy = scale[p].copy /\ scale'[p].goal = scale[p].goal
        /\ scale'[p].first = scale[p].first /\ scale'[p].added = scale[p].added
        /\ scale'[p].hand = {[index |-> scale[p].copy.nextIndex, pane |-> panes + 1]}
    BY <1>5, OpenPaneGives, ScalingType
  <2>2. at[p] = "up" /\ at'[p] = "greet" /\ copy' = copy /\ config' = config
    BY <1>0, <1>5 DEF OpenPane, AboutToOpen, Goto, creation
  <2>3. Raises(p) /\ HasCopy(p)
    BY <1>0, <2>2 DEF Raises, HasCopy, Raising, Fits1, ScaleSteps
  <2>4. \E w : scale'[p].hand = {w} /\ w.index = scale[p].copy.nextIndex
    <3> DEFINE new == [index |-> scale[p].copy.nextIndex, pane |-> panes + 1]
    <3>1. new.index = scale[p].copy.nextIndex /\ scale'[p].hand = {new}
      BY <2>1
    <3> HIDE DEF new
    <3> QED BY <3>1
  <2> QED BY <1>0, <2>1, <2>2, <2>3, <2>4 DEF Rosters, HasCopy, Raises, Raising,
     CreateSteps, ScaleSteps, Good
<1>6. CASE NoPane(p)
  <2>1. /\ at[p] = "up" /\ at'[p] = "rollback" /\ scale' = scale /\ copy' = copy
        /\ config' = config
    BY <1>0, <1>6 DEF NoPane, AboutToOpen, Goto, creation
  <2>2. Raises(p) /\ HasCopy(p)
    BY <1>0, <2>1 DEF Raises, HasCopy, Raising, Fits1, ScaleSteps
  <2> QED BY <1>0, <2>1, <2>2 DEF Rosters, HasCopy, Raises, Raising,
     CreateSteps, ScaleSteps, Good
<1>7. CASE Join(p)
  <2>1. /\ at[p] = "greet" /\ at'[p] = (IF scale[p].goal = 1 THEN "leave" ELSE "up")
        /\ copy' = copy
    BY <1>0, <1>7 DEF Join, Goto, creation, ScaleSteps
  <2>2. Raises(p) /\ HasCopy(p)
    BY <1>0, <2>1 DEF Raises, HasCopy, Raising, Fits1, ScaleSteps
  <2>3. scale[p] \in Scaling /\ scale[p].copy \in Config
    BY <2>2, CopyType DEF TInv, Fits1, HasCopy
  <2>4. PICK w : scale[p].hand = {w} /\ w.index = scale[p].copy.nextIndex
    BY <1>0, <2>1 DEF Rosters
  <2>5. w \in Worker /\ scale[p].goal \in Nat /\ scale[p].goal > 0
    BY <1>0, <2>2, <2>3, <2>4, ScalingType DEF Fits1
  <2>6. /\ config' \in Config /\ config'.workers = scale[p].copy.workers \cup {w}
        /\ config'.nextIndex = scale[p].copy.nextIndex + 1
        /\ scale'[p].copy = config' /\ scale'[p].goal = scale[p].goal - 1
        /\ scale'[p].first = scale[p].first /\ scale'[p].hand = {}
        /\ scale'[p].added = scale[p].added \cup {w}
    BY <1>7, <2>4, JoinGives
  <2>7. /\ Good(scale[p].copy)
        /\ Cardinality(scale[p].copy.workers) + scale[p].goal <= DefaultMax
    BY <1>0, <2>2 DEF Rosters
  <2>8. Cardinality(scale[p].copy.workers) \in Nat
    BY <2>7, FS_CardinalityType DEF Good
  <2>9. Cardinality(scale[p].copy.workers) + 1 <= DefaultMax
    BY <2>5, <2>7, <2>8, LimitAssumption
  <2>10. Good(config') /\ Cardinality(config'.workers) = Cardinality(scale[p].copy.workers) + 1
    BY <2>3, <2>4, <2>5, <2>6, <2>7, <2>9, MoreGood
  <2>11. Cardinality(config'.workers) + scale'[p].goal <= DefaultMax
    BY <2>5, <2>6, <2>7, <2>8, <2>10
  <2>12. /\ \A v \in config'.workers : v \in scale'[p].added \/ v.index < scale'[p].first
         /\ \E v \in config'.workers : v \notin scale'[p].added
    <3>1. w \notin scale[p].copy.workers
      BY <2>4, <2>7, <2>3, ConfigType DEF Good, Positive
    <3>2. /\ \A v \in scale[p].copy.workers : v \in scale[p].added \/ v.index < scale[p].first
          /\ \E v \in scale[p].copy.workers : v \notin scale[p].added
      BY <1>0, <2>2 DEF Rosters
    <3> QED BY <2>6, <3>1, <3>2
  <2> QED BY <1>0, <2>1, <2>6, <2>10, <2>11, <2>12 DEF Rosters, HasCopy, Raises, Raising,
     CreateSteps, ScaleSteps, Good
<1>8. CASE NotGreeted(p)
  <2>1. /\ at[p] = "greet" /\ at'[p] = "rollback" /\ scale' = scale /\ copy' = copy
        /\ config' = config
    BY <1>0, <1>8 DEF NotGreeted, Goto, creation
  <2>2. Raises(p) /\ HasCopy(p)
    BY <1>0, <2>1 DEF Raises, HasCopy, Raising, Fits1, ScaleSteps
  <2> QED BY <1>0, <2>1, <2>2 DEF Rosters, HasCopy, Raises, Raising,
     CreateSteps, ScaleSteps, Good
<1>9. CASE Throw(p)
  <2>1. at'[p] = "leave" /\ scale' = scale /\ copy' = copy /\ config' = config
    BY <1>0, <1>9 DEF Throw, Goto, creation
  <2> QED BY <1>0, <2>1 DEF Rosters, HasCopy, Raises, Raising,
     CreateSteps, ScaleSteps, Good
<1>10. CASE RollBack(p)
  <2>1. /\ at[p] = "rollback" /\ at'[p] = "remove" /\ copy' = copy /\ config' = config
    BY <1>0, <1>10 DEF RollBack, Goto, creation
  <2>2. HasCopy(p)
    BY <1>0, <2>1 DEF HasCopy, Fits1, ScaleSteps
  <2>3. scale[p] \in Scaling /\ scale[p].copy \in Config
    BY <2>2, CopyType DEF TInv, Fits1, HasCopy
  <2>4. /\ scale'[p] \in Scaling /\ scale'[p].copy \in Config
        /\ scale'[p].copy.workers = scale[p].copy.workers \ scale[p].added
        /\ scale'[p].copy.nextIndex = scale[p].first
    BY <1>10, RollBackGives
  <2>5. /\ Good(scale[p].copy)
        /\ \A w \in scale[p].copy.workers : w \in scale[p].added \/ w.index < scale[p].first
        /\ \E w \in scale[p].copy.workers : w \notin scale[p].added
    BY <1>0, <2>1, <2>2 DEF Rosters
  <2>6. Good(scale'[p].copy)
    BY <2>3, <2>4, <2>5, FewerGood
  <2> QED BY <1>0, <2>1, <2>6 DEF Rosters, HasCopy, Raises, Raising,
     CreateSteps, ScaleSteps, Good
<1>11. CASE RemoveTask(p)
  <2>1. scale'[p] # None /\ scale'[p].copy = scale[p].copy
    BY <1>11, RemoveTaskGives, ScalingType
  <2>2. at[p] = "remove" /\ at' = at /\ copy' = copy /\ config' = config
    BY <1>0, <1>11 DEF RemoveTask, creation
  <2>3. HasCopy(p)
    BY <1>0, <2>2 DEF HasCopy, Fits1, ScaleSteps
  <2> QED BY <1>0, <2>1, <2>2, <2>3 DEF Rosters, HasCopy, Raises, Raising,
     CreateSteps, ScaleSteps, Good
<1>12. CASE SaveRollBack(p)
  <2>1. /\ at[p] = "remove" /\ at'[p] = "leave" /\ scale' = scale /\ copy' = copy
        /\ config' = scale[p].copy
    BY <1>0, <1>12 DEF SaveRollBack, Goto, creation
  <2>2. HasCopy(p)
    BY <1>0, <2>1 DEF HasCopy, Fits1, ScaleSteps
  <2> QED BY <1>0, <2>1, <2>2 DEF Rosters, HasCopy, Raises, Raising,
     CreateSteps, ScaleSteps, Good
<1> QED BY <1>1, <1>2, <1>3, <1>4, <1>5, <1>6, <1>7, <1>8, <1>9, <1>10, <1>11, <1>12 DEF Up

LEMMA DownRosters ==
  ASSUME TInv, RInv, NEW p \in Actor, Down(p)
  PROVE  Good(config)' /\ Rosters(p)'
<1>0. /\ at \in [Actor -> {"idle"} \cup CreateSteps \cup ScaleSteps]
      /\ scale \in [Actor -> Scaling \cup {None}] /\ None \notin Scaling
      /\ copy \in [Actor -> Config \cup {None}] /\ config \in Config
      /\ Good(config) /\ Rosters(p) /\ Fits1(p)
  BY NoneAssumption DEF TInv, TypeOK, RInv
<1>1. CASE CallDown(p)
  <2>1. scale'[p].added = {} /\ scale'[p].hand = {}
    BY <1>0, <1>1 DEF CallDown, Work
  <2>2. at'[p] = "lockScale" /\ copy' = copy /\ config' = config
    BY <1>0, <1>1 DEF CallDown, Enter, Goto, creation
  <2> QED BY <1>0, <2>1, <2>2 DEF Rosters, HasCopy, Raises, Raising,
     CreateSteps, ScaleSteps, Good
<1>2. CASE PlanDown(p)
  <2>1. at'[p] \in {"close", "leave"} /\ copy' = copy /\ config' = config
    BY <1>0, <1>2 DEF PlanDown, Goto, creation, ScaleSteps
  <2>2. at'[p] = "close" =>
          /\ scale'[p].copy = config /\ scale'[p].hand \subseteq config.workers
          /\ scale'[p].hand # config.workers
    BY <1>2, PlanDownGives
  <2> QED BY <1>0, <2>1, <2>2 DEF Rosters, HasCopy, Raises, Raising,
     CreateSteps, ScaleSteps, Good
<1>3. CASE ClosePanes(p)
  <2>1. /\ at[p] = "close" /\ at'[p] \in {"saveDown", "leave"}
        /\ scale' = scale /\ copy' = copy /\ config' = config
    BY <1>0, <1>3 DEF ClosePanes, Goto, creation, ScaleSteps
  <2>2. HasCopy(p)
    BY <1>0, <2>1 DEF HasCopy, Fits1, ScaleSteps
  <2> QED BY <1>0, <2>1, <2>2 DEF Rosters, HasCopy, Raises, Raising,
     CreateSteps, ScaleSteps, Good
<1>4. CASE SaveDown(p)
  <2>1. at[p] = "saveDown" /\ at'[p] = "leave" /\ scale' = scale /\ copy' = copy
    BY <1>0, <1>4 DEF SaveDown, Goto, creation
  <2>2. HasCopy(p)
    BY <1>0, <2>1 DEF HasCopy, Fits1, ScaleSteps
  <2>3. /\ scale[p].copy \in Config /\ config' \in Config
        /\ config'.workers = scale[p].copy.workers \ scale[p].hand
        /\ config'.nextIndex = scale[p].copy.nextIndex
    BY <1>4, SaveDownGives
  <2>4. /\ Good(scale[p].copy) /\ scale[p].hand \subseteq scale[p].copy.workers
        /\ scale[p].hand # scale[p].copy.workers
    BY <1>0, <2>1, <2>2 DEF Rosters
  <2>5. \A w \in scale[p].copy.workers : w.index < scale[p].copy.nextIndex
    BY <2>4 DEF Good
  <2>6. Good(config')
    BY <2>3, <2>4, <2>5, FewerGood
  <2> QED BY <1>0, <2>1, <2>6 DEF Rosters, HasCopy, Raises, Raising,
     CreateSteps, ScaleSteps, Good
<1> QED BY <1>1, <1>2, <1>3, <1>4 DEF Down

LEMMA LockRosters ==
  ASSUME TInv, RInv, NEW p \in Actor, LockScale(p) \/ ScaleTimesOut(p) \/ Leave(p) \/ Crash(p)
  PROVE  Good(config)' /\ Rosters(p)'
<1>0. /\ at \in [Actor -> {"idle"} \cup CreateSteps \cup ScaleSteps]
      /\ scale \in [Actor -> Scaling \cup {None}] /\ None \notin Scaling
      /\ copy \in [Actor -> Config \cup {None}] /\ config \in Config
      /\ Good(config) /\ Rosters(p) /\ Fits1(p)
  BY NoneAssumption DEF TInv, TypeOK, RInv
<1>1. CASE LockScale(p)
  <2>1. /\ at[p] = "lockScale" /\ at'[p] = "plan" /\ scale' = scale /\ copy' = copy
        /\ config' = config
    BY <1>0, <1>1 DEF LockScale, Goto, creation
  <2> QED BY <1>0, <2>1 DEF Rosters, HasCopy, Raises, Raising,
     CreateSteps, ScaleSteps, Good
<1>2. CASE ScaleTimesOut(p)
  <2>1. scale'[p] = None /\ at'[p] = "idle" /\ copy' = copy /\ config' = config
    BY <1>0, <1>2 DEF ScaleTimesOut, Goto, creation
  <2> QED BY <1>0, <2>1 DEF Rosters, HasCopy, Raises, Raising,
     CreateSteps, ScaleSteps, Good
<1>3. CASE Leave(p)
  <2>1. scale'[p] = None /\ at'[p] = "idle" /\ copy' = copy /\ config' = config
    BY <1>0, <1>3 DEF Leave, Goto, creation
  <2> QED BY <1>0, <2>1 DEF Rosters, HasCopy, Raises, Raising,
     CreateSteps, ScaleSteps, Good
<1>4. CASE Crash(p)
  <2>1. scale'[p] = None /\ at'[p] = "idle" /\ copy'[p] = None /\ config' = config
    BY <1>0, <1>4 DEF Crash, Goto
  <2> QED BY <1>0, <2>1 DEF Rosters, HasCopy, Raises, Raising,
     CreateSteps, ScaleSteps, Good
<1> QED BY <1>1, <1>2, <1>3, <1>4

LEMMA NextRInv == TInv /\ RInv /\ [Next]_vars => RInv'
<1> SUFFICES ASSUME TInv, RInv, [Next]_vars PROVE RInv'
  OBVIOUS
<1>1. ASSUME NEW p \in Actor, Step(p) PROVE RInv'
  <2>1. Good(config)' /\ Rosters(p)'
    BY <1>1, CreateRosters, UpRosters, DownRosters, LockRosters DEF Step
  <2> QED BY <1>1, <2>1, StepsApart, OthersRosters DEF RInv
<1>2. CASE RecoverLock
  BY <1>2 DEF RecoverLock, creation, RInv, Rosters, HasCopy, Raises, Good
<1>3. CASE UNCHANGED vars
  BY <1>3 DEF vars, creation, RInv, Rosters, HasCopy, Raises, Good
<1> QED BY <1>1, <1>2, <1>3, NextCases

\* No write, however old its copy, makes the roster larger than the limit or empty, or
\* restores two workers of one name, or a counter that names a worker of it again.
THEOREM RostersAreSound == Spec => []RosterIsSound
<1>1. RInv => RosterIsSound
  <2> SUFFICES ASSUME RInv PROVE RosterIsSound
    OBVIOUS
  <2>1. IsFiniteSet(config.workers) /\ config.workers # {}
    BY DEF RInv, Good
  <2>2. Cardinality(config.workers) \in Nat /\ Cardinality(config.workers) # 0
    BY <2>1, FS_CardinalityType, FS_EmptySet
  <2>3. Cardinality(config.workers) \in 1 .. DefaultMax
    BY <2>2, LimitAssumption DEF RInv, Good
  <2> QED BY <2>3 DEF RInv, Good, RosterIsSound
<1> QED BY <1>1, InitTInv, NextTInv, InitRInv, NextRInv, PTL DEF Spec

-----------------------------------------------------------------------------
(* The roster and the panes.                                                *)

\* What the scaler knows of the workers that run, at each of its steps.
Sees(p) ==
  /\ at[p] \in {"plan", "leave"} => live \subseteq config.workers
  /\ at[p] \in Raising \cup {"rollback", "close"} =>
       /\ Roster(scale[p].copy) = Roster(config)
       /\ live \subseteq config.workers \cup scale[p].hand
  /\ at[p] = "remove" => live \subseteq scale[p].copy.workers
  /\ at[p] = "saveDown" => live \subseteq scale[p].copy.workers \ scale[p].hand

Listed ==
  /\ scaleLock # "orphan"
  /\ scaleLock = None => live \subseteq config.workers
  /\ \A p \in Actor : Scales(p) => Sees(p)

LInv == mishaps = {} => Listed

LEMMA InitLInv == Init => LInv
BY ActorAssumption DEF Init, LInv, Listed, Scales

LEMMA MishapsStay ==
  ASSUME NEW p \in Actor, Step(p), mishaps' = {}
  PROVE  mishaps = {}
<1>1. CASE Create(p)
  BY <1>1 DEF Create, CallCreate, Enter, LockTasks, TasksTimeOut, ReadConfig, Pick,
     WriteTask, SaveConfig, UnlockTasks
<1>2. CASE Up(p)
  BY <1>2 DEF Up, CallUp, Enter, PlanUp, Adopt, AskTask, OpenPane, NoPane, Join,
     NotGreeted, Throw, RollBack, RemoveTask, SaveRollBack
<1>3. CASE Down(p)
  BY <1>3 DEF Down, CallDown, Enter, PlanDown, ClosePanes, SaveDown
<1>4. CASE LockScale(p) \/ ScaleTimesOut(p) \/ Leave(p) \/ Crash(p)
  BY <1>4 DEF LockScale, ScaleTimesOut, Leave, Crash
<1> QED BY <1>1, <1>2, <1>3, <1>4 DEF Step

\* Who is outside the scaling lock, or creates a task inside, leaves panes and roster.
LEMMA CreateIsQuiet ==
  ASSUME TInv, NEW p \in Actor, Create(p), mishaps' = {}
  PROVE  /\ live' = live /\ Roster(config') = Roster(config) /\ scaleLock' = scaleLock
         /\ at'[p] \in CreateSteps \cup {"idle", "up", "leave"}
<1>1. at \in [Actor -> {"idle"} \cup CreateSteps \cup ScaleSteps]
  BY DEF TInv, TypeOK
<1>2. CASE SaveConfig(p)
  <2>1. Roster(copy[p]) = Roster(config) /\ live' = live /\ scaleLock' = scaleLock
    BY <1>2 DEF SaveConfig
  <2>2. Roster(config') = Roster(copy[p])
    BY <1>2, SaveConfigGives DEF Roster
  <2>3. at'[p] = "unlockTasks"
    BY <1>1, <1>2 DEF SaveConfig, Goto
  <2> QED BY <2>1, <2>2, <2>3 DEF CreateSteps
<1>3. CASE ~SaveConfig(p)
  BY <1>1, <1>3 DEF Create, CallCreate, Enter, LockTasks, TasksTimeOut, ReadConfig, Pick,
     WriteTask, UnlockTasks, Goto, CreateSteps
<1> QED BY <1>2, <1>3

\* The others see what they saw.
LEMMA OthersSee ==
  ASSUME Listed, NEW p \in Actor, Apart(p), live' = live, Roster(config') = Roster(config)
  PROVE  \A q \in Actor \ {p} : Scales(q)' => Sees(q)'
<1> SUFFICES ASSUME NEW q \in Actor, q # p, Scales(q)' PROVE Sees(q)'
  OBVIOUS
<1>1. at'[q] = at[q] /\ scale'[q] = scale[q] /\ Scales(q)
  BY DEF Apart, Scales
<1>2. config'.workers = config.workers
  BY DEF Roster
<1> QED BY <1>1, <1>2 DEF Listed, Sees

LEMMA NobodyElse ==
  ASSUME TInv, NEW p \in Actor, Apart(p), scaleLock = p \/ scaleLock = None
  PROVE  \A q \in Actor \ {p} : ~Scales(q)'
<1> SUFFICES ASSUME NEW q \in Actor, q # p PROVE ~Scales(q)'
  OBVIOUS
<1>1. ~Scales(q)
  BY ActorAssumption DEF TInv, Fits1
<1> QED BY <1>1 DEF Apart, Scales

LEMMA CreateListed ==
  ASSUME TInv, RInv, Listed, NEW p \in Actor, Create(p), mishaps' = {}
  PROVE  Listed'
<1>1. /\ live' = live /\ Roster(config') = Roster(config) /\ scaleLock' = scaleLock
      /\ at'[p] \in CreateSteps \cup {"idle", "up", "leave"} /\ config'.workers = config.workers
  BY CreateIsQuiet DEF Roster
<1>2. ASSUME NEW q \in Actor \ {p}, Scales(q)' PROVE Sees(q)'
  BY <1>1, <1>2, StepsApart, OthersSee DEF Step
<1>3. ASSUME Scales(p)' PROVE Sees(p)'
  <2>1. /\ Fits1(p)' /\ Fits1(p)
    BY CreateFits DEF TInv
  <2>2. Scales(p) /\ at'[p] # "idle"
    BY <1>1, <1>3, <2>1 DEF Fits1, Scales
  <2>3. at[p] \in CreateSteps
    BY <2>1, <2>2 DEF Create, CallCreate, Enter, LockTasks, TasksTimeOut, ReadConfig, Pick,
       WriteTask, SaveConfig, UnlockTasks, CreateSteps, Scales, Fits1
  <2>4. scale'[p].copy = scale[p].copy /\ scale'[p].hand = scale[p].hand
    <3>1. CASE UnlockTasks(p)
      BY <2>2, <3>1, UnlockTasksGives DEF Scales
    <3>2. CASE ~UnlockTasks(p)
      BY <3>2 DEF Create, CallCreate, Enter, LockTasks, TasksTimeOut, ReadConfig, Pick,
         WriteTask, SaveConfig
    <3> QED BY <3>1, <3>2
  <2>5. Sees(p) /\ Raises(p)
    BY <2>2, <2>3 DEF Listed, Raises, Raising, Scales
  <2>6. scale[p].hand = {}
    BY <2>3, <2>5 DEF RInv, Rosters, CreateSteps
  <2>7. /\ Roster(scale'[p].copy) = Roster(config') /\ live' \subseteq config'.workers
    BY <1>1, <2>3, <2>4, <2>5, <2>6 DEF Sees, Raising
  <2>8. at'[p] \notin {"plan", "remove", "saveDown", "close", "rollback"}
    BY <1>1 DEF CreateSteps
  <2> QED BY <1>1, <2>7, <2>8 DEF Sees
<1> QED BY <1>1, <1>2, <1>3 DEF Listed

LEMMA UpListed ==
  ASSUME TInv, RInv, Listed, NEW p \in Actor, Up(p), mishaps' = {}
  PROVE  Listed'
<1>0. /\ at \in [Actor -> {"idle"} \cup CreateSteps \cup ScaleSteps] /\ Apart(p)
      /\ p # None /\ p # "orphan" /\ Fits1(p) /\ Rosters(p)
  BY StepsApart, ActorAssumption DEF TInv, TypeOK, Step, RInv
<1>1. CASE CallUp(p)
  <2>1. live' = live /\ config' = config /\ scaleLock' = scaleLock /\ at'[p] = "lockScale"
    BY <1>0, <1>1 DEF CallUp, Enter, Goto
  <2>2. ~Scales(p)'
    BY <2>1 DEF Scales
  <2> QED BY <1>0, <2>1, <2>2, OthersSee DEF Listed
<1>2. CASE ~CallUp(p)
  <2>1. /\ at[p] \in {"plan", "adopt", "up", "greet", "rollback", "remove"}
        /\ scaleLock' = scaleLock
    BY <1>2 DEF Up, PlanUp, Adopt, AskTask, OpenPane, NoPane, AboutToOpen, Join,
       NotGreeted, Throw, RollBack, RemoveTask, SaveRollBack
  <2>2. Scales(p) /\ scaleLock = p /\ Sees(p)
    BY <1>0, <2>1 DEF Fits1, Scales, ScaleSteps, Listed
  <2>3. \A q \in Actor \ {p} : ~Scales(q)'
    BY <1>0, <2>2, NobodyElse
  <2> SUFFICES Sees(p)'
    BY <1>0, <2>1, <2>2, <2>3 DEF Listed
  <2>4. CASE PlanUp(p)
    <3>1. live' = live /\ config' = config /\ at'[p] \in {"adopt", "up", "leave"}
      BY <1>0, <2>4 DEF PlanUp, Goto, ScaleSteps
    <3>2. scale'[p].copy = config
      BY <2>4, PlanUpGives
    <3>3. live \subseteq config.workers
      BY <2>2, <2>4 DEF Sees, PlanUp
    <3> QED BY <3>1, <3>2, <3>3 DEF Sees
  <2>5. CASE Adopt(p)
    <3>1. /\ at[p] = "adopt" /\ live' = live /\ config' = scale[p].copy /\ scale' = scale
          /\ at'[p] = "up"
      BY <1>0, <2>5 DEF Adopt, Goto
    <3>2. Roster(scale[p].copy) = Roster(config) /\ live \subseteq config.workers \cup scale[p].hand
      BY <2>2, <3>1 DEF Sees, Raising
    <3>3. config'.workers = config.workers
      BY <3>1, <3>2 DEF Roster
    <3> QED BY <3>1, <3>2, <3>3 DEF Sees
  <2>6. CASE AskTask(p)
    <3>1. at[p] = "up" /\ live' = live /\ config' = config /\ at'[p] = "lockTasks"
      BY <1>0, <2>6 DEF AskTask, Goto
    <3>2. scale'[p].copy = scale[p].copy /\ scale'[p].hand = scale[p].hand
      BY <2>6, AskTaskGives
    <3> QED BY <2>2, <3>1, <3>2 DEF Sees, Raising
  <2>7. CASE OpenPane(p)
    <3>1. at[p] = "up" /\ config' = config /\ at'[p] = "greet"
      BY <1>0, <2>7 DEF OpenPane, AboutToOpen, Goto
    <3>2. /\ scale'[p].copy = scale[p].copy
          /\ live' = live \cup scale'[p].hand
      BY <2>7, OpenPaneGives DEF OpenPane
    <3>3. scale[p].hand = {}
      BY <1>0, <2>2, <3>1 DEF Rosters, Raises, Raising, Scales
    <3> QED BY <2>2, <3>1, <3>2, <3>3 DEF Sees, Raising
  <2>8. CASE NoPane(p) \/ NotGreeted(p)
    <3>1. /\ at[p] \in {"up", "greet"} /\ live' = live /\ config' = config
          /\ at'[p] = "rollback" /\ scale' = scale
      BY <1>0, <2>8 DEF NoPane, NotGreeted, AboutToOpen, Goto
    <3> QED BY <2>2, <3>1 DEF Sees, Raising
  <2>9. CASE Join(p)
    <3>1. at[p] = "greet" /\ live' = live /\ at'[p] \in {"leave", "up"}
      BY <1>0, <2>9 DEF Join, Goto, ScaleSteps
    <3>2. /\ scale'[p].copy = config' /\ scale'[p].hand = {}
          /\ config'.workers = scale[p].copy.workers \cup scale[p].hand
      BY <2>9, JoinGives
    <3>3. scale[p].copy.workers = config.workers /\ live \subseteq config.workers \cup scale[p].hand
      BY <2>2, <3>1 DEF Sees, Raising, Roster
    <3> QED BY <3>1, <3>2, <3>3 DEF Sees
  <2>10. CASE Throw(p)
    <3>1. at[p] # "greet"
      BY <2>10 DEF Throw
    <3>2. /\ at[p] = "up" /\ live' = live /\ config' = config /\ at'[p] = "leave"
          /\ scale' = scale
      BY <1>0, <2>10, <3>1 DEF Throw, AboutToOpen, Goto
    <3>3. scale[p].hand = {}
      BY <1>0, <2>2, <3>2 DEF Rosters, Raises, Raising, Scales
    <3> QED BY <2>2, <3>2, <3>3 DEF Sees, Raising
  <2>11. CASE RollBack(p)
    <3>1. /\ at[p] = "rollback" /\ live' = live \ (scale[p].added \cup scale[p].hand)
          /\ at'[p] = "remove"
      BY <1>0, <2>11 DEF RollBack, Goto
    <3>2. scale'[p].copy.workers = scale[p].copy.workers \ scale[p].added
      BY <2>11, RollBackGives
    <3>3. scale[p].copy.workers = config.workers /\ live \subseteq config.workers \cup scale[p].hand
      BY <2>2, <3>1 DEF Sees, Roster
    <3>4. live' \subseteq scale'[p].copy.workers
      BY <3>1, <3>2, <3>3
    <3> QED BY <3>1, <3>4 DEF Sees, Raising, CreateSteps
  <2>12. CASE RemoveTask(p)
    <3>1. at[p] = "remove" /\ live' = live /\ at' = at /\ scale'[p].copy = scale[p].copy
      BY <2>12, RemoveTaskGives DEF RemoveTask
    <3> QED BY <2>2, <3>1 DEF Sees, Raising, CreateSteps
  <2>13. CASE SaveRollBack(p)
    <3>1. /\ at[p] = "remove" /\ live' = live /\ at'[p] = "leave" /\ config' = scale[p].copy
      BY <1>0, <2>13 DEF SaveRollBack, Goto
    <3> QED BY <2>2, <3>1 DEF Sees, Raising, CreateSteps
  <2> QED BY <1>2, <2>4, <2>5, <2>6, <2>7, <2>8, <2>9, <2>10, <2>11, <2>12, <2>13 DEF Up
<1> QED BY <1>1, <1>2

LEMMA DownListed ==
  ASSUME TInv, RInv, Listed, NEW p \in Actor, Down(p), mishaps' = {}
  PROVE  Listed'
<1>0. /\ at \in [Actor -> {"idle"} \cup CreateSteps \cup ScaleSteps] /\ Apart(p)
      /\ p # None /\ p # "orphan" /\ Fits1(p) /\ Rosters(p)
  BY StepsApart, ActorAssumption DEF TInv, TypeOK, Step, RInv
<1>1. CASE CallDown(p)
  <2>1. live' = live /\ config' = config /\ scaleLock' = scaleLock /\ at'[p] = "lockScale"
    BY <1>0, <1>1 DEF CallDown, Enter, Goto
  <2>2. ~Scales(p)'
    BY <2>1 DEF Scales
  <2> QED BY <1>0, <2>1, <2>2, OthersSee DEF Listed
<1>2. CASE ~CallDown(p)
  <2>1. at[p] \in {"plan", "close", "saveDown"} /\ scaleLock' = scaleLock
    BY <1>2 DEF Down, PlanDown, ClosePanes, SaveDown
  <2>2. Scales(p) /\ scaleLock = p /\ Sees(p)
    BY <1>0, <2>1 DEF Fits1, Scales, ScaleSteps, Listed
  <2>3. \A q \in Actor \ {p} : ~Scales(q)'
    BY <1>0, <2>2, NobodyElse
  <2> SUFFICES Sees(p)'
    BY <1>0, <2>1, <2>2, <2>3 DEF Listed
  <2>4. CASE PlanDown(p)
    <3>1. at[p] = "plan" /\ live' = live /\ config' = config /\ at'[p] \in {"close", "leave"}
      BY <1>0, <2>4 DEF PlanDown, Goto, ScaleSteps
    <3>2. at'[p] = "close" => scale'[p].copy = config
      BY <2>4, PlanDownGives
    <3>3. live \subseteq config.workers
      BY <2>2, <3>1 DEF Sees
    <3> QED BY <3>1, <3>2, <3>3 DEF Sees, Raising, CreateSteps
  <2>5. CASE ClosePanes(p)
    <3>1. /\ at[p] = "close" /\ live' = live \ scale[p].hand /\ config' = config
          /\ scale' = scale /\ at'[p] \in {"saveDown", "leave"}
      BY <1>0, <2>5 DEF ClosePanes, Goto, ScaleSteps
    <3>2. scale[p].copy.workers = config.workers /\ live \subseteq config.workers \cup scale[p].hand
      BY <2>2, <3>1 DEF Sees, Roster
    <3> QED BY <3>1, <3>2 DEF Sees, Raising, CreateSteps
  <2>6. CASE SaveDown(p)
    <3>1. at[p] = "saveDown" /\ live' = live /\ at'[p] = "leave"
      BY <1>0, <2>6 DEF SaveDown, Goto
    <3>2. config'.workers = scale[p].copy.workers \ scale[p].hand
      BY <2>6, SaveDownGives
    <3> QED BY <2>2, <3>1, <3>2 DEF Sees, Raising, CreateSteps
  <2> QED BY <1>2, <2>4, <2>5, <2>6 DEF Down
<1> QED BY <1>1, <1>2

LEMMA LockListed ==
  ASSUME TInv, RInv, Listed, NEW p \in Actor, mishaps' = {},
         LockScale(p) \/ ScaleTimesOut(p) \/ Leave(p) \/ Crash(p)
  PROVE  Listed'
<1>0. /\ at \in [Actor -> {"idle"} \cup CreateSteps \cup ScaleSteps] /\ Apart(p)
      /\ scale \in [Actor -> Scaling \cup {None}]
      /\ p # None /\ p # "orphan" /\ Fits1(p)
  BY StepsApart, ActorAssumption DEF TInv, TypeOK, Step
<1>1. CASE LockScale(p)
  <2>1. /\ scaleLock = None /\ scaleLock' = p /\ live' = live /\ config' = config
        /\ at'[p] = "plan"
    BY <1>0, <1>1 DEF LockScale, Goto
  <2>2. Sees(p)'
    BY <2>1 DEF Listed, Sees, Raising, CreateSteps
  <2> QED BY <1>0, <2>1, <2>2, NobodyElse DEF Listed
<1>2. CASE Leave(p)
  <2>1. /\ at[p] = "leave" /\ scaleLock' = None /\ live' = live /\ config' = config
        /\ scale'[p] = None
    BY <1>0, <1>2 DEF Leave
  <2>2. Scales(p) /\ scaleLock = p
    BY <1>0, <2>1 DEF Fits1, Scales, ScaleSteps
  <2>3. ~Scales(p)' /\ live \subseteq config.workers
    BY <2>1, <2>2 DEF Listed, Sees, Scales
  <2> QED BY <1>0, <2>1, <2>2, <2>3, NobodyElse, ActorAssumption DEF Listed
<1>3. CASE ScaleTimesOut(p) \/ Crash(p)
  <2>1. /\ live' = live /\ config' = config /\ scale'[p] = None
        /\ scaleLock' = scaleLock
    <3>1. CASE ScaleTimesOut(p)
      BY <1>0, <3>1 DEF ScaleTimesOut
    <3>2. CASE Crash(p)
      <4>1. scaleLock # p
        BY <3>2 DEF Crash
      <4> QED BY <1>0, <3>2, <4>1 DEF Crash
    <3> QED BY <1>3, <3>1, <3>2
  <2>2. ~Scales(p)'
    BY <2>1 DEF Scales
  <2> QED BY <1>0, <2>1, <2>2, OthersSee DEF Listed
<1> QED BY <1>1, <1>2, <1>3

LEMMA NextLInv == TInv /\ RInv /\ LInv /\ [Next]_vars => LInv'
<1> SUFFICES ASSUME TInv, RInv, LInv, [Next]_vars, mishaps' = {} PROVE Listed'
  BY DEF LInv
<1>1. ASSUME NEW p \in Actor, Step(p) PROVE Listed'
  <2>1. Listed
    BY <1>1, MishapsStay DEF LInv
  <2> QED BY <1>1, <2>1, CreateListed, UpListed, DownListed, LockListed DEF Step
<1>2. CASE RecoverLock
  <2>1. Listed
    BY <1>2 DEF RecoverLock, LInv
  <2>2. scaleLock' = scaleLock
    BY <1>2, <2>1 DEF RecoverLock, Listed
  <2> QED BY <1>2, <2>1, <2>2 DEF RecoverLock, Listed, Scales, Sees
<1>3. CASE UNCHANGED vars
  BY <1>3 DEF vars, LInv, Listed, Scales, Sees
<1> QED BY <1>1, <1>2, <1>3, NextCases

\* Until a mishap, whoever runs is in the roster when no scaling is under way.
THEOREM WorkersAreListed == Spec => []EveryWorkerIsListed
<1>1. LInv => EveryWorkerIsListed
  BY DEF LInv, Listed, EveryWorkerIsListed
<1> QED BY <1>1, InitTInv, NextTInv, InitRInv, NextRInv, InitLInv, NextLInv, PTL DEF Spec

\* Until a mishap, running workers differ in their names, at every step of a scaling.
THEOREM NamesDiffer == Spec => []NamesAreUnique
<1>1. TInv /\ RInv /\ LInv => NamesAreUnique
  <2> SUFFICES ASSUME TInv, RInv, Listed, NEW v \in live, NEW w \in live, v.index = w.index
               PROVE  v = w
    BY DEF LInv, NamesAreUnique
  <2>1. \A c : Good(c) /\ live \subseteq c.workers => v = w
    BY DEF Good
  <2>2. CASE scaleLock = None
    BY <2>1, <2>2 DEF Listed, RInv
  <2>3. CASE scaleLock # None
    <3>1. PICK p \in Actor : scaleLock = p
      BY <2>3 DEF TInv, TypeOK, Listed
    <3>2. Scales(p) /\ Sees(p) /\ Rosters(p)
      BY <3>1 DEF TInv, Fits1, Listed, RInv
    <3>3. at[p] \in CreateSteps \cup (ScaleSteps \ {"lockScale"})
      BY <3>2 DEF TInv, TypeOK, Fits1, Scales
    <3>4. CASE at[p] \in {"plan", "leave"}
      BY <2>1, <3>2, <3>4 DEF Sees, RInv
    <3>5. CASE at[p] \in {"remove", "saveDown"}
      <4>1. HasCopy(p) /\ live \subseteq scale[p].copy.workers
        BY <3>2, <3>5 DEF HasCopy, Scales, Sees
      <4> QED BY <2>1, <3>2, <4>1 DEF Rosters
    <3>6. CASE at[p] \in Raising \cup {"rollback", "close"}
      <4>1. HasCopy(p) /\ Good(scale[p].copy)
        BY <3>2, <3>6 DEF HasCopy, Scales, Rosters
      <4>2. live \subseteq scale[p].copy.workers \cup scale[p].hand
        BY <3>2, <3>6 DEF Sees, Roster
      <4>3. \/ scale[p].hand \subseteq scale[p].copy.workers
            \/ \E n : scale[p].hand = {n} /\ n.index = scale[p].copy.nextIndex
        <5>1. CASE at[p] \in {"greet", "rollback", "close"}
          BY <3>2, <5>1 DEF Rosters
        <5>2. CASE at[p] \notin {"greet", "rollback", "close"}
          BY <3>2, <3>6, <5>2 DEF Rosters, Raises, Scales
        <5> QED BY <5>1, <5>2
      <4>4. CASE scale[p].hand \subseteq scale[p].copy.workers
        BY <2>1, <4>1, <4>2, <4>4
      <4>5. CASE \E n : scale[p].hand = {n} /\ n.index = scale[p].copy.nextIndex
        <5>1. PICK n : scale[p].hand = {n} /\ n.index = scale[p].copy.nextIndex
          BY <4>5
        <5>2. \A u \in scale[p].copy.workers : u.index < n.index
          BY <4>1, <5>1 DEF Good
        <5>3. v.index \in Nat /\ w.index \in Nat
          BY DEF TInv, TypeOK, Worker, Positive
        <5> QED BY <4>1, <4>2, <5>1, <5>2, <5>3 DEF Good
      <4> QED BY <4>3, <4>4, <4>5
    <3> QED BY <3>3, <3>4, <3>5, <3>6 DEF Raising, ScaleSteps
  <2> QED BY <2>2, <2>3
<1> QED BY <1>1, InitTInv, NextTInv, InitRInv, NextRInv, InitLInv, NextLInv, PTL DEF Spec

=============================================================================
