------------------------- MODULE RuntimeExecProofs -------------------------
(***************************************************************************)
(* Theorems about RuntimeExec, for any processes, commands, initial logs   *)
(* and bounds:                                                             *)
(*                                                                         *)
(*   IInv  persist is exclusive, the event log is readable except under    *)
(*         its writer's hands, and the overlapping executables implement   *)
(*         the atomic log of CommandLog until a mishap                     *)
(*   SInv  every call computes what its log stands for, so that no log     *)
(*         ever holds an event that its replay skips                       *)
(*   KInv  what a call has written is kept by all that write after it      *)
(*   VInv  mailbox.json and dispatch.json follow the log                   *)
(*                                                                         *)
(* What the replay of a log is, and what compacting changes of it, comes   *)
(* first; from then on Replay and Compacted are only cited.                *)
(***************************************************************************)
EXTENDS RuntimeExec, SequenceTheorems, FiniteSetTheorems, WellFoundedInduction, TLAPS

-----------------------------------------------------------------------------
(***************************************************************************)
(* What the operators of RuntimeEngine do, for logs of any length: what    *)
(* replaying one more event adds, what compacting a log removes, and that  *)
(* a compacted log replays to the same state, finished requests aside.     *)
(*                                                                         *)
(* Replay and Without are recursive functions over the events of a log.    *)
(* Induction over them is induction on a set of naturals, which follows    *)
(* from the well-foundedness of < on Nat (Induction, OnSequences).         *)
(***************************************************************************)
LEMMA LeastElement ==
  ASSUME NEW T \in SUBSET Nat, T # {}
  PROVE  \E n \in T : \A m \in T : n <= m
<1>1. IsWellFoundedOn(OpToRel(<, Nat), Nat)
  BY NatLessThanWellFounded
<1>2. PICK n \in T : \A m \in T : <<m, n>> \notin OpToRel(<, Nat)
  BY <1>1, WFMin
<1>3. \A m \in T : ~(m < n)
  BY <1>2 DEF OpToRel
<1> QED BY <1>3

\* Induction, with a set of naturals for the property.
LEMMA Induction ==
  ASSUME NEW T \in SUBSET Nat, 0 \in T, \A n \in T : n + 1 \in T
  PROVE  T = Nat
<1> SUFFICES ASSUME T # Nat PROVE FALSE
  OBVIOUS
<1>1. PICK n \in Nat \ T : \A m \in Nat \ T : n <= m
  BY LeastElement
<1>2. n # 0 /\ n - 1 \in T
  BY <1>1
<1> QED BY <1>1, <1>2

\* The same for sequences that grow at their end.
LEMMA OnSequences ==
  ASSUME NEW S, NEW T \in SUBSET Seq(S), <<>> \in T,
         \A s \in T, e \in S : Append(s, e) \in T
  PROVE  T = Seq(S)
<1> DEFINE N == {n \in Nat : \A s \in Seq(S) : Len(s) = n => s \in T}
<1>1. 0 \in N
  BY EmptySeq
<1>2. ASSUME NEW n \in N PROVE n + 1 \in N
  <2> SUFFICES ASSUME NEW s \in Seq(S), Len(s) = n + 1 PROVE s \in T
    BY <1>2
  <2>1. s # <<>>
    BY <1>2, EmptySeq
  <2>2. PICK t \in Seq(S), e \in S : s = Append(t, e)
    BY <2>1, SequenceEmptyOrAppend
  <2>3. Len(t) = n
    BY <1>2, <2>2, AppendProperties, LenProperties
  <2>4. t \in T
    BY <1>2, <2>3
  <2> QED BY <2>2, <2>4
<1>3. N = Nat
  <2> HIDE DEF N
  <2>1. N \in SUBSET Nat
    BY DEF N
  <2> QED BY <1>1, <1>2, <2>1, Induction
<1>4. \A s \in Seq(S) : Len(s) \in N
  BY <1>3, LenProperties
<1> QED BY <1>4

\* A recursion over the first naturals has a solution.
Steps(N, S) == [1 .. N -> [S -> S]]
Solves(f, N, S, b, step) ==
  /\ f \in [0 .. N -> S]
  /\ f[0] = b /\ \A n \in 1 .. N : f[n] = step[n][f[n - 1]]

LEMMA Recursion ==
  ASSUME NEW N \in Nat, NEW S, NEW b \in S, NEW step \in Steps(N, S)
  PROVE  \E f : Solves(f, N, S, b, step)
<1> DEFINE T == {k \in Nat : k <= N => \E f : Solves(f, k, S, b, step)}
<1>1. 0 \in T
  <2>1. Solves([n \in 0 .. 0 |-> b], 0, S, b, step)
    BY DEF Solves
  <2> QED BY <2>1
<1>2. ASSUME NEW k \in T PROVE k + 1 \in T
  <2> SUFFICES ASSUME k + 1 <= N PROVE \E f : Solves(f, k + 1, S, b, step)
    BY <1>2
  <2>1. PICK f : Solves(f, k, S, b, step)
    BY <1>2
  <2> DEFINE g == [n \in 0 .. k + 1 |-> IF n = k + 1 THEN step[k + 1][f[k]] ELSE f[n]]
  <2>2. step[k + 1] \in [S -> S] /\ f[k] \in S
    BY <1>2, <2>1 DEF Steps, Solves
  <2>3. g \in [0 .. k + 1 -> S]
    BY <2>1, <2>2 DEF Solves
  <2>4. ASSUME NEW n \in 1 .. k + 1 PROVE g[n] = step[n][g[n - 1]]
    BY <1>2, <2>1 DEF Solves
  <2>5. Solves(g, k + 1, S, b, step)
    BY <1>2, <2>1, <2>3, <2>4 DEF Solves
  <2> QED BY <2>5
<1>3. T = Nat
  <2> HIDE DEF T
  <2>1. T \in SUBSET Nat
    BY DEF T
  <2> QED BY <1>1, <1>2, <2>1, Induction
<1> QED BY <1>3

-----------------------------------------------------------------------------
(* Typing.                                                                  *)

LEMMA NewEngineType == NewEngine \in EngineState
BY DEF NewEngine, EngineState

LEMMA ApplyType ==
  ASSUME NEW s \in EngineState, NEW c \in Command
  PROVE  Apply(s, c) \in EngineState
BY DEF Apply, EngineState, Command, Pushed, DispatchOps, MailOps, DispatchStatus, Unfinished,
   Finished, MailStatus

LEMMA ReplayEventType ==
  ASSUME NEW s \in EngineState, NEW c \in Command
  PROVE  ReplayEvent(s, c) \in EngineState
BY ApplyType DEF ReplayEvent

-----------------------------------------------------------------------------
(* Replaying.                                                               *)

\* The states that a replay passes through.
Passes(log, f) ==
  /\ f \in [0 .. Len(log) -> EngineState]
  /\ f[0] = NewEngine
  /\ \A n \in 1 .. Len(log) : f[n] = ReplayEvent(f[n - 1], log[n])

LEMMA ReplayPasses ==
  ASSUME NEW log \in Seq(Command)
  PROVE  \E f : Passes(log, f) /\ Replay(log) = f[Len(log)]
<1> DEFINE N == Len(log)
           F(g) == [n \in 0 .. N |->
                      IF n = 0 THEN NewEngine ELSE ReplayEvent(g[n - 1], log[n])]
           step == [n \in 1 .. N |-> [s \in EngineState |-> ReplayEvent(s, log[n])]]
<1>1. N \in Nat /\ \A n \in 1 .. N : log[n] \in Command
  BY LenProperties, ElementOfSeq
<1>2. step \in Steps(N, EngineState)
  BY <1>1, ReplayEventType DEF Steps
<1>3. PICK f : Solves(f, N, EngineState, NewEngine, step)
  <2> HIDE DEF N, step
  <2>1. N \in Nat
    BY <1>1
  <2> QED BY <1>2, <2>1, NewEngineType, Recursion
<1>4. ASSUME NEW n \in 1 .. N PROVE f[n] = ReplayEvent(f[n - 1], log[n])
  <2>1. n - 1 \in 0 .. N
    BY <1>1
  <2>2. f[n - 1] \in EngineState
    BY <1>3, <2>1 DEF Solves
  <2>3. step[n][f[n - 1]] = ReplayEvent(f[n - 1], log[n])
    BY <2>2
  <2> QED BY <1>3, <2>3 DEF Solves
<1>5. f = F(f)
  BY <1>1, <1>3, <1>4 DEF Solves
<1> DEFINE g == CHOOSE h : h = F(h)
<1>6. g = F(g)
  BY <1>5
<1>7. Replay(log) = g[N]
  BY DEF Replay
<1> HIDE DEF g
<1>8. g[0] = NewEngine /\ \A n \in 1 .. N : g[n] = ReplayEvent(g[n - 1], log[n])
  BY <1>1, <1>6
<1> DEFINE T == {n \in Nat : n <= N => g[n] \in EngineState}
<1>9. 0 \in T /\ \A n \in T : n + 1 \in T
  <2>1. 0 \in T
    BY <1>8, NewEngineType
  <2>2. ASSUME NEW n \in T PROVE n + 1 \in T
    BY <1>1, <1>8, ReplayEventType
  <2> QED BY <2>1, <2>2
<1>10. T = Nat
  <2> HIDE DEF T
  <2>1. T \in SUBSET Nat
    BY DEF T
  <2> QED BY <1>9, <2>1, Induction
<1>11. g \in [0 .. N -> EngineState]
  <2>1. \A n \in 0 .. N : g[n] \in EngineState
    BY <1>1, <1>10
  <2>2. g = [n \in 0 .. N |-> g[n]]
    BY <1>6
  <2> QED BY <2>1, <2>2
<1> QED BY <1>7, <1>8, <1>11 DEF Passes

LEMMA ReplayEmpty == Replay(<<>>) = NewEngine
<1>1. <<>> \in Seq(Command) /\ Len(<<>>) = 0
  BY EmptySeq
<1> QED BY <1>1, ReplayPasses DEF Passes

\* One more event is one more step of the replay.
LEMMA ReplayAppend ==
  ASSUME NEW log \in Seq(Command), NEW e \in Command
  PROVE  Replay(Append(log, e)) = ReplayEvent(Replay(log), e)
<1> DEFINE N == Len(log)
           more == Append(log, e)
<1>1. /\ N \in Nat /\ more \in Seq(Command) /\ Len(more) = N + 1
      /\ more[N + 1] = e /\ \A n \in 1 .. N : more[n] = log[n]
  BY AppendProperties, LenProperties
<1>2. PICK f : Passes(log, f) /\ Replay(log) = f[N]
  BY ReplayPasses
<1>3. PICK g : Passes(more, g) /\ Replay(more) = g[N + 1]
  BY <1>1, ReplayPasses
<1> DEFINE T == {n \in Nat : n <= N => f[n] = g[n]}
<1>4. 0 \in T
  BY <1>2, <1>3 DEF Passes
<1>5. ASSUME NEW n \in T PROVE n + 1 \in T
  <2> SUFFICES ASSUME n + 1 <= N PROVE f[n + 1] = g[n + 1]
    BY <1>5
  <2>1. n + 1 \in 1 .. N /\ n + 1 \in 1 .. N + 1 /\ f[n] = g[n] /\ (n + 1) - 1 = n
    BY <1>1, <1>5
  <2> HIDE DEF N, more, T
  <2>2. f[n + 1] = ReplayEvent(f[n], log[n + 1])
    BY <1>2, <2>1 DEF Passes, N
  <2>3. g[n + 1] = ReplayEvent(g[n], more[n + 1])
    BY <1>1, <1>3, <2>1 DEF Passes
  <2> QED BY <1>1, <2>1, <2>2, <2>3
<1>6. T = Nat
  <2> HIDE DEF T
  <2>1. T \in SUBSET Nat
    BY DEF T
  <2> QED BY <1>4, <1>5, <2>1, Induction
<1>7. f[N] = g[N]
  BY <1>1, <1>6
<1>8. g[N + 1] = ReplayEvent(g[N], e)
  <2> HIDE DEF N, more
  <2>1. N + 1 \in 1 .. N + 1 /\ (N + 1) - 1 = N
    BY <1>1
  <2> QED BY <1>1, <1>3, <2>1 DEF Passes
<1> QED BY <1>2, <1>3, <1>7, <1>8

LEMMA ReplayType ==
  ASSUME NEW log \in Seq(Command)
  PROVE  Replay(log) \in EngineState
<1>1. Len(log) \in 0 .. Len(log)
  BY LenProperties
<1> QED BY <1>1, ReplayPasses DEF Passes

\* Replaying goes on cleanly with an event that is legal at the end of the log.
LEMMA CleanAppend ==
  ASSUME NEW log \in Seq(Command), NEW e \in Command, NEW ops
  PROVE  ReplaysCleanly(Append(log, e), ops) <=>
           ReplaysCleanly(log, ops) /\ (e.op \in ops => Legal(Replay(log), e))
<1> DEFINE N == Len(log)
           more == Append(log, e)
<1>1. /\ N \in Nat /\ more \in Seq(Command) /\ Len(more) = N + 1
      /\ more[N + 1] = e /\ \A n \in 1 .. N : more[n] = log[n]
      /\ DOMAIN more = 1 .. N + 1 /\ DOMAIN log = 1 .. N
  BY AppendProperties, LenProperties
<1>2. ASSUME NEW n \in 1 .. N + 1
      PROVE  SubSeq(more, 1, n - 1) = SubSeq(log, 1, n - 1)
  <2>1. /\ \A i \in 1 .. n - 1 : more[i] = log[i]
        /\ \A i \in 1 .. n - 1 : more[i] \in Command /\ log[i] \in Command
    BY <1>1, ElementOfSeq
  <2> HIDE DEF N, more
  <2> DEFINE s == SubSeq(more, 1, n - 1)
             t == SubSeq(log, 1, n - 1)
  <2>2. n - 1 \in Int /\ 1 \in Int /\ n - 1 \in Nat
    BY <1>1
  <2>3. s \in Seq(Command) /\ Len(s) = n - 1 /\ \A i \in 1 .. n - 1 : s[i] = more[i]
    BY <2>1, <2>2, SubSeqProperties
  <2>4. t \in Seq(Command) /\ Len(t) = n - 1 /\ \A i \in 1 .. n - 1 : t[i] = log[i]
    BY <2>1, <2>2, SubSeqProperties
  <2>5. \A i \in 1 .. Len(s) : s[i] = t[i]
    BY <2>1, <2>3, <2>4
  <2> HIDE DEF s, t
  <2> QED BY <2>3, <2>4, <2>5, SeqEqual DEF s, t
<1>3. SubSeq(log, 1, N) = log
  BY SubSeqFull
<1> HIDE DEF N, more
<1>4. SubSeq(more, 1, (N + 1) - 1) = log
  BY <1>1, <1>2, <1>3
<1> DEFINE OK(n) == more[n].op \in ops => Legal(Replay(SubSeq(more, 1, n - 1)), more[n])
<1>5. ReplaysCleanly(more, ops) <=> \A n \in 1 .. N + 1 : OK(n)
  BY <1>1 DEF ReplaysCleanly
<1>6. ReplaysCleanly(log, ops) <=> \A n \in 1 .. N : OK(n)
  <2>1. ASSUME NEW n \in 1 .. N
        PROVE  SubSeq(more, 1, n - 1) = SubSeq(log, 1, n - 1) /\ more[n] = log[n]
    <3>1. n \in 1 .. N + 1
      BY <1>1
    <3> QED BY <1>1, <1>2, <3>1
  <2> QED BY <1>1, <2>1, Zenon DEF ReplaysCleanly
<1>7. OK(N + 1) <=> (e.op \in ops => Legal(Replay(log), e))
  BY <1>1, <1>4
<1> HIDE DEF OK
<1>8. (\A n \in 1 .. N + 1 : OK(n)) <=> (\A n \in 1 .. N : OK(n)) /\ OK(N + 1)
  BY <1>1
<1> QED BY <1>5, <1>6, <1>7, <1>8 DEF more

LEMMA CleanEmpty == \A ops : ReplaysCleanly(<<>>, ops)
<1>1. DOMAIN <<>> = {}
  BY EmptySeq, LenProperties
<1> QED BY <1>1 DEF ReplaysCleanly

-----------------------------------------------------------------------------
(* Leaving events out.                                                      *)

\* The logs that Without passes through.
Keeps(log, gone, f) ==
  /\ f \in [0 .. Len(log) -> Seq(Command)]
  /\ f[0] = <<>>
  /\ \A n \in 1 .. Len(log) :
       f[n] = IF log[n] \in gone THEN f[n - 1] ELSE Append(f[n - 1], log[n])

LEMMA WithoutKeeps ==
  ASSUME NEW log \in Seq(Command), NEW gone
  PROVE  \E f : Keeps(log, gone, f) /\ Without(log, gone) = f[Len(log)]
<1> DEFINE N == Len(log)
           After(kept, n) == IF log[n] \in gone THEN kept ELSE Append(kept, log[n])
           F(g) == [n \in 0 .. N |-> IF n = 0 THEN <<>> ELSE After(g[n - 1], n)]
           step == [n \in 1 .. N |-> [kept \in Seq(Command) |-> After(kept, n)]]
<1>1. N \in Nat /\ \A n \in 1 .. N : log[n] \in Command
  BY LenProperties, ElementOfSeq
<1>2. \A n \in 1 .. N, kept \in Seq(Command) : After(kept, n) \in Seq(Command)
  BY <1>1, AppendProperties
<1> HIDE DEF After
<1>3. step \in Steps(N, Seq(Command))
  BY <1>2 DEF Steps
<1>4. PICK f : Solves(f, N, Seq(Command), <<>>, step)
  <2> HIDE DEF N, step
  <2>1. N \in Nat /\ <<>> \in Seq(Command)
    BY <1>1, EmptySeq
  <2> QED BY <1>3, <2>1, Recursion
<1>5. ASSUME NEW n \in 1 .. N PROVE f[n] = After(f[n - 1], n)
  <2>1. n - 1 \in 0 .. N
    BY <1>1
  <2>2. f[n - 1] \in Seq(Command)
    BY <1>4, <2>1 DEF Solves
  <2>3. step[n][f[n - 1]] = After(f[n - 1], n)
    BY <2>2
  <2> QED BY <1>4, <2>3 DEF Solves
<1>6. f = F(f)
  BY <1>1, <1>4, <1>5 DEF Solves
<1> DEFINE g == CHOOSE h : h = F(h)
<1>7. g = F(g)
  BY <1>6
<1>8. Without(log, gone) = g[N]
  BY DEF Without, After
<1> HIDE DEF g
<1>9. g[0] = <<>> /\ \A n \in 1 .. N : g[n] = After(g[n - 1], n)
  BY <1>1, <1>7
<1> DEFINE T == {n \in Nat : n <= N => g[n] \in Seq(Command)}
<1>10. 0 \in T /\ \A n \in T : n + 1 \in T
  <2>1. 0 \in T
    BY <1>9, EmptySeq
  <2>2. ASSUME NEW n \in T PROVE n + 1 \in T
    BY <1>1, <1>2, <1>9
  <2> QED BY <2>1, <2>2
<1>11. T = Nat
  <2> HIDE DEF T
  <2>1. T \in SUBSET Nat
    BY DEF T
  <2> QED BY <1>10, <2>1, Induction
<1>12. g \in [0 .. N -> Seq(Command)]
  <2>1. \A n \in 0 .. N : g[n] \in Seq(Command)
    BY <1>1, <1>11
  <2>2. g = [n \in 0 .. N |-> g[n]]
    BY <1>7
  <2> QED BY <2>1, <2>2
<1> QED BY <1>8, <1>9, <1>12 DEF Keeps, After

LEMMA WithoutEmpty == \A gone : Without(<<>>, gone) = <<>>
<1> SUFFICES ASSUME NEW gone PROVE Without(<<>>, gone) = <<>>
  OBVIOUS
<1>1. <<>> \in Seq(Command) /\ Len(<<>>) = 0
  BY EmptySeq
<1>2. PICK f : Keeps(<<>>, gone, f) /\ Without(<<>>, gone) = f[Len(<<>>)]
  BY <1>1, WithoutKeeps
<1> QED BY <1>1, <1>2 DEF Keeps

LEMMA WithoutType ==
  ASSUME NEW log \in Seq(Command), NEW gone
  PROVE  Without(log, gone) \in Seq(Command)
<1>1. Len(log) \in 0 .. Len(log)
  BY LenProperties
<1> QED BY <1>1, WithoutKeeps DEF Keeps

LEMMA WithoutAppend ==
  ASSUME NEW log \in Seq(Command), NEW e \in Command, NEW gone
  PROVE  Without(Append(log, e), gone) =
           IF e \in gone THEN Without(log, gone) ELSE Append(Without(log, gone), e)
<1> DEFINE N == Len(log)
           more == Append(log, e)
<1>1. /\ N \in Nat /\ more \in Seq(Command) /\ Len(more) = N + 1
      /\ more[N + 1] = e /\ \A n \in 1 .. N : more[n] = log[n]
  BY AppendProperties, LenProperties
<1>2. PICK f : Keeps(log, gone, f) /\ Without(log, gone) = f[N]
  BY WithoutKeeps
<1>3. PICK g : Keeps(more, gone, g) /\ Without(more, gone) = g[N + 1]
  BY <1>1, WithoutKeeps
<1> DEFINE T == {n \in Nat : n <= N => f[n] = g[n]}
<1>4. 0 \in T
  BY <1>2, <1>3 DEF Keeps
<1>5. ASSUME NEW n \in T PROVE n + 1 \in T
  <2> SUFFICES ASSUME n + 1 <= N PROVE f[n + 1] = g[n + 1]
    BY <1>5
  <2>1. n + 1 \in 1 .. N /\ n + 1 \in 1 .. N + 1 /\ f[n] = g[n] /\ (n + 1) - 1 = n
    BY <1>1, <1>5
  <2> HIDE DEF N, more, T
  <2>2. f[n + 1] = IF log[n + 1] \in gone THEN f[n] ELSE Append(f[n], log[n + 1])
    BY <1>2, <2>1 DEF Keeps, N
  <2>3. g[n + 1] = IF more[n + 1] \in gone THEN g[n] ELSE Append(g[n], more[n + 1])
    BY <1>1, <1>3, <2>1 DEF Keeps
  <2> QED BY <1>1, <2>1, <2>2, <2>3
<1>6. T = Nat
  <2> HIDE DEF T
  <2>1. T \in SUBSET Nat
    BY DEF T
  <2> QED BY <1>4, <1>5, <2>1, Induction
<1>7. f[N] = g[N]
  BY <1>1, <1>6
<1>8. g[N + 1] = IF e \in gone THEN g[N] ELSE Append(g[N], e)
  <2> HIDE DEF N, more
  <2>1. N + 1 \in 1 .. N + 1 /\ (N + 1) - 1 = N
    BY <1>1
  <2> QED BY <1>1, <1>3, <2>1 DEF Keeps
<1> QED BY <1>2, <1>3, <1>7, <1>8

-----------------------------------------------------------------------------
(* The events of a log.                                                     *)

LEMMA RangeAppend ==
  ASSUME NEW log \in Seq(Command), NEW e \in Command
  PROVE  Range(Append(log, e)) = Range(log) \cup {e}
<1> DEFINE N == Len(log)
           more == Append(log, e)
<1>1. /\ N \in Nat /\ more[N + 1] = e /\ \A n \in 1 .. N : more[n] = log[n]
      /\ more \in Seq(Command) /\ Len(more) = N + 1
      /\ DOMAIN more = 1 .. N + 1 /\ DOMAIN log = 1 .. N
  BY AppendProperties, LenProperties
<1>2. Range(more) = {more[n] : n \in 1 .. N + 1} /\ Range(log) = {log[n] : n \in 1 .. N}
  BY <1>1, RangeEquality
<1> HIDE DEF N, more
<1>3. {more[n] : n \in 1 .. N + 1} = {log[n] : n \in 1 .. N} \cup {e}
  BY <1>1
<1> QED BY <1>2, <1>3 DEF more

LEMMA RangeEmpty == Range(<<>>) = {}
<1>1. DOMAIN <<>> = {}
  BY EmptySeq, LenProperties
<1> QED BY <1>1 DEF Range

LEMMA RangeWithout ==
  ASSUME NEW log \in Seq(Command), NEW gone
  PROVE  Range(Without(log, gone)) = Range(log) \ gone
<1> DEFINE T == {l \in Seq(Command) : Range(Without(l, gone)) = Range(l) \ gone}
<1>1. <<>> \in T
  BY EmptySeq, WithoutEmpty, RangeEmpty
<1>2. ASSUME NEW l \in T, NEW e \in Command PROVE Append(l, e) \in T
  <2>1. l \in Seq(Command) /\ Without(l, gone) \in Seq(Command)
    BY WithoutType
  <2>2. Append(l, e) \in Seq(Command)
    BY <2>1, AppendProperties
  <2>3. Range(Append(l, e)) = Range(l) \cup {e}
    BY <2>1, RangeAppend
  <2>4. Range(Append(Without(l, gone), e)) = Range(Without(l, gone)) \cup {e}
    BY <2>1, RangeAppend
  <2>5. Without(Append(l, e), gone) =
          IF e \in gone THEN Without(l, gone) ELSE Append(Without(l, gone), e)
    BY <2>1, WithoutAppend
  <2>6. Range(Without(l, gone)) = Range(l) \ gone
    OBVIOUS
  <2>7. Range(Without(Append(l, e), gone)) = Range(Append(l, e)) \ gone
    <3>1. CASE e \in gone
      BY <2>3, <2>5, <2>6, <3>1
    <3>2. CASE e \notin gone
      BY <2>3, <2>4, <2>5, <2>6, <3>2
    <3> QED BY <3>1, <3>2
  <2> QED BY <2>2, <2>7
<1> HIDE DEF T
<1>3. T \in SUBSET Seq(Command)
  BY DEF T
<1>4. T = Seq(Command)
  BY <1>1, <1>2, <1>3, OnSequences
<1> QED BY <1>4 DEF T

-----------------------------------------------------------------------------
(* Compacting.                                                              *)

\* What an event does depends on its own record alone, and so does whether it
\* is legal: with the events of some requests left out, a log replays to the
\* same state but for these requests, and as cleanly.
THEOREM ReplayWithout ==
  ASSUME NEW log \in Seq(Command), NEW F \in SUBSET Requests, NEW ops
  PROVE  LET short == Replay(Without(log, Events(DispatchOps, F)))
             full == Replay(log)
         IN /\ short.owner = full.owner
            /\ short.mailbox = full.mailbox
            /\ \A r \in Requests :
                 short.dispatch[r] = IF r \in F THEN "none" ELSE full.dispatch[r]
            /\ ReplaysCleanly(log, ops) =>
                 ReplaysCleanly(Without(log, Events(DispatchOps, F)), ops)
<1> DEFINE gone == Events(DispatchOps, F)
           Same(s, t) ==
             /\ s.owner = t.owner
             /\ s.mailbox = t.mailbox
             /\ \A r \in Requests :
                  s.dispatch[r] = IF r \in F THEN "none" ELSE t.dispatch[r]
           T == {l \in Seq(Command) :
                   /\ Same(Replay(Without(l, gone)), Replay(l))
                   /\ ReplaysCleanly(l, ops) => ReplaysCleanly(Without(l, gone), ops)}
<1>1. <<>> \in T
  BY EmptySeq, WithoutEmpty, ReplayEmpty, CleanEmpty DEF NewEngine
<1>2. ASSUME NEW s \in EngineState, NEW t \in EngineState, Same(s, t), NEW e \in Command
      PROVE  IF e \in gone THEN Same(s, ReplayEvent(t, e))
             ELSE /\ Same(ReplayEvent(s, e), ReplayEvent(t, e))
                  /\ Legal(s, e) <=> Legal(t, e)
  <2>1. CASE e \in gone
    <3>1. e.op \in DispatchOps /\ e.on \in F
      BY <2>1 DEF Events
    <3> QED BY <1>2, <2>1, <3>1 DEF ReplayEvent, Apply, EngineState, DispatchOps
  <2>2. CASE e \notin gone
    <3>1. e.op \in DispatchOps => e.on \in Requests \ F
      BY <2>2 DEF Events, Command, DispatchOps, MailOps
    <3>2. Legal(s, e) <=> Legal(t, e)
      BY <1>2, <3>1 DEF Legal
    <3>3. Same(Apply(s, e), Apply(t, e))
      BY <1>2, <3>1 DEF Apply, EngineState, DispatchOps, Command
    <3> QED BY <1>2, <2>2, <3>2, <3>3 DEF ReplayEvent
  <2> QED BY <2>1, <2>2
<1>3. ASSUME NEW l \in T, NEW e \in Command PROVE Append(l, e) \in T
  <2>1. l \in Seq(Command) /\ Without(l, gone) \in Seq(Command)
    BY WithoutType
  <2>2. Append(l, e) \in Seq(Command)
    BY <2>1, AppendProperties
  <2>3. Replay(l) \in EngineState /\ Replay(Without(l, gone)) \in EngineState
    BY <2>1, ReplayType
  <2>4. Replay(Append(l, e)) = ReplayEvent(Replay(l), e)
    BY <2>1, ReplayAppend
  <2>5. ReplaysCleanly(Append(l, e), ops) <=>
          ReplaysCleanly(l, ops) /\ (e.op \in ops => Legal(Replay(l), e))
    BY <2>1, CleanAppend
  <2>6. CASE e \in gone
    <3>1. Without(Append(l, e), gone) = Without(l, gone)
      BY <2>1, <2>6, WithoutAppend
    <3> HIDE DEF gone, Same
    <3> QED BY <1>2, <2>2, <2>3, <2>4, <2>5, <2>6, <3>1
  <2>7. CASE e \notin gone
    <3>1. Without(Append(l, e), gone) = Append(Without(l, gone), e)
      BY <2>1, <2>7, WithoutAppend
    <3>2. Replay(Append(Without(l, gone), e)) = ReplayEvent(Replay(Without(l, gone)), e)
      BY <2>1, ReplayAppend
    <3>3. ReplaysCleanly(Append(Without(l, gone), e), ops) <=>
            /\ ReplaysCleanly(Without(l, gone), ops)
            /\ e.op \in ops => Legal(Replay(Without(l, gone)), e)
      BY <2>1, CleanAppend
    <3> HIDE DEF gone, Same
    <3> QED BY <1>2, <2>2, <2>3, <2>4, <2>5, <2>7, <3>1, <3>2, <3>3
  <2> QED BY <2>6, <2>7
<1> HIDE DEF T
<1>4. T \in SUBSET Seq(Command)
  BY DEF T
<1>5. T = Seq(Command)
  BY <1>1, <1>3, <1>4, OnSequences
<1> QED BY <1>5 DEF T

-----------------------------------------------------------------------------
(* The authority.                                                           *)

\* In a log that replays cleanly every acquire and renew names the one owner
\* that its replay ends with: the authority never changes hands.
THEOREM OneOwner ==
  ASSUME NEW log \in Seq(Command), ReplaysCleanly(log, {"acquire", "renew"})
  PROVE  \A e \in Range(log) :
           e.op \in {"acquire", "renew"} => e.on = Replay(log).owner
<1> DEFINE ops == {"acquire", "renew"}
           T == {l \in Seq(Command) : ReplaysCleanly(l, ops) =>
                   /\ \A e \in Range(l) : e.op \in ops => e.on = Replay(l).owner
                   /\ Replay(l).owner = NoOwner => \A e \in Range(l) : e.op \notin ops}
<1>1. <<>> \in T
  BY EmptySeq, RangeEmpty
<1>2. ASSUME NEW l \in T, NEW e \in Command PROVE Append(l, e) \in T
  <2>1. Append(l, e) \in Seq(Command)
    BY AppendProperties
  <2>2. Replay(Append(l, e)) = ReplayEvent(Replay(l), e)
    BY ReplayAppend
  <2>3. Range(Append(l, e)) = Range(l) \cup {e}
    BY RangeAppend
  <2>4. Replay(l) \in EngineState
    BY ReplayType
  <2> SUFFICES ASSUME ReplaysCleanly(Append(l, e), ops)
               PROVE  /\ \A d \in Range(Append(l, e)) :
                           d.op \in ops => d.on = Replay(Append(l, e)).owner
                      /\ Replay(Append(l, e)).owner = NoOwner =>
                           \A d \in Range(Append(l, e)) : d.op \notin ops
    BY <2>1
  <2>5. ReplaysCleanly(l, ops) /\ (e.op \in ops => Legal(Replay(l), e))
    BY CleanAppend
  <2>6. /\ \A d \in Range(l) : d.op \in ops => d.on = Replay(l).owner
        /\ Replay(l).owner = NoOwner => \A d \in Range(l) : d.op \notin ops
    BY <2>5
  <2>7. CASE e.op \in ops
    <3>1. Replay(l).owner \in {NoOwner, e.on}
      BY <2>5, <2>7 DEF Legal, DispatchOps, MailOps
    <3>2. Replay(Append(l, e)).owner = e.on /\ e.on # NoOwner
      BY <2>2, <2>4, <2>5, <2>7, OwnerAssumption
      DEF ReplayEvent, Apply, EngineState, Command, DispatchOps, MailOps
    <3> QED BY <2>3, <2>6, <3>1, <3>2
  <2>8. CASE e.op \notin ops
    <3>1. Replay(Append(l, e)).owner = Replay(l).owner
      BY <2>2, <2>4, <2>8 DEF ReplayEvent, Apply, EngineState, Command, DispatchOps, MailOps
    <3> QED BY <2>3, <2>6, <2>8, <3>1
  <2> QED BY <2>7, <2>8
<1> HIDE DEF T
<1>3. T \in SUBSET Seq(Command)
  BY DEF T
<1>4. T = Seq(Command)
  BY <1>1, <1>2, <1>3, OnSequences
<1> QED BY <1>4 DEF T

-----------------------------------------------------------------------------

(* The inductive invariant.  Cut: while a call fills the event log it is    *)
(* empty.  Offers: what a call that is about to write the log has computed *)
(* is a step of the abstract log from the log that it loaded.              *)
Shape == pc \in [Proc -> Status] /\ run = [p \in Proc |-> run[p]]

Cut == (\E p \in Proc : pc[p] = "events") => events = {}

Takes(r) ==
  /\ r.cmd \in Commands
  /\ mishap \subseteq {"init"} =>
       /\ Legal(Replay(r.base), r.cmd)
       /\ r.log \in {Append(r.base, r.cmd),
                     Compacted(Append(r.base, r.cmd), Apply(Replay(r.base), r.cmd))}

Offers ==
  \A p \in Proc : pc[p] \in {"lock", "events"} =>
    \/ run[p].cmd = NoCommand /\ run[p].log = <<>>
    \/ run[p].cmd # NoCommand /\ Takes(run[p])

IInv == Shape /\ OneWriter /\ Cut /\ LogIsReadable /\ Offers

-----------------------------------------------------------------------------
\* When nobody persists and no log was lost, a call loads the log committed
\* last, whatever the other calls are at.
LEMMA LoadsCommitted ==
  ASSUME LogIsReadable, NobodyPersists, "lost" \notin mishap
  PROVE  LoadedLog = committed
<1>1. events = {committed}
  BY DEF LogIsReadable, NobodyPersists, Persisting
<1>2. Cardinality(events) = 1
  BY <1>1, FS_Singleton
<1>3. Text(events) = committed
  BY <1>1 DEF Text
<1> QED BY <1>2, <1>3 DEF LoadedLog, Parses

\* Mishaps are never forgotten.
LEMMA MishapsStay ==
  ASSUME [Next]_vars
  PROVE  mishap \subseteq mishap'
<1>1. CASE UNCHANGED vars
  BY <1>1 DEF vars
<1>2. CASE Next
  BY <1>2 DEF Next, Step, Exec, Initialise, LockAndTruncate, WriteEvents, TruncateMailbox,
     WriteMailbox, TruncateDispatch, WriteDispatch, WriteMailboxView, Crash, Note
<1> QED BY <1>1, <1>2

\* What a call offers, it offers until it has written.
LEMMA OffersKept ==
  ASSUME NEW p \in Proc, pc[p] \in {"lock", "events"}, Offers, mishap \subseteq mishap',
         run'[p] = run[p]
  PROVE  \/ run'[p].cmd = NoCommand /\ run'[p].log = <<>>
         \/ run'[p].cmd # NoCommand /\ Takes(run[p])'
BY DEF Offers, Takes

LEMMA InitIInv == Init => IInv
<1> SUFFICES ASSUME Init PROVE IInv OBVIOUS
<1>1. Shape /\ OneWriter /\ Cut /\ Offers
  BY DEF Init, Shape, Status, OneWriter, Cut, Offers, Persisting, Viewing
<1>2. LogIsReadable
  BY DEF Init, LogIsReadable
<1> QED BY <1>1, <1>2 DEF IInv

\* A step of p that neither takes up the lock nor writes the event log.
LEMMA ElsewhereStep ==
  ASSUME IInv, [Next]_vars, NEW p \in Proc, NEW to \in Status,
         pc' = [pc EXCEPT ![p] = to], pc[p] # "events", to \notin {"lock", "events"},
         to \in Persisting => pc[p] \in Persisting,
         \A q \in Proc \ {p} : run'[q] = run[q], run' = [q \in Proc |-> run'[q]],
         events' = events, committed' = committed
  PROVE  IInv'
<1> USE DEF IInv
<1>0. mishap \subseteq mishap'
  BY MishapsStay
<1>1. Shape'
  BY DEF Shape
<1>2. OneWriter'
  BY DEF OneWriter, Shape
<1>3. Cut'
  BY DEF Cut, Shape
<1>4. LogIsReadable'
  <2>1. CASE events = {committed}
    BY <2>1 DEF LogIsReadable
  <2>2. CASE events = {} /\ ("lost" \in mishap \/ \E q \in Proc : pc[q] = "events")
    BY <2>2, <1>0 DEF LogIsReadable, Shape
  <2> QED BY <2>1, <2>2 DEF LogIsReadable
<1>5. Offers'
  <2> SUFFICES ASSUME NEW q \in Proc, pc'[q] \in {"lock", "events"}
               PROVE  \/ run'[q].cmd = NoCommand /\ run'[q].log = <<>>
                      \/ run'[q].cmd # NoCommand /\ Takes(run[q])'
    BY DEF Offers
  <2>1. q # p /\ pc[q] \in {"lock", "events"} /\ run'[q] = run[q]
    BY DEF Shape
  <2> QED BY <2>1, <1>0, OffersKept
<1> QED BY <1>1, <1>2, <1>3, <1>4, <1>5

-----------------------------------------------------------------------------
LEMMA ExecStep ==
  ASSUME IInv, [Next]_vars, NEW p \in Proc, NEW c \in Commands, NEW compact \in BOOLEAN,
         Exec(p, c, compact)
  PROVE  IInv'
<1> USE DEF IInv
<1>0. mishap \subseteq mishap'
  BY MishapsStay
<1>1. /\ pc' = [pc EXCEPT ![p] = "lock"] /\ pc[p] = "idle"
      /\ events' = events /\ committed' = committed
  BY DEF Exec, Goto
<1>2. Shape'
  BY <1>1 DEF Shape, Status, Exec
<1>3. OneWriter' /\ Cut'
  BY <1>1 DEF OneWriter, Cut, Shape, Persisting
<1>4. LogIsReadable'
  <2>1. CASE events = {committed}
    BY <2>1, <1>1 DEF LogIsReadable
  <2>2. CASE events = {} /\ ("lost" \in mishap \/ \E q \in Proc : pc[q] = "events")
    BY <2>2, <1>0, <1>1 DEF LogIsReadable, Shape
  <2> QED BY <2>1, <2>2 DEF LogIsReadable
<1>5. run'[p].cmd = c /\ run'[p].base = committed
      /\ run'[p].log = IF compact THEN Compacted(Append(LoadedLog, c), Apply(Loaded, c))
                                  ELSE Append(LoadedLog, c)
  BY DEF Exec, Shape
<1>6. c # NoCommand
  BY CommandsAssumption
<1>7. ASSUME mishap' \subseteq {"init"}
      PROVE  /\ Legal(Replay(committed), c)
             /\ run'[p].log \in {Append(committed, c),
                                 Compacted(Append(committed, c), Apply(Replay(committed), c))}
  <2>1. Loaded = Replay(committed)
    BY <1>7 DEF Exec, Note
  <2>2. LoadedLog = committed
    BY <1>0, <1>7, LoadsCommitted DEF Exec
  <2>3. Legal(Replay(committed), c)
    BY <2>1, <2>2 DEF Exec
  <2> QED BY <1>5, <2>1, <2>2, <2>3
<1>8. Offers'
  <2> SUFFICES ASSUME NEW q \in Proc, pc'[q] \in {"lock", "events"}
               PROVE  \/ run'[q].cmd = NoCommand /\ run'[q].log = <<>>
                      \/ run'[q].cmd # NoCommand /\ Takes(run[q])'
    BY DEF Offers
  <2>1. CASE q = p
    BY <2>1, <1>5, <1>6, <1>7 DEF Takes
  <2>2. CASE q # p
    <3>1. pc[q] \in {"lock", "events"} /\ run'[q] = run[q]
      BY <2>2, <1>1 DEF Shape, Exec
    <3> QED BY <3>1, <1>0, OffersKept
  <2> QED BY <2>1, <2>2
<1> QED BY <1>2, <1>3, <1>4, <1>8

LEMMA InitialiseStep ==
  ASSUME IInv, [Next]_vars, NEW p \in Proc, Initialise(p)
  PROVE  IInv'
<1> USE DEF IInv
<1>1. /\ pc' = [pc EXCEPT ![p] = "lock"] /\ pc[p] = "idle"
      /\ events' = events /\ committed' = committed /\ mishap' = mishap
      /\ run' = [run EXCEPT ![p] = NoRun]
  BY DEF Initialise, Goto
<1>2. Shape'
  BY <1>1 DEF Shape, Status
<1>3. OneWriter' /\ Cut'
  BY <1>1 DEF OneWriter, Cut, Shape, Persisting
<1>4. LogIsReadable'
  <2>1. CASE events = {committed}
    BY <2>1, <1>1 DEF LogIsReadable
  <2>2. CASE events = {} /\ ("lost" \in mishap \/ \E q \in Proc : pc[q] = "events")
    BY <2>2, <1>1 DEF LogIsReadable, Shape
  <2> QED BY <2>1, <2>2 DEF LogIsReadable
<1>5. Offers'
  <2> SUFFICES ASSUME NEW q \in Proc, pc'[q] \in {"lock", "events"}
               PROVE  \/ run'[q].cmd = NoCommand /\ run'[q].log = <<>>
                      \/ run'[q].cmd # NoCommand /\ Takes(run[q])'
    BY DEF Offers
  <2>1. CASE q = p
    BY <2>1, <1>1 DEF Shape, NoRun
  <2>2. CASE q # p
    <3>1. pc[q] \in {"lock", "events"} /\ run'[q] = run[q]
      BY <2>2, <1>1 DEF Shape
    <3> QED BY <3>1, <1>1, OffersKept
  <2> QED BY <2>1, <2>2
<1> QED BY <1>2, <1>3, <1>4, <1>5

LEMMA LockAndTruncateStep ==
  ASSUME IInv, NEW p \in Proc, LockAndTruncate(p)
  PROVE  IInv'
<1> USE DEF IInv
<1>1. /\ pc' = [pc EXCEPT ![p] = "events"] /\ pc[p] = "lock"
      /\ events' = {} /\ committed' = committed /\ mishap' = mishap /\ run' = run
  BY DEF LockAndTruncate, Goto
<1>2. Shape'
  BY <1>1 DEF Shape, Status, Persisting
<1>3. OneWriter'
  BY <1>1 DEF OneWriter, Shape, Persisting, LockAndTruncate, NobodyPersists
<1>4. Cut' /\ LogIsReadable'
  BY <1>1 DEF Cut, LogIsReadable, Shape
<1>5. Offers'
  <2> SUFFICES ASSUME NEW q \in Proc, pc'[q] \in {"lock", "events"}
               PROVE  \/ run'[q].cmd = NoCommand /\ run'[q].log = <<>>
                      \/ run'[q].cmd # NoCommand /\ Takes(run[q])'
    BY DEF Offers
  <2>1. pc[q] \in {"lock", "events"} /\ run'[q] = run[q]
    BY <1>1 DEF Shape
  <2> QED BY <2>1, <1>1, OffersKept
<1> QED BY <1>2, <1>3, <1>4, <1>5

LEMMA WriteEventsStep ==
  ASSUME IInv, [Next]_vars, NEW p \in Proc, WriteEvents(p)
  PROVE  IInv'
<1> USE DEF IInv
<1>0. mishap \subseteq mishap'
  BY MishapsStay
<1>1. /\ pc' = [pc EXCEPT ![p] = "mail"] /\ pc[p] = "events"
      /\ events' = {run[p].log} /\ committed' = run[p].log /\ run' = run
  BY DEF WriteEvents, Goto
<1>2. Shape'
  BY <1>1 DEF Shape, Status, Persisting
<1>3. OneWriter'
  BY <1>1 DEF OneWriter, Shape, Persisting
<1>4. Cut'
  BY <1>1 DEF Cut, Shape, OneWriter, Persisting
<1>5. LogIsReadable'
  BY <1>1 DEF LogIsReadable
<1>6. Offers'
  <2> SUFFICES ASSUME NEW q \in Proc, pc'[q] \in {"lock", "events"}
               PROVE  \/ run'[q].cmd = NoCommand /\ run'[q].log = <<>>
                      \/ run'[q].cmd # NoCommand /\ Takes(run[q])'
    BY DEF Offers
  <2>1. pc[q] \in {"lock", "events"} /\ run'[q] = run[q]
    BY <1>1 DEF Shape
  <2> QED BY <2>1, <1>0, OffersKept
<1> QED BY <1>2, <1>3, <1>4, <1>5, <1>6

LEMMA CrashStep ==
  ASSUME IInv, [Next]_vars, NEW p \in Proc, Crash(p)
  PROVE  IInv'
<1>1. /\ pc' = [pc EXCEPT ![p] = "idle"] /\ events' = events
      /\ run' = [run EXCEPT ![p] = NoRun]
      /\ pc[p] # "events" => committed' = committed
      /\ pc[p] = "events" => "lost" \in mishap'
  BY DEF Crash, Goto, Note
<1>2. run' = [q \in Proc |-> run'[q]] /\ \A q \in Proc \ {p} : run'[q] = run[q]
  BY <1>1 DEF IInv, Shape
<1>3. CASE pc[p] # "events"
  <2>1. "idle" \in Status /\ "idle" \notin {"lock", "events"} /\ "idle" \notin Persisting
    BY DEF Status, Persisting
  <2> QED BY <2>1, <1>1, <1>2, <1>3, ElsewhereStep
<1>4. CASE pc[p] = "events"
  <2> USE DEF IInv
  <2>0. mishap \subseteq mishap'
    BY MishapsStay
  <2>1. Shape'
    BY <1>1, <1>2 DEF Shape, Status
  <2>2. OneWriter'
    BY <1>1 DEF OneWriter, Shape, Persisting
  <2>3. Cut' /\ LogIsReadable'
    BY <1>1, <1>4 DEF Cut, LogIsReadable
  <2>4. Offers'
    <3> SUFFICES ASSUME NEW q \in Proc, pc'[q] \in {"lock", "events"}
                 PROVE  \/ run'[q].cmd = NoCommand /\ run'[q].log = <<>>
                        \/ run'[q].cmd # NoCommand /\ Takes(run[q])'
      BY DEF Offers
    <3>1. q # p /\ pc[q] \in {"lock", "events"} /\ run'[q] = run[q]
      BY <1>1, <1>2 DEF Shape
    <3> QED BY <3>1, <2>0, OffersKept
  <2> QED BY <2>1, <2>2, <2>3, <2>4
<1> QED BY <1>3, <1>4

LEMMA NextIInv == IInv /\ [Next]_vars => IInv'
<1> SUFFICES ASSUME IInv, [Next]_vars PROVE IInv' OBVIOUS
<1>0. run = [q \in Proc |-> run[q]] /\ pc \in [Proc -> Status]
  BY DEF IInv, Shape
<1>1. CASE UNCHANGED vars
  BY <1>1 DEF vars, IInv, Shape, OneWriter, Cut, LogIsReadable, Offers, Takes
<1>2. ASSUME NEW p \in Proc, NEW c \in Commands, NEW compact \in BOOLEAN, Exec(p, c, compact)
      PROVE  IInv'
  BY <1>2, ExecStep
<1>3. ASSUME NEW p \in Proc, Initialise(p) PROVE IInv'
  BY <1>3, InitialiseStep
<1>4. ASSUME NEW p \in Proc, Crash(p) PROVE IInv'
  BY <1>4, CrashStep
<1>5. ASSUME NEW p \in Proc, Step(p) PROVE IInv'
  <2>1. CASE LockAndTruncate(p)
    BY <2>1, LockAndTruncateStep
  <2>2. CASE WriteEvents(p)
    BY <2>2, WriteEventsStep
  <2>3. CASE TruncateMailbox(p)
    <3>1. /\ pc[p] = "mail" /\ pc' = [pc EXCEPT ![p] = "mailWrite"] /\ run' = run
          /\ events' = events /\ committed' = committed
      BY <2>3 DEF TruncateMailbox, Goto
    <3>2. /\ "mailWrite" \in Status /\ "mailWrite" \notin {"lock", "events"}
          /\ pc[p] \in Persisting /\ pc[p] # "events"
      BY <3>1 DEF Status, Persisting
    <3>3. run' = [q \in Proc |-> run'[q]] /\ \A q \in Proc \ {p} : run'[q] = run[q]
      BY <3>1, <1>0
    <3> QED BY <3>1, <3>2, <3>3, ElsewhereStep
  <2>4. CASE WriteMailbox(p)
    <3>1. /\ pc[p] = "mailWrite" /\ events' = events /\ committed' = committed
          /\ pc' = [pc EXCEPT ![p] = IF run[p].cmd = NoCommand THEN "idle" ELSE "view"]
          /\ run' = IF run[p].cmd = NoCommand THEN [run EXCEPT ![p] = NoRun] ELSE run
      BY <2>4 DEF WriteMailbox, Goto
    <3>2. run' = [q \in Proc |-> run'[q]] /\ \A q \in Proc \ {p} : run'[q] = run[q]
      BY <3>1, <1>0
    <3> DEFINE to == IF run[p].cmd = NoCommand THEN "idle" ELSE "view"
    <3>3. to \in Status /\ to \notin {"lock", "events"} /\ to \notin Persisting
      BY DEF Status, Persisting, Viewing
    <3>4. pc' = [pc EXCEPT ![p] = to]
      BY <3>1
    <3> HIDE DEF to
    <3> QED BY <3>1, <3>2, <3>3, <3>4, ElsewhereStep
  <2>5. CASE TruncateDispatch(p)
    <3>1. /\ pc[p] = "view" /\ pc' = [pc EXCEPT ![p] = "viewWrite"] /\ run' = run
          /\ events' = events /\ committed' = committed
      BY <2>5 DEF TruncateDispatch, Goto
    <3>2. "viewWrite" \in Status /\ "viewWrite" \notin {"lock", "events"}
          /\ "viewWrite" \notin Persisting
      BY DEF Status, Persisting, Viewing
    <3>3. run' = [q \in Proc |-> run'[q]] /\ \A q \in Proc \ {p} : run'[q] = run[q]
      BY <3>1, <1>0
    <3> QED BY <3>1, <3>2, <3>3, ElsewhereStep
  <2>6. CASE WriteDispatch(p)
    <3>1. /\ pc[p] = "viewWrite" /\ pc' = [pc EXCEPT ![p] = "viewMailWrite"] /\ run' = run
          /\ events' = events /\ committed' = committed
      BY <2>6 DEF WriteDispatch, Goto
    <3>2. "viewMailWrite" \in Status /\ "viewMailWrite" \notin {"lock", "events"}
          /\ "viewMailWrite" \notin Persisting
      BY DEF Status, Persisting, Viewing
    <3>3. run' = [q \in Proc |-> run'[q]] /\ \A q \in Proc \ {p} : run'[q] = run[q]
      BY <3>1, <1>0
    <3> QED BY <3>1, <3>2, <3>3, ElsewhereStep
  <2>7. CASE WriteMailboxView(p)
    <3>1. /\ pc[p] = "viewMailWrite" /\ pc' = [pc EXCEPT ![p] = "idle"]
          /\ run' = [run EXCEPT ![p] = NoRun]
          /\ events' = events /\ committed' = committed
      BY <2>7 DEF WriteMailboxView, Goto
    <3>2. run' = [q \in Proc |-> run'[q]] /\ \A q \in Proc \ {p} : run'[q] = run[q]
      BY <3>1, <1>0
    <3>3. "idle" \in Status /\ "idle" \notin {"lock", "events"} /\ "idle" \notin Persisting
      BY DEF Status, Persisting, Viewing
    <3> QED BY <3>1, <3>2, <3>3, ElsewhereStep
  <2> QED BY <1>5, <2>1, <2>2, <2>3, <2>4, <2>5, <2>6, <2>7 DEF Step
<1> QED BY <1>1, <1>2, <1>3, <1>4, <1>5 DEF Next

\* One call persists at a time, the log is readable but under its hands, and
\* what a call is about to write is a step of the abstract log.
THEOREM Invariance == Spec => []IInv
BY InitIInv, NextIInv, PTL DEF Spec

-----------------------------------------------------------------------------
\* persist is exclusive: two calls are never both between taking the flock
\* and dropping it, whatever calls begin, overlap or are killed.
THEOREM WritersExclude == Spec => []OneWriter
<1>1. IInv => OneWriter
  BY DEF IInv
<1> QED BY <1>1, Invariance, PTL

\* events.json is what the last call that filled it wrote, and it is cut short
\* only under the hands of a writer or after one has died there.
THEOREM LogReadable == Spec => []LogIsReadable
<1>1. IInv => LogIsReadable
  BY DEF IInv
<1> QED BY <1>1, Invariance, PTL

\* A call writes the event log, if it writes it at all, as a step of CommandLog.
LEMMA LogSteps ==
  ASSUME IInv, [Next]_vars, mishap' \subseteq {"init"}
  PROVE  Abstract!Next \/ UNCHANGED committed
<1>0. mishap \subseteq {"init"}
  BY MishapsStay
<1>1. ASSUME NEW p \in Proc, WriteEvents(p)
      PROVE  Abstract!Next
  <2>1. /\ pc[p] = "events" /\ committed' = run[p].log
        /\ run[p].cmd = NoCommand \/ run[p].base = committed
    BY <1>1 DEF WriteEvents, Note
  <2>2. CASE run[p].cmd = NoCommand
    BY <2>1, <2>2 DEF IInv, Offers, Takes, Abstract!Next, Abstract!Reset
  <2>3. CASE run[p].cmd # NoCommand
    <3> DEFINE c == run[p].cmd
    <3>1. /\ c \in Commands /\ Legal(Replay(committed), c)
          /\ committed' \in {Append(committed, c),
                             Compacted(Append(committed, c), Apply(Replay(committed), c))}
      BY <1>0, <2>1, <2>3 DEF IInv, Offers, Takes
    <3>2. c \in Command
      BY <3>1, CommandsAssumption
    <3> HIDE DEF c
    <3> QED BY <3>1, <3>2 DEF Abstract!Next, Abstract!Accept, Abstract!AcceptAndCompact
  <2> QED BY <2>2, <2>3
<1>2. ASSUME NEW p \in Proc, Crash(p)
      PROVE  UNCHANGED committed
  BY <1>2 DEF Crash, Note
<1>3. CASE UNCHANGED vars
  BY <1>3 DEF vars
<1>4. ASSUME Next, \A p \in Proc : ~WriteEvents(p) /\ ~Crash(p)
      PROVE  UNCHANGED committed
  BY <1>4 DEF Next, Step, Exec, Initialise, LockAndTruncate, TruncateMailbox, WriteMailbox,
     TruncateDispatch, WriteDispatch, WriteMailboxView
<1> QED BY <1>1, <1>2, <1>3, <1>4

\* Until a call is killed in the log or two calls overlap in a lost update, the
\* executables implement one atomic log: every exec takes effect when it fills
\* events.json, in the state that the log then stands for, or never.
THEOREM Refinement == Spec => ImplementsCommandLog
<1>1. Init => Abstract!Init
  BY DEF Init, Abstract!Init
<1>2. IInv /\ [Next]_vars => [mishap' \subseteq {"init"} => Abstract!Next]_committed
  BY LogSteps
<1> QED BY <1>1, <1>2, Invariance, PTL DEF Spec, ImplementsCommandLog

-----------------------------------------------------------------------------
(* Typing.                                                                  *)

LEMMA NoRunType == NoRun \in Run
BY NewEngineType, EmptySeq DEF NoRun, Run, EngineState

LEMMA ParsedText ==
  ASSUME NEW file, Parses(file)
  PROVE  Text(file) \in file
<1>1. file # {}
  BY FS_EmptySet DEF Parses
<1> QED BY <1>1 DEF Text

LEMMA LoadedTypes ==
  ASSUME TypeOK
  PROVE  /\ LoadedLog \in Seq(Command)
         /\ Loaded \in EngineState
         /\ Loaded.dispatch = Replay(LoadedLog).dispatch
         /\ Loaded.owner = Replay(LoadedLog).owner
<1>1. LoadedLog \in Seq(Command)
  BY ParsedText, EmptySeq DEF LoadedLog, TypeOK
<1>2. Replay(LoadedLog) \in EngineState
  BY <1>1, ReplayType
<1>3. CASE ~Parses(events)
  BY <1>2, <1>3, ReplayEmpty DEF Loaded, LoadedLog
<1>4. CASE Parses(events)
  <2>1. LoadedLog = Text(events)
    BY <1>4 DEF LoadedLog
  <2>2. CASE Parses(mailbox)
    <3>1. Loaded = [Replay(LoadedLog) EXCEPT !.mailbox = Text(mailbox)]
      BY <1>4, <2>1, <2>2 DEF Loaded
    <3>2. Text(mailbox) \in [Messages -> MailStatus \cup {"none"}]
      BY <2>2, ParsedText DEF TypeOK
    <3> QED BY <1>1, <1>2, <3>1, <3>2 DEF EngineState
  <2>3. CASE ~Parses(mailbox)
    BY <1>1, <1>2, <1>4, <2>1, <2>3 DEF Loaded
  <2> QED BY <2>2, <2>3
<1> QED BY <1>1, <1>3, <1>4

-----------------------------------------------------------------------------
(* What an exec computes.                                                   *)

(* Recovers: an empty event log is under its writer's hands, or stands for   *)
(* an empty history.                                                         *)
Recovers == events = {} => committed = <<>> \/ \E p \in Proc : pc[p] = "events"

CleanLog(log) ==
  /\ ReplaysCleanly(log, DispatchOps \cup {"acquire", "renew"})
  /\ "view" \notin mishap => ReplaysCleanly(log, MailOps)

\* The engine of a call is what its log stands for, and the finished requests
\* that were compacted beside.
Renders(r) ==
  /\ \A q \in Requests :
       \/ r.dispatch[q] = Replay(r.log).dispatch[q]
       \/ Replay(r.log).dispatch[q] = "none" /\ r.dispatch[q] \in Finished
  /\ "view" \notin mishap => r.mailbox = Replay(r.log).mailbox

\* A call passes on what it has loaded and its command, or drops them as events
\* of finished requests of which its log says nothing more.
PassesOn(r) ==
  \A x \in Range(r.base) \cup {r.cmd} :
    x \in Range(r.log) \/ (x.op \in DispatchOps /\ x.on \in Dropped(r))

LEMMA LoadsLast ==
  ASSUME LogIsReadable, Recovers, NobodyPersists
  PROVE  LoadedLog = committed
<1>1. CASE events = {committed}
  <2>1. Cardinality(events) = 1 /\ Text(events) = committed
    BY <1>1, FS_Singleton DEF Text
  <2> QED BY <2>1 DEF LoadedLog, Parses
<1>2. CASE events = {}
  <2>1. committed = <<>>
    BY <1>2 DEF Recovers, NobodyPersists, Persisting
  <2>2. ~Parses(events)
    BY <1>2, FS_EmptySet DEF Parses
  <2> QED BY <2>1, <2>2 DEF LoadedLog
<1> QED BY <1>1, <1>2 DEF LogIsReadable

LEMMA ExecComputes ==
  ASSUME TypeOK, IInv, Recovers, CleanLog(committed),
         NEW p \in Proc, NEW c \in Commands, NEW compact \in BOOLEAN, Exec(p, c, compact)
  PROVE  /\ run'[p] \in Run /\ run'[p].cmd = c /\ run'[p].base = committed
         /\ CleanLog(run[p].log)'
         /\ Renders(run[p])'
         /\ PassesOn(run'[p])
<1> DEFINE st == Apply(Loaded, c)
           all == Append(committed, c)
           gone == Events(DispatchOps, Ended(st))
           log == IF compact THEN Without(all, gone) ELSE all
<1>1. LoadedLog = committed
  BY LoadsLast DEF IInv, Exec
<1>2. /\ c \in Command /\ committed \in Seq(Command)
      /\ Loaded \in EngineState /\ Replay(committed) \in EngineState
      /\ Loaded.dispatch = Replay(committed).dispatch
      /\ Loaded.owner = Replay(committed).owner
  BY <1>1, CommandsAssumption, LoadedTypes, ReplayType DEF TypeOK
<1>3. /\ Legal(Loaded, c)
      /\ mishap \subseteq mishap'
      /\ "view" \notin mishap' => Loaded = Replay(committed)
  BY DEF Exec, Note
<1>4. run'[p] = [cmd |-> c, base |-> committed, log |-> log,
                dispatch |-> st.dispatch, mailbox |-> st.mailbox]
  BY <1>1 DEF Exec, IInv, Shape, Compacted
<1>5. st \in EngineState /\ all \in Seq(Command)
  BY <1>2, ApplyType, AppendProperties
<1>6. Replay(all) = ReplayEvent(Replay(committed), c)
  BY <1>2, ReplayAppend
<1>7. c.op \notin MailOps => Legal(Replay(committed), c)
  BY <1>2, <1>3 DEF Legal
<1>8. st.dispatch = Replay(all).dispatch
  <2>1. CASE c.op \in MailOps
    BY <1>2, <1>6, <2>1 DEF ReplayEvent, Apply, EngineState, MailOps
  <2>2. CASE c.op \notin MailOps
    <3>1. Replay(all) = Apply(Replay(committed), c)
      BY <1>6, <1>7, <2>2 DEF ReplayEvent
    <3> QED BY <1>2, <2>2, <3>1 DEF Apply, EngineState, MailOps, DispatchOps, Command
  <2> QED BY <2>1, <2>2
<1>9. "view" \notin mishap' => Legal(Replay(committed), c) /\ st = Replay(all)
  BY <1>3, <1>6 DEF ReplayEvent
<1>10. CleanLog(all)'
  <2>1. ReplaysCleanly(all, DispatchOps \cup {"acquire", "renew"})
    <3>1. c.op \in DispatchOps \cup {"acquire", "renew"} => c.op \notin MailOps
      BY DEF DispatchOps, MailOps
    <3> QED BY <1>2, <1>7, <3>1, CleanAppend DEF CleanLog
  <2>2. "view" \notin mishap' => ReplaysCleanly(all, MailOps)
    BY <1>2, <1>3, <1>9, CleanAppend DEF CleanLog
  <2>3. committed' = committed
    BY DEF Exec
  <2> HIDE DEF all
  <2> QED BY <2>1, <2>2, <2>3 DEF CleanLog, all
<1>11. Range(all) = Range(committed) \cup {c}
  BY <1>2, RangeAppend
<1>12. CASE ~compact
  <2>1. log = all
    BY <1>12
  <2>2. run'[p].log = all /\ run'[p].dispatch = st.dispatch /\ run'[p].mailbox = st.mailbox
        /\ run'[p].cmd = c /\ run'[p].base = committed
    BY <1>4, <2>1
  <2> HIDE DEF st, all, log, gone
  <2>3. run'[p] \in Run
    BY <1>2, <1>4, <1>5, <2>1 DEF Run, EngineState
  <2>4. CleanLog(run[p].log)'
    <3>1. all' = all
      BY DEF all, Exec
    <3> QED BY <1>10, <2>2, <3>1 DEF CleanLog
  <2>5. Renders(run[p])'
    BY <1>8, <1>9, <2>2 DEF Renders
  <2>6. PassesOn(run'[p])
    BY <1>11, <2>2 DEF PassesOn
  <2> QED BY <2>2, <2>3, <2>4, <2>5, <2>6
<1>13. CASE compact
  <2> DEFINE short == Without(all, gone)
             F == Ended(st)
  <2>1. short \in Seq(Command) /\ Range(short) = Range(all) \ gone
    BY <1>5, WithoutType, RangeWithout
  <2>2. run'[p].log = short /\ run'[p].dispatch = st.dispatch /\ run'[p].mailbox = st.mailbox
        /\ run'[p].cmd = c /\ run'[p].base = committed
    BY <1>4, <1>13
  <2>3. F \in SUBSET Requests
    BY DEF Ended
  <2>4. /\ Replay(short).mailbox = Replay(all).mailbox
        /\ \A r \in Requests :
             Replay(short).dispatch[r] = IF r \in F THEN "none" ELSE Replay(all).dispatch[r]
        /\ \A ops : ReplaysCleanly(all, ops) => ReplaysCleanly(short, ops)
    BY <1>5, <2>3, ReplayWithout
  <2> HIDE DEF st, all, gone, log
  <2>5. run'[p] \in Run
    BY <1>2, <1>4, <1>5, <1>13, <2>1 DEF Run, EngineState, log
  <2>6. CleanLog(run[p].log)'
    <3>1. all' = all
      BY DEF all, Exec
    <3> QED BY <1>10, <2>2, <2>4, <3>1 DEF CleanLog
  <2>7. Renders(run[p])'
    <3>1. \A q \in F : st.dispatch[q] \in Finished
      BY DEF Ended
    <3> HIDE DEF F, short
    <3> QED BY <1>8, <1>9, <2>2, <2>4, <3>1 DEF Renders
  <2>8. PassesOn(run'[p])
    <3> SUFFICES ASSUME NEW x \in Range(all), x \in gone
                 PROVE  x.op \in DispatchOps /\ x.on \in Dropped(run'[p])
      BY <1>11, <2>1, <2>2 DEF PassesOn
    <3>1. x.op \in DispatchOps /\ x.on \in F
      BY DEF gone, Events
    <3>2. ASSUME NEW e \in Range(short), e.op \in DispatchOps PROVE e.on # x.on
      <4>1. e \in Command /\ e \notin gone
        BY <1>5, <2>1, RangeOfSeq
      <4> QED BY <3>1, <3>2, <4>1 DEF gone, Events
    <3> QED BY <2>2, <3>1, <3>2 DEF Dropped, Ended
  <2> QED BY <2>2, <2>5, <2>6, <2>7, <2>8
<1> QED BY <1>12, <1>13

-----------------------------------------------------------------------------
(* The state of the calls.                                                  *)

(* Holds: the flock keeps committed what its holder has written, and only    *)
(* execs go on to the view.  Computes: what ExecComputes says stays true of  *)
(* a call to its end.                                                        *)
Holds ==
  \A p \in Proc :
    /\ pc[p] \in {"mail", "mailWrite"} =>
         run[p].log = committed /\ (run[p].cmd = NoCommand => "init" \in mishap)
    /\ pc[p] \in Viewing => run[p].cmd # NoCommand

Computes ==
  \A p \in Proc : pc[p] # "idle" =>
    /\ CleanLog(run[p].log)
    /\ Renders(run[p])
    /\ run[p].cmd # NoCommand => PassesOn(run[p])

SInv == TypeOK /\ Recovers /\ CleanLog(committed) /\ Holds /\ Computes

LEMMA InitSInv == Init => SInv
<1> SUFFICES ASSUME Init PROVE SInv
  OBVIOUS
<1>1. PICK log \in InitLogs :
        /\ committed = log /\ events = {log}
        /\ mailbox = {Replay(log).mailbox} /\ dispatch = {Replay(log).dispatch}
  BY DEF Init
<1>2. log \in Seq(Command) /\ Replay(log) \in EngineState
  BY InitLogsAssumption, ReplayType
<1>3. TypeOK
  <2>1. Cardinality(events) <= 1
    BY <1>1, FS_Singleton
  <2>2. OneWriter
    BY DEF Init, OneWriter, Persisting
  <2>3. NoRun \in Run
    BY NoRunType
  <2>4. mailbox \in SUBSET [Messages -> MailStatus \cup {"none"}]
        /\ dispatch \in SUBSET [Requests -> DispatchStatus \cup {"none"}]
    BY <1>1, <1>2 DEF EngineState
  <2> QED BY <1>1, <1>2, <2>1, <2>2, <2>3, <2>4, BoundsAssumption DEF Init, TypeOK, Status, Mishaps
<1>4. Recovers
  BY <1>1 DEF Recovers
<1>5. CleanLog(committed)
  BY <1>1, InitLogsAssumption DEF CleanLog, ReplaysCleanly
<1>6. Holds /\ Computes
  BY DEF Init, Holds, Computes, Viewing
<1> QED BY <1>3, <1>4, <1>5, <1>6 DEF SInv

\* A call that is under way has just begun, or goes on with what it held.
LEMMA Runs ==
  ASSUME TypeOK, IInv, [Next]_vars, NEW q \in Proc, pc'[q] # "idle"
  PROVE  \/ pc[q] # "idle" /\ run'[q] = run[q]
         \/ Initialise(q)
         \/ \E c \in Commands, compact \in BOOLEAN : Exec(q, c, compact)
<1>1. CASE UNCHANGED vars
  BY <1>1 DEF vars
<1>2. ASSUME NEW p \in Proc, Step(p) PROVE pc[q] # "idle" /\ run'[q] = run[q]
  BY <1>2 DEF Step, LockAndTruncate, WriteEvents, TruncateMailbox, WriteMailbox,
     TruncateDispatch, WriteDispatch, WriteMailboxView, Goto, IInv, Shape
<1>3. ASSUME NEW p \in Proc, Crash(p) PROVE pc[q] # "idle" /\ run'[q] = run[q]
  BY <1>3 DEF Crash, Goto, IInv, Shape
<1>4. ASSUME NEW p \in Proc, NEW c \in Commands, NEW compact \in BOOLEAN,
             Exec(p, c, compact), p # q
      PROVE  pc[q] # "idle" /\ run'[q] = run[q]
  BY <1>4 DEF Exec, Goto, IInv, Shape
<1>5. ASSUME NEW p \in Proc, Initialise(p), p # q
      PROVE  pc[q] # "idle" /\ run'[q] = run[q]
  BY <1>5 DEF Initialise, Goto, IInv, Shape
<1> QED BY <1>1, <1>2, <1>3, <1>4, <1>5 DEF Next

\* Who touches the event log.
LEMMA LogMoves ==
  ASSUME IInv, [Next]_vars
  PROVE  \/ \E p \in Proc : WriteEvents(p) \/ LockAndTruncate(p) \/ Crash(p)
         \/ /\ events' = events /\ committed' = committed
            /\ \A q \in Proc : pc'[q] \in {"events", "mail"} => pc'[q] = pc[q]
            /\ \A q \in Proc : pc[q] = "events" => pc'[q] = pc[q]
BY DEF Next, Step, Exec, Initialise, TruncateMailbox, WriteMailbox, TruncateDispatch,
   WriteDispatch, WriteMailboxView, Goto, IInv, Shape, vars

LEMMA NextTyped ==
  ASSUME SInv, IInv, [Next]_vars
  PROVE  TypeOK'
<1> USE DEF SInv
<1>1. OneWriter'
  BY NextIInv DEF IInv
<1>2. /\ pc \in [Proc -> Status] /\ \A p \in Proc : run[p] \in Run
      /\ run = [p \in Proc |-> run[p]]
  BY DEF TypeOK, IInv, Shape
<1>3. /\ NoRun \in Run /\ NoRun.cmd = NoCommand /\ <<>> \in Seq(Command)
      /\ \A p \in Proc : /\ run[p].log \in Seq(Command)
                        /\ run[p].dispatch \in [Requests -> DispatchStatus \cup {"none"}]
                        /\ run[p].mailbox \in [Messages -> MailStatus \cup {"none"}]
                        /\ run[p].cmd \in Commands \cup {NoCommand}
  BY <1>2, NoRunType, EmptySeq DEF Run, NoRun
<1>4. pc' \in [Proc -> Status]
  BY NextIInv DEF IInv, Shape
<1>5. CASE UNCHANGED vars
  BY <1>1, <1>5 DEF vars, TypeOK
<1>6. ASSUME NEW p \in Proc, NEW c \in Commands, NEW compact \in BOOLEAN,
             Exec(p, c, compact)
      PROVE  TypeOK'
  <2>1. run'[p] \in Run
    BY <1>6, ExecComputes
  <2>2. \A q \in Proc : run'[q] \in Run
    BY <1>2, <1>6, <2>1 DEF Exec
  <2>3. /\ issued < MaxExecs /\ issued' = issued + 1
        /\ mishap' = mishap \cup {"view"} \/ mishap' = mishap
        /\ UNCHANGED <<events, mailbox, dispatch, crashes, committed, acked, forgotten>>
    BY <1>6 DEF Exec, Note
  <2>4. issued' \in 0 .. MaxExecs
    <3>1. issued \in 0 .. MaxExecs /\ MaxExecs \in Nat
      BY BoundsAssumption DEF TypeOK
    <3> QED BY <2>3, <3>1
  <2>5. mishap' \subseteq Mishaps
    BY <2>3 DEF TypeOK, Mishaps
  <2> QED BY <1>1, <1>4, <2>2, <2>3, <2>4, <2>5 DEF TypeOK
<1>7. ASSUME NEW p \in Proc, Initialise(p) PROVE TypeOK'
  BY <1>1, <1>2, <1>3, <1>4, <1>7, BoundsAssumption DEF Initialise, TypeOK
<1>8. ASSUME NEW p \in Proc, Crash(p) PROVE TypeOK'
  BY <1>1, <1>2, <1>3, <1>4, <1>8, BoundsAssumption DEF Crash, Note, TypeOK, Mishaps
<1>9. ASSUME NEW p \in Proc, LockAndTruncate(p) PROVE TypeOK'
  BY <1>1, <1>4, <1>9, FS_EmptySet DEF LockAndTruncate, TypeOK
<1>10. ASSUME NEW p \in Proc, WriteEvents(p) PROVE TypeOK'
  <2>1. Cardinality(events') <= 1 /\ events' \in SUBSET Seq(Command)
    <3>1. events' = {run[p].log}
      BY <1>10 DEF WriteEvents
    <3>2. Cardinality(events') = 1
      BY <3>1, FS_Singleton
    <3> QED BY <1>3, <3>1, <3>2
  <2>2. forgotten' \subseteq Requests
    BY <1>10 DEF WriteEvents, Dropped, TypeOK
  <2> QED BY <1>1, <1>3, <1>4, <1>10, <2>1, <2>2 DEF WriteEvents, Note, TypeOK, Mishaps
<1>11. ASSUME NEW p \in Proc, TruncateMailbox(p) PROVE TypeOK'
  BY <1>1, <1>4, <1>11 DEF TruncateMailbox, TypeOK
<1>12. ASSUME NEW p \in Proc, WriteMailbox(p) PROVE TypeOK'
  <2>1. mailbox' \in SUBSET [Messages -> MailStatus \cup {"none"}]
    BY <1>3, <1>12 DEF WriteMailbox, Filled, TypeOK
  <2> QED BY <1>1, <1>2, <1>3, <1>4, <1>12, <2>1 DEF WriteMailbox, Note, TypeOK, Mishaps
<1>13. ASSUME NEW p \in Proc, TruncateDispatch(p) PROVE TypeOK'
  BY <1>1, <1>4, <1>13 DEF TruncateDispatch, TypeOK
<1>14. ASSUME NEW p \in Proc, WriteDispatch(p) PROVE TypeOK'
  <2>1. dispatch' \in SUBSET [Requests -> DispatchStatus \cup {"none"}]
    BY <1>3, <1>14 DEF WriteDispatch, Filled, TypeOK
  <2> QED BY <1>1, <1>4, <1>14, <2>1 DEF WriteDispatch, Note, TypeOK, Mishaps
<1>15. ASSUME NEW p \in Proc, WriteMailboxView(p) PROVE TypeOK'
  <2>1. mailbox' \in SUBSET [Messages -> MailStatus \cup {"none"}]
    BY <1>3, <1>15 DEF WriteMailboxView, Filled, TypeOK
  <2>2. run[p].cmd \in Commands
    BY <1>3, <1>15 DEF WriteMailboxView, Holds, Viewing
  <2> QED BY <1>1, <1>2, <1>3, <1>4, <1>15, <2>1, <2>2
          DEF WriteMailboxView, Note, TypeOK, Mishaps
<1> QED BY <1>5, <1>6, <1>7, <1>8, <1>9, <1>10, <1>11, <1>12, <1>13, <1>14, <1>15
        DEF Next, Step

\* What a call has computed stays true while it writes.
LEMMA NextComputes ==
  ASSUME SInv, IInv, [Next]_vars
  PROVE  Computes'
<1> SUFFICES ASSUME NEW q \in Proc, pc'[q] # "idle"
             PROVE  /\ CleanLog(run[q].log)'
                    /\ Renders(run[q])'
                    /\ run'[q].cmd # NoCommand => PassesOn(run'[q])
  BY DEF Computes, PassesOn, Dropped
<1>0. mishap \subseteq mishap'
  BY MishapsStay
<1>1. CASE pc[q] # "idle" /\ run'[q] = run[q]
  <2>1. CleanLog(run[q].log) /\ Renders(run[q])
        /\ (run[q].cmd # NoCommand => PassesOn(run[q]))
    BY <1>1 DEF SInv, Computes
  <2>2. CleanLog(run[q].log)'
    BY <1>0, <1>1, <2>1 DEF CleanLog
  <2>3. Renders(run[q])'
    BY <1>0, <1>1, <2>1 DEF Renders
  <2> QED BY <1>1, <2>1, <2>2, <2>3
<1>2. CASE Initialise(q)
  <2>1. run'[q] = NoRun /\ NoRun.cmd = NoCommand /\ NoRun.log = <<>>
        /\ NoRun.dispatch = NewEngine.dispatch /\ NoRun.mailbox = NewEngine.mailbox
    BY <1>2 DEF Initialise, NoRun, IInv, Shape
  <2>2. CleanLog(run[q].log)'
    BY <2>1, CleanEmpty DEF CleanLog
  <2>3. Renders(run[q])'
    BY <2>1, ReplayEmpty DEF Renders
  <2> QED BY <2>1, <2>2, <2>3
<1>3. ASSUME NEW c \in Commands, NEW compact \in BOOLEAN, Exec(q, c, compact)
      PROVE  CleanLog(run[q].log)' /\ Renders(run[q])' /\ PassesOn(run'[q])
  BY <1>3, ExecComputes DEF SInv
<1> QED BY <1>1, <1>2, <1>3, Runs DEF SInv

LEMMA NextSInv == SInv /\ IInv /\ [Next]_vars => SInv'
<1> SUFFICES ASSUME SInv, IInv, [Next]_vars PROVE SInv'
  OBVIOUS
<1>0. mishap \subseteq mishap' /\ IInv'
  BY MishapsStay, NextIInv
<1>1. TypeOK' /\ Computes'
  BY NextTyped, NextComputes
<1>2. pc \in [Proc -> Status] /\ pc' \in [Proc -> Status]
  BY <1>0 DEF IInv, Shape
<1>3. Recovers' /\ CleanLog(committed)'
  <2>1. CASE \E p \in Proc : WriteEvents(p)
    <3>1. PICK p \in Proc : WriteEvents(p)
      BY <2>1
    <3>2. events' # {} /\ committed' = run[p].log /\ pc[p] # "idle"
      BY <3>1 DEF WriteEvents
    <3>3. CleanLog(run[p].log)
      BY <3>2 DEF SInv, Computes
    <3> QED BY <1>0, <3>2, <3>3 DEF Recovers, CleanLog
  <2>2. CASE \E p \in Proc : LockAndTruncate(p)
    <3>1. PICK p \in Proc : LockAndTruncate(p)
      BY <2>2
    <3>2. pc'[p] = "events" /\ committed' = committed
      BY <1>2, <3>1 DEF LockAndTruncate, Goto
    <3> QED BY <1>0, <3>2 DEF SInv, Recovers, CleanLog
  <2>3. CASE \E p \in Proc : Crash(p)
    <3>1. PICK p \in Proc : Crash(p)
      BY <2>3
    <3>2. events' = events /\ pc' = [pc EXCEPT ![p] = "idle"]
          /\ committed' = IF pc[p] = "events" THEN <<>> ELSE committed
      BY <3>1 DEF Crash, Goto
    <3>3. Recovers'
      BY <1>2, <3>2 DEF SInv, Recovers
    <3>4. CleanLog(committed)'
      BY <1>0, <3>2, CleanEmpty DEF SInv, CleanLog
    <3> QED BY <3>3, <3>4
  <2>4. CASE /\ events' = events /\ committed' = committed
             /\ \A q \in Proc : pc[q] = "events" => pc'[q] = pc[q]
    BY <1>0, <2>4 DEF SInv, Recovers, CleanLog
  <2> QED BY <2>1, <2>2, <2>3, <2>4, LogMoves
<1>4. Holds'
  <2> SUFFICES ASSUME NEW q \in Proc
               PROVE  /\ pc'[q] \in {"mail", "mailWrite"} =>
                            /\ run'[q].log = committed'
                            /\ run'[q].cmd = NoCommand => "init" \in mishap'
                      /\ pc'[q] \in Viewing => run'[q].cmd # NoCommand
    BY DEF Holds
  <2>1. ASSUME NEW p \in Proc, Step(p), p = q
        PROVE  /\ pc'[q] \in {"mail", "mailWrite"} =>
                     /\ run'[q].log = committed'
                     /\ run'[q].cmd = NoCommand => "init" \in mishap'
               /\ pc'[q] \in Viewing => run'[q].cmd # NoCommand
    <3>1. CASE LockAndTruncate(p)
      BY <1>2, <2>1, <3>1 DEF LockAndTruncate, Goto, Viewing
    <3>2. CASE WriteEvents(p)
      BY <1>2, <2>1, <3>2 DEF WriteEvents, Goto, Note, Viewing
    <3>3. CASE TruncateMailbox(p)
      BY <1>2, <2>1, <3>3 DEF TruncateMailbox, Goto, Viewing, SInv, Holds
    <3>4. CASE WriteMailbox(p)
      BY <1>2, <2>1, <3>4 DEF WriteMailbox, Goto, Viewing, SInv, Holds
    <3>5. CASE TruncateDispatch(p)
      BY <1>2, <2>1, <3>5 DEF TruncateDispatch, Goto, Viewing, SInv, Holds
    <3>6. CASE WriteDispatch(p)
      BY <1>2, <2>1, <3>6 DEF WriteDispatch, Goto, Viewing, SInv, Holds
    <3>7. CASE WriteMailboxView(p)
      BY <1>2, <2>1, <3>7 DEF WriteMailboxView, Goto, Viewing
    <3> QED BY <2>1, <3>1, <3>2, <3>3, <3>4, <3>5, <3>6, <3>7 DEF Step
  <2>2. CASE pc'[q] = pc[q] /\ run'[q] = run[q]
    <3>1. pc[q] \in {"mail", "mailWrite"} => committed' = committed
      <4>1. ASSUME NEW p \in Proc, WriteEvents(p) PROVE pc[q] \notin {"mail", "mailWrite"}
        BY <1>2, <2>2, <4>1 DEF WriteEvents, Goto, IInv, OneWriter, Persisting
      <4>2. ASSUME NEW p \in Proc, Crash(p), pc[q] \in {"mail", "mailWrite"}
            PROVE  committed' = committed
        BY <1>2, <2>2, <4>2 DEF Crash, Goto, IInv, OneWriter, Persisting
      <4>3. ASSUME NEW p \in Proc, LockAndTruncate(p) PROVE committed' = committed
        BY <4>3 DEF LockAndTruncate
      <4> QED BY <4>1, <4>2, <4>3, LogMoves
    <3> QED BY <1>0, <2>2, <3>1 DEF SInv, Holds
  <2>3. CASE pc'[q] \in {"idle", "lock"}
    BY <2>3 DEF Viewing
  <2>4. \/ \E p \in Proc : Step(p) /\ p = q
        \/ pc'[q] = pc[q] /\ run'[q] = run[q]
        \/ pc'[q] \in {"idle", "lock"}
    <3>1. run = [r \in Proc |-> run[r]]
      BY DEF IInv, Shape
    <3>2. ASSUME NEW p \in Proc, Step(p), p # q
          PROVE  pc'[q] = pc[q] /\ run'[q] = run[q]
      BY <1>2, <3>1, <3>2 DEF Step, LockAndTruncate, WriteEvents, TruncateMailbox,
         WriteMailbox, TruncateDispatch, WriteDispatch, WriteMailboxView, Goto
    <3>3. ASSUME NEW p \in Proc, Crash(p)
          PROVE  pc'[q] = "idle" \/ (pc'[q] = pc[q] /\ run'[q] = run[q])
      BY <1>2, <3>1, <3>3 DEF Crash, Goto
    <3>4. ASSUME NEW p \in Proc, NEW c \in Commands, NEW compact \in BOOLEAN,
                 Exec(p, c, compact)
          PROVE  pc'[q] = "lock" \/ (pc'[q] = pc[q] /\ run'[q] = run[q])
      BY <1>2, <3>1, <3>4 DEF Exec, Goto
    <3>5. ASSUME NEW p \in Proc, Initialise(p)
          PROVE  pc'[q] = "lock" \/ (pc'[q] = pc[q] /\ run'[q] = run[q])
      BY <1>2, <3>1, <3>5 DEF Initialise, Goto
    <3>6. CASE UNCHANGED vars
      BY <3>6 DEF vars
    <3> QED BY <3>2, <3>3, <3>4, <3>5, <3>6 DEF Next
  <2> QED BY <2>1, <2>2, <2>3, <2>4
<1> QED BY <1>1, <1>3, <1>4 DEF SInv

\* What a call has computed is what its log stands for, at each of its awaits.
THEOREM SInvariance == Spec => []SInv
BY InitSInv, NextSInv, Invariance, PTL DEF Spec

\* Every variable keeps its type.
THEOREM TypeCorrect == Spec => []TypeOK
<1>1. SInv => TypeOK
  BY DEF SInv
<1> QED BY <1>1, SInvariance, PTL

\* However calls overlap or die, and however often the log is compacted, its
\* replay skips no dispatch or authority event; and no mailbox event, until an
\* engine has worked with a stale mailbox.json.
THEOREM ReplaysWhole == Spec => []LogReplaysCleanly
<1>1. SInv /\ IInv => LogReplaysCleanly
  BY DEF SInv, IInv, LogReplaysCleanly, LogIsReadable, CleanLog
<1> QED BY <1>1, SInvariance, Invariance, PTL
-----------------------------------------------------------------------------
(* Acknowledged commands.                                                   *)

Undisturbed == mishap \cap {"writeback", "lost", "init"} = {}

Kept(c) == c \in Range(committed) \/ (c.op \in DispatchOps /\ c.on \in forgotten)

(* KInv: a command is kept from the moment its call has filled the event    *)
(* log, long before the caller is told.                                     *)
Written == {"mail", "mailWrite"} \cup Viewing

KInv ==
  Undisturbed =>
    /\ \A c \in acked : Kept(c)
    /\ \A p \in Proc : pc[p] \in Written => Kept(run[p].cmd)

\* Who changes the log that was committed, and what that call keeps of it.
LEMMA CommittedMoves ==
  ASSUME SInv, IInv, [Next]_vars, Undisturbed'
  PROVE  \/ committed' = committed /\ forgotten' = forgotten
         \/ \E p \in Proc : /\ WriteEvents(p) /\ pc[p] = "events"
                            /\ committed' = run[p].log
                            /\ forgotten' = forgotten \cup Dropped(run[p])
                            /\ run[p].base = committed /\ run[p].cmd # NoCommand
                            /\ PassesOn(run[p])
<1>1. ASSUME NEW p \in Proc, WriteEvents(p)
      PROVE  /\ pc[p] = "events" /\ committed' = run[p].log
             /\ forgotten' = forgotten \cup Dropped(run[p])
             /\ run[p].base = committed /\ run[p].cmd # NoCommand
             /\ PassesOn(run[p])
  <2>1. /\ pc[p] = "events" /\ committed' = run[p].log
        /\ forgotten' = forgotten \cup Dropped(run[p])
    BY <1>1 DEF WriteEvents
  <2>2. run[p].base = committed /\ run[p].cmd # NoCommand
    BY <1>1 DEF WriteEvents, Note, Undisturbed
  <2> QED BY <2>1, <2>2 DEF SInv, Computes
<1>2. ASSUME NEW p \in Proc, Crash(p) PROVE committed' = committed /\ forgotten' = forgotten
  BY <1>2 DEF Crash, Note, Undisturbed
<1>3. ASSUME \A p \in Proc : ~WriteEvents(p) /\ ~Crash(p)
      PROVE  committed' = committed /\ forgotten' = forgotten
  BY <1>3 DEF Next, Step, Exec, Initialise, LockAndTruncate, TruncateMailbox, WriteMailbox,
     TruncateDispatch, WriteDispatch, WriteMailboxView, vars
<1> QED BY <1>1, <1>2, <1>3

LEMMA KeptStays ==
  ASSUME SInv, IInv, [Next]_vars, Undisturbed', NEW c, Kept(c)
  PROVE  Kept(c)'
<1>1. CASE committed' = committed /\ forgotten' = forgotten
  BY <1>1 DEF Kept
<1>2. ASSUME NEW p \in Proc, committed' = run[p].log, run[p].base = committed,
             forgotten' = forgotten \cup Dropped(run[p]), PassesOn(run[p])
      PROVE  Kept(c)'
  BY <1>2 DEF Kept, PassesOn
<1> QED BY <1>1, <1>2, CommittedMoves

\* A call that has written was there already, or has written in this step.
LEMMA WrittenBefore ==
  ASSUME SInv, IInv, [Next]_vars, NEW q \in Proc, pc'[q] \in Written
  PROVE  \/ pc[q] \in Written /\ run'[q] = run[q]
         \/ WriteEvents(q)
<1>1. pc'[q] # "idle"
  BY DEF Written, Viewing
<1>2. CASE Initialise(q) \/ \E c \in Commands, compact \in BOOLEAN : Exec(q, c, compact)
  <2>1. pc'[q] = "lock"
    BY <1>2 DEF Initialise, Exec, Goto, IInv, Shape
  <2> QED BY <2>1 DEF Written, Viewing
<1>3. CASE pc[q] # "idle" /\ run'[q] = run[q]
  <2>1. pc[q] \in Written \cup {"lock", "events"}
    BY <1>3 DEF IInv, Shape, Status, Persisting, Written
  <2>2. CASE pc[q] \in {"lock", "events"}
    <3>1. CASE UNCHANGED vars
      BY <2>2, <3>1 DEF vars, Written, Viewing
    <3>2. ASSUME NEW p \in Proc, Step(p) PROVE WriteEvents(q)
      BY <2>2, <3>2 DEF Step, LockAndTruncate, WriteEvents, TruncateMailbox, WriteMailbox,
         TruncateDispatch, WriteDispatch, WriteMailboxView, Goto, IInv, Shape, Written, Viewing
    <3>3. ASSUME NEW p \in Proc, Crash(p) PROVE FALSE
      BY <2>2, <3>3 DEF Crash, Goto, IInv, Shape, Written, Viewing
    <3>4. ASSUME NEW p \in Proc, NEW c \in Commands, NEW compact \in BOOLEAN,
                 Exec(p, c, compact)
          PROVE  FALSE
      BY <2>2, <3>4 DEF Exec, Goto, IInv, Shape, Written, Viewing
    <3>5. ASSUME NEW p \in Proc, Initialise(p) PROVE FALSE
      BY <2>2, <3>5 DEF Initialise, Goto, IInv, Shape, Written, Viewing
    <3> QED BY <3>1, <3>2, <3>3, <3>4, <3>5 DEF Next
  <2> QED BY <1>3, <2>1, <2>2
<1> QED BY <1>1, <1>2, <1>3, Runs DEF SInv

LEMMA NextKInv == KInv /\ SInv /\ IInv /\ [Next]_vars => KInv'
<1> SUFFICES ASSUME KInv, SInv, IInv, [Next]_vars, Undisturbed'
             PROVE  /\ \A c \in acked' : Kept(c)'
                    /\ \A q \in Proc : pc'[q] \in Written => Kept(run[q].cmd)'
  BY DEF KInv, Kept
<1>1. Undisturbed
  BY MishapsStay DEF Undisturbed
<1>2. ASSUME NEW c \in acked' PROVE Kept(c)'
  <2>1. c \in acked \/ \E p \in Proc : pc[p] = "viewMailWrite" /\ c = run[p].cmd
    BY DEF Next, Step, Exec, Initialise, LockAndTruncate, WriteEvents, TruncateMailbox,
       WriteMailbox, TruncateDispatch, WriteDispatch, WriteMailboxView, Crash, vars
  <2>2. Kept(c)
    BY <1>1, <2>1 DEF KInv, Written, Viewing
  <2> QED BY <2>2, KeptStays
<1>3. ASSUME NEW q \in Proc, pc'[q] \in Written PROVE Kept(run[q].cmd)'
  <2>1. CASE pc[q] \in Written /\ run'[q] = run[q]
    <3>1. Kept(run[q].cmd)
      BY <1>1, <2>1 DEF KInv
    <3>2. \A c : Kept(c) => Kept(c)'
      BY KeptStays
    <3> QED BY <2>1, <3>1, <3>2 DEF Kept
  <2>2. CASE WriteEvents(q)
    <3>1. /\ committed' = run[q].log /\ forgotten' = forgotten \cup Dropped(run[q])
          /\ run' = run /\ run[q].cmd # NoCommand /\ pc[q] # "idle"
      BY <2>2 DEF WriteEvents, Note, Undisturbed
    <3>2. PassesOn(run[q])
      BY <3>1 DEF SInv, Computes
    <3> QED BY <3>1, <3>2 DEF PassesOn, Kept
  <2> QED BY <1>3, <2>1, <2>2, WrittenBefore
<1> QED BY <1>2, <1>3

\* Until a mishap what was accepted is kept by every log written later.
THEOREM KInvariance == Spec => []KInv
<1>1. Init => KInv
  BY DEF Init, KInv, Written, Viewing
<1> QED BY <1>1, NextKInv, SInvariance, Invariance, PTL DEF Spec

\* An acknowledged command is in the log, or its request is finished and was
\* compacted, until one call writes over another, one dies in the middle of
\* events.json, or init is called.
THEOREM AcknowledgedKept == Spec => []AcksAreDurable
<1>1. KInv => AcksAreDurable
  BY DEF KInv, AcksAreDurable, Undisturbed, Kept
<1> QED BY <1>1, KInvariance, PTL

\* Until then no two owners have both been told that they hold the authority:
\* both acknowledgements would be in one log, which replays cleanly.
THEOREM AuthorityExclusive == Spec => []OneAuthority
<1>1. SInv /\ KInv => OneAuthority
  <2> SUFFICES ASSUME SInv, KInv, Undisturbed, NEW c \in acked, NEW d \in acked,
                      {c.op, d.op} \subseteq {"acquire", "renew"}
               PROVE  c.on = d.on
    BY DEF OneAuthority, Undisturbed
  <2>1. c \in Range(committed) /\ d \in Range(committed)
    BY DEF KInv, Kept, DispatchOps
  <2>2. committed \in Seq(Command) /\ ReplaysCleanly(committed, {"acquire", "renew"})
    BY DEF SInv, TypeOK, CleanLog, ReplaysCleanly
  <2> QED BY <2>1, <2>2, OneOwner
<1> QED BY <1>1, KInvariance, SInvariance, PTL
-----------------------------------------------------------------------------
(* The files that others read.                                              *)

Calm == mishap \subseteq {"writeback"}

Writer(stages) == \E p \in Proc : pc[p] \in stages /\ run[p].log = committed

DispatchAgrees ==
  /\ Parses(dispatch)
  /\ \A r \in Requests :
       \/ Text(dispatch)[r] = Replay(committed).dispatch[r]
       \/ Replay(committed).dispatch[r] = "none" /\ Text(dispatch)[r] \in Finished

(* VInv: a file agrees with the log, or somebody is between truncating and  *)
(* filling it, or the call that wrote the log has yet to come to it.        *)
DispatchFollows ==
  \/ \E p \in Proc : pc[p] = "viewWrite"
  \/ Writer(Persisting \cup {"view"})
  \/ DispatchAgrees

MailboxFollows ==
  \/ \E p \in Proc : pc[p] \in {"mailWrite", "viewMailWrite"}
  \/ Writer(Persisting \cup Viewing)
  \/ mailbox = {Replay(committed).mailbox}

VInv ==
  /\ IsFiniteSet(mailbox) /\ IsFiniteSet(dispatch)
  /\ Calm /\ committed # <<>> => DispatchFollows /\ MailboxFollows

\* A file that parses after it was filled holds what its writer wrote.
LEMMA FilledParses ==
  ASSUME NEW file, NEW text, NEW filled \in Filled(file, text), IsFiniteSet(file)
  PROVE  IsFiniteSet(filled) /\ (Parses(filled) => filled = {text})
<1>1. filled = {text} \/ filled = file \cup {text}
  BY DEF Filled
<1>2. IsFiniteSet(filled) /\ text \in filled
  <2>1. IsFiniteSet(file \cup {text})
    BY FS_AddElement
  <2>2. IsFiniteSet({text})
    BY FS_Singleton
  <2> QED BY <1>1, <2>1, <2>2
<1>3. ASSUME Parses(filled) PROVE filled = {text}
  <2>1. PICK x : filled = {x}
    BY <1>2, <1>3, FS_Singleton DEF Parses
  <2> QED BY <1>2, <2>1
<1> QED BY <1>2, <1>3

LEMMA NextFinite ==
  ASSUME IsFiniteSet(mailbox), IsFiniteSet(dispatch), [Next]_vars
  PROVE  IsFiniteSet(mailbox') /\ IsFiniteSet(dispatch')
<1>1. IsFiniteSet({})
  BY FS_EmptySet
<1>2. mailbox' \in {mailbox, {}} \/ \E p \in Proc : mailbox' \in Filled(mailbox, run[p].mailbox)
  BY DEF Next, Step, Exec, Initialise, LockAndTruncate, WriteEvents, TruncateMailbox,
     WriteMailbox, TruncateDispatch, WriteDispatch, WriteMailboxView, Crash, vars
<1>3. dispatch' \in {dispatch, {}}
        \/ \E p \in Proc : dispatch' \in Filled(dispatch, run[p].dispatch)
  BY DEF Next, Step, Exec, Initialise, LockAndTruncate, WriteEvents, TruncateMailbox,
     WriteMailbox, TruncateDispatch, WriteDispatch, WriteMailboxView, Crash, vars
<1> QED BY <1>1, <1>2, <1>3, FilledParses

\* Where the calls go in a step without a mishap: on, and nobody is killed
\* once he holds the flock.
LEMMA Goes ==
  ASSUME SInv, IInv, [Next]_vars, Calm', NEW q \in Proc, pc[q] \in Persisting \cup Viewing
  PROVE  \/ pc'[q] = pc[q] /\ run'[q] = run[q]
         \/ Step(q)
<1>0. pc \in [Proc -> Status] /\ run = [r \in Proc |-> run[r]]
  BY DEF IInv, Shape
<1>1. CASE UNCHANGED vars
  BY <1>1 DEF vars
<1>2. ASSUME NEW p \in Proc, Step(p), p # q PROVE pc'[q] = pc[q] /\ run'[q] = run[q]
  BY <1>0, <1>2 DEF Step, LockAndTruncate, WriteEvents, TruncateMailbox,
     WriteMailbox, TruncateDispatch, WriteDispatch, WriteMailboxView, Goto
<1>3. ASSUME NEW p \in Proc, Crash(p) PROVE pc'[q] = pc[q] /\ run'[q] = run[q]
  <2>1. pc[p] = "lock" /\ pc' = [pc EXCEPT ![p] = "idle"] /\ run' = [run EXCEPT ![p] = NoRun]
    BY <1>3 DEF Crash, Note, Goto, Calm
  <2> QED BY <1>0, <2>1 DEF Persisting, Viewing
<1>4. ASSUME NEW p \in Proc, NEW c \in Commands, NEW compact \in BOOLEAN, Exec(p, c, compact)
      PROVE  pc'[q] = pc[q] /\ run'[q] = run[q]
  <2>1. pc[p] = "idle" /\ pc' = [pc EXCEPT ![p] = "lock"]
        /\ \A x \in Proc \ {p} : run'[x] = run[x]
    BY <1>0, <1>4 DEF Exec, Goto
  <2> QED BY <1>0, <2>1 DEF Persisting, Viewing
<1>5. ASSUME NEW p \in Proc, Initialise(p) PROVE pc'[q] = pc[q] /\ run'[q] = run[q]
  <2>1. pc[p] = "idle" /\ pc' = [pc EXCEPT ![p] = "lock"] /\ run' = [run EXCEPT ![p] = NoRun]
    BY <1>5 DEF Initialise, Goto
  <2> QED BY <1>0, <2>1 DEF Persisting, Viewing
<1> QED BY <1>1, <1>2, <1>3, <1>4, <1>5 DEF Next

\* Without a mishap, a new log has a writer that has everything still to do.
LEMMA CalmLog ==
  ASSUME SInv, IInv, [Next]_vars, Calm'
  PROVE  committed' = committed \/ Writer({"mail"})'
<1>1. ASSUME NEW p \in Proc, WriteEvents(p) PROVE Writer({"mail"})'
  BY <1>1 DEF WriteEvents, Goto, Writer, IInv, Shape
<1>2. ASSUME NEW p \in Proc, Crash(p) PROVE committed' = committed
  BY <1>2 DEF Crash, Note, Calm
<1>3. ASSUME NEW p \in Proc, LockAndTruncate(p) PROVE committed' = committed
  BY <1>3 DEF LockAndTruncate
<1> QED BY <1>1, <1>2, <1>3, LogMoves

\* The call that wrote the log goes on to the view.
LEMMA WriterGoes ==
  ASSUME SInv, IInv, [Next]_vars, Calm', committed' = committed,
         NEW q \in Proc, pc[q] \in Persisting \cup Viewing, run[q].log = committed
  PROVE  \/ /\ run'[q].log = committed'
            /\ \/ pc'[q] = pc[q]
               \/ pc[q] \in Persisting /\ pc'[q] \in Persisting \cup {"view"}
               \/ pc[q] = "view" /\ pc'[q] = "viewWrite"
         \/ WriteDispatch(q) \/ WriteMailboxView(q)
<1>0. pc \in [Proc -> Status]
  BY DEF IInv, Shape
<1>1. CASE pc'[q] = pc[q] /\ run'[q] = run[q]
  BY <1>1
<1>2. CASE Step(q)
  <2>1. CASE LockAndTruncate(q)
    BY <2>1 DEF LockAndTruncate, Persisting, Viewing
  <2>2. CASE WriteEvents(q)
    BY <1>0, <2>2 DEF WriteEvents, Goto, Persisting
  <2>3. CASE TruncateMailbox(q)
    BY <1>0, <2>3 DEF TruncateMailbox, Goto, Persisting
  <2>4. CASE WriteMailbox(q)
    <3>1. run[q].cmd # NoCommand
      <4>1. "init" \notin mishap
        BY MishapsStay DEF Calm
      <4> QED BY <2>4, <4>1 DEF WriteMailbox, SInv, Holds
    <3> QED BY <1>0, <2>4, <3>1 DEF WriteMailbox, Goto, Persisting
  <2>5. CASE TruncateDispatch(q)
    BY <1>0, <2>5 DEF TruncateDispatch, Goto
  <2> QED BY <1>2, <2>1, <2>2, <2>3, <2>4, <2>5 DEF Step
<1> QED BY <1>1, <1>2, Goes

\* What the last writer of the log puts into the view agrees with the log.
LEMMA WriterAgrees ==
  ASSUME SInv, NEW q \in Proc, pc[q] \in Viewing, run[q].log = committed
  PROVE  /\ \A r \in Requests :
              \/ run[q].dispatch[r] = Replay(committed).dispatch[r]
              \/ Replay(committed).dispatch[r] = "none" /\ run[q].dispatch[r] \in Finished
         /\ "view" \notin mishap => run[q].mailbox = Replay(committed).mailbox
BY DEF SInv, Computes, Renders, Viewing

LEMMA NextDispatchFollows ==
  ASSUME VInv, SInv, IInv, [Next]_vars, Calm', committed' # <<>>
  PROVE  DispatchFollows'
<1>0. /\ Calm /\ pc \in [Proc -> Status] /\ pc' \in [Proc -> Status]
      /\ run = [r \in Proc |-> run[r]] /\ IsFiniteSet(dispatch)
  BY MishapsStay, NextIInv DEF Calm, IInv, Shape, VInv
<1>1. CASE Writer({"mail"})'
  BY <1>1 DEF Writer, DispatchFollows, Persisting
<1>2. ASSUME committed' = committed, NEW p \in Proc, WriteDispatch(p)
      PROVE  DispatchFollows'
  <2>1. /\ pc[p] = "viewWrite" /\ dispatch' \in Filled(dispatch, run[p].dispatch)
        /\ pc' = [pc EXCEPT ![p] = "viewMailWrite"] /\ run' = run
    BY <1>2 DEF WriteDispatch, Goto
  <2>2. Parses(dispatch') /\ ~Superseded(p, Persisting \cup {"view", "viewWrite"})
    BY <1>2 DEF WriteDispatch, Note, Calm
  <2>3. dispatch' = {run[p].dispatch} /\ Text(dispatch') = run[p].dispatch
    BY <1>0, <2>1, <2>2, FilledParses DEF Text
  <2>4. CASE run[p].log = committed
    <3>1. pc[p] \in Viewing
      BY <2>1 DEF Viewing
    <3>2. DispatchAgrees'
      BY <1>2, <2>2, <2>3, <2>4, <3>1, WriterAgrees DEF DispatchAgrees
    <3> QED BY <3>2 DEF DispatchFollows
  <2>5. CASE run[p].log # committed
    <3>1. PICK q \in Proc : pc[q] \in Persisting \cup {"view", "viewWrite"} /\ run[q].log = committed
      BY <2>2, <2>5 DEF Superseded
    <3>2. q # p
      BY <2>5, <3>1
    <3>3. pc'[q] = pc[q] /\ run'[q] = run[q]
      BY <1>0, <2>1, <3>2
    <3> QED BY <1>2, <3>1, <3>3 DEF DispatchFollows, Writer
  <2> QED BY <2>4, <2>5
<1>3. ASSUME NEW p \in Proc, TruncateDispatch(p) PROVE DispatchFollows'
  BY <1>0, <1>3 DEF TruncateDispatch, Goto, DispatchFollows
<1>4. ASSUME committed' = committed, \A p \in Proc : ~WriteDispatch(p) /\ ~TruncateDispatch(p)
      PROVE  DispatchFollows'
  <2>1. dispatch' = dispatch
    BY <1>4 DEF Next, Step, Exec, Initialise, LockAndTruncate, WriteEvents, TruncateMailbox,
       WriteMailbox, WriteMailboxView, Crash, vars
  <2>2. ASSUME NEW p \in Proc, pc[p] = "viewWrite" PROVE pc'[p] = "viewWrite"
    <3>1. ~Step(p)
      BY <1>4, <2>2 DEF Step, LockAndTruncate, WriteEvents, TruncateMailbox, WriteMailbox,
         TruncateDispatch, WriteMailboxView
    <3> QED BY <2>2, <3>1, Goes DEF Viewing
  <2>3. CASE Writer(Persisting \cup {"view"})
    <3>1. PICK q \in Proc : pc[q] \in Persisting \cup {"view"} /\ run[q].log = committed
      BY <2>3 DEF Writer
    <3>2. ~WriteMailboxView(q) /\ pc[q] \in Persisting \cup Viewing
      BY <3>1 DEF WriteMailboxView, Persisting, Viewing
    <3>3. /\ run'[q].log = committed'
          /\ pc'[q] \in Persisting \cup {"view", "viewWrite"}
      BY <1>4, <3>1, <3>2, WriterGoes
    <3> QED BY <3>3 DEF DispatchFollows, Writer
  <2>4. CASE DispatchAgrees
    BY <1>4, <2>1, <2>4 DEF DispatchAgrees, DispatchFollows
  <2>5. DispatchFollows
    BY <1>0, <1>4 DEF VInv
  <2> QED BY <2>2, <2>3, <2>4, <2>5 DEF DispatchFollows
<1> QED BY <1>1, <1>2, <1>3, <1>4, CalmLog

LEMMA NextMailboxFollows ==
  ASSUME VInv, SInv, IInv, [Next]_vars, Calm', committed' # <<>>
  PROVE  MailboxFollows'
<1>0. /\ Calm /\ pc \in [Proc -> Status] /\ pc' \in [Proc -> Status]
      /\ run = [r \in Proc |-> run[r]] /\ IsFiniteSet(mailbox)
  BY MishapsStay, NextIInv DEF Calm, IInv, Shape, VInv
<1>1. CASE Writer({"mail"})'
  BY <1>1 DEF Writer, MailboxFollows, Persisting
<1>2. ASSUME committed' = committed, NEW p \in Proc, WriteMailboxView(p)
      PROVE  MailboxFollows'
  <2>1. /\ pc[p] = "viewMailWrite" /\ mailbox' \in Filled(mailbox, run[p].mailbox)
        /\ pc' = [pc EXCEPT ![p] = "idle"] /\ run' = [run EXCEPT ![p] = NoRun]
    BY <1>2 DEF WriteMailboxView, Goto
  <2>2. Parses(mailbox') /\ ~Superseded(p, Persisting \cup Viewing)
    BY <1>2 DEF WriteMailboxView, Note, Calm
  <2>3. mailbox' = {run[p].mailbox}
    BY <1>0, <2>1, <2>2, FilledParses
  <2>4. CASE run[p].log = committed
    <3>1. pc[p] \in Viewing /\ "view" \notin mishap
      BY <1>0, <2>1 DEF Viewing, Calm
    <3>2. run[p].mailbox = Replay(committed).mailbox
      BY <2>4, <3>1, WriterAgrees
    <3> QED BY <1>2, <2>3, <3>2 DEF MailboxFollows
  <2>5. CASE run[p].log # committed
    <3>1. PICK q \in Proc : pc[q] \in Persisting \cup Viewing /\ run[q].log = committed
      BY <2>2, <2>5 DEF Superseded
    <3>2. q # p
      BY <2>5, <3>1
    <3>3. pc'[q] = pc[q] /\ run'[q] = run[q]
      BY <1>0, <2>1, <3>2
    <3> QED BY <1>2, <3>1, <3>3 DEF MailboxFollows, Writer
  <2> QED BY <2>4, <2>5
<1>3. ASSUME NEW p \in Proc, TruncateMailbox(p) \/ WriteDispatch(p) PROVE MailboxFollows'
  BY <1>0, <1>3 DEF TruncateMailbox, WriteDispatch, Goto, MailboxFollows
<1>4. ASSUME committed' = committed, NEW p \in Proc, WriteMailbox(p) PROVE MailboxFollows'
  <2>1. pc[p] = "mailWrite" /\ run[p].log = committed /\ run[p].cmd # NoCommand
    BY <1>0, <1>4 DEF WriteMailbox, SInv, Holds, Calm
  <2>2. pc'[p] = "view" /\ run'[p] = run[p]
    BY <1>0, <1>4, <2>1 DEF WriteMailbox, Goto
  <2> QED BY <1>4, <2>1, <2>2 DEF MailboxFollows, Writer, Viewing
<1>5. ASSUME committed' = committed,
             \A p \in Proc : /\ ~TruncateMailbox(p) /\ ~WriteMailbox(p)
                             /\ ~WriteDispatch(p) /\ ~WriteMailboxView(p)
      PROVE  MailboxFollows'
  <2>1. mailbox' = mailbox
    BY <1>5 DEF Next, Step, Exec, Initialise, LockAndTruncate, WriteEvents,
       TruncateDispatch, Crash, vars
  <2>2. ASSUME NEW p \in Proc, pc[p] \in {"mailWrite", "viewMailWrite"} PROVE pc'[p] = pc[p]
    <3>1. ~Step(p)
      BY <1>5, <2>2 DEF Step, LockAndTruncate, WriteEvents, TruncateDispatch
    <3> QED BY <2>2, <3>1, Goes DEF Viewing, Persisting
  <2>3. CASE Writer(Persisting \cup Viewing)
    <3>1. PICK q \in Proc : pc[q] \in Persisting \cup Viewing /\ run[q].log = committed
      BY <2>3 DEF Writer
    <3>2. run'[q].log = committed' /\ pc'[q] \in Persisting \cup Viewing
      BY <1>5, <3>1, WriterGoes DEF Viewing
    <3> QED BY <3>2 DEF MailboxFollows, Writer
  <2>4. CASE mailbox = {Replay(committed).mailbox}
    BY <1>5, <2>1, <2>4 DEF MailboxFollows
  <2>5. MailboxFollows
    BY <1>0, <1>5 DEF VInv
  <2> QED BY <2>2, <2>3, <2>4, <2>5 DEF MailboxFollows
<1> QED BY <1>1, <1>2, <1>3, <1>4, <1>5, CalmLog

LEMMA InitVInv == Init => VInv
<1> SUFFICES ASSUME Init PROVE VInv
  OBVIOUS
<1>1. PICK log \in InitLogs :
        /\ committed = log
        /\ mailbox = {Replay(log).mailbox} /\ dispatch = {Replay(log).dispatch}
  BY DEF Init
<1>2. IsFiniteSet(mailbox) /\ IsFiniteSet(dispatch)
  BY <1>1, FS_Singleton
<1>3. DispatchAgrees
  <2>1. Cardinality(dispatch) = 1 /\ Text(dispatch) = Replay(log).dispatch
    BY <1>1, FS_Singleton DEF Text
  <2> QED BY <1>1, <2>1 DEF DispatchAgrees, Parses
<1> QED BY <1>1, <1>2, <1>3 DEF VInv, DispatchFollows, MailboxFollows

\* Both files of the view follow the log that was committed last.
THEOREM VInvariance == Spec => []VInv
<1>1. VInv /\ SInv /\ IInv /\ [Next]_vars => VInv'
  BY NextFinite, NextDispatchFollows, NextMailboxFollows DEF VInv
<1> QED BY <1>1, InitVInv, SInvariance, Invariance, PTL DEF Spec

\* When no call runs, mailbox.json and dispatch.json agree with the event log,
\* whatever calls overlapped before, lost updates included.
THEOREM ViewsCurrent == Spec => []QuietViewIsCurrent
<1>1. VInv => QuietViewIsCurrent
  <2> SUFFICES ASSUME VInv, \A p \in Proc : pc[p] = "idle", Calm, committed # <<>>
               PROVE  mailbox = {Replay(committed).mailbox} /\ DispatchAgrees
    BY DEF QuietViewIsCurrent, Calm, DispatchAgrees
  <2>1. \A p \in Proc : pc[p] \notin Persisting \cup Viewing
    BY DEF Persisting, Viewing
  <2> QED BY <2>1 DEF VInv, DispatchFollows, MailboxFollows, Writer
<1> QED BY <1>1, VInvariance, PTL
=============================================================================
