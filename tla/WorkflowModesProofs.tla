------------------------ MODULE WorkflowModesProofs ------------------------
(***************************************************************************)
(* Theorems about WorkflowModes, for any callers, modes and sessions and   *)
(* any number of calls and crashes.  The invariants, each needed for the   *)
(* next:                                                                   *)
(*   AInv      types, shapes of the calls, and that a call alone is alone; *)
(*   Clearing  what a clearing call that is alone has cleared so far;      *)
(*   Peace     before any mishap: how far lists and files agree;           *)
(*   Rest      after the one crash CompatibleModes speaks of: which        *)
(*             entries of the root's list may be stale.                    *)
(***************************************************************************)
EXTENDS WorkflowModes, TLAPS

(* A call that no other has overlapped.                                     *)
Solo(p) == Busy(p) /\ run[p].alone

-----------------------------------------------------------------------------
(* What holds of every call, whatever goes on beside it.                    *)
Shape(r) ==
  /\ r.mode \notin r.todo
  /\ r.pc = "file" => r.todo = {}
  /\ r.pc = "unlink" => r.op = "clearAll"
  /\ r.pc = "own" => r.scope # Root
  /\ r.pc = "refresh" => r.scope = Root
  /\ r.pc \in {"root", "own", "refresh"} => r.left \subseteq Session
  /\ r.pc \in {"root", "own"} /\ r.scope # Root => r.own \subseteq Mode \X {r.scope} /\ r.left = {}
  /\ r.op = "clearAll" => r.scope = Root
  /\ r.op \in {"clear", "clearAll"} =>
       ~r.on /\ r.about = r.mode /\ r.todo = {} /\ r.pc \notin {"complete", "file"}

Shapes == \A p \in Caller : Busy(p) => Shape(run[p])

Sole == \A p, q \in Caller : Solo(p) /\ Busy(q) => p = q

AInv == TypeOK /\ Shapes /\ Sole

(* What a call keeps from one step to the next.                             *)
SameCall(r, s) ==
  /\ r.op = s.op /\ r.mode = s.mode /\ r.scope = s.scope
  /\ r.on = s.on /\ r.alone = s.alone

-----------------------------------------------------------------------------
(* What a clearing call has achieved so far.                                *)
ClearedFiles(r) ==
  CASE r.op = "clear"    -> file[r.scope][r.mode] \in {"none", "off"}
    [] r.op = "clearAll" ->
         \A sc \in (IF r.pc = "unlink" THEN Scope \ r.left ELSE Scope) :
           file[sc][r.mode] = "none"

ClearedLists(r) ==
  LET kept == IF r.scope = Root THEN r.root ELSE r.own IN
  /\ r.pc \in {"root", "own", "refresh"} => <<r.mode, r.scope>> \notin kept
  /\ r.op = "clearAll" /\ r.pc \in {"root", "refresh"} => \A e \in r.root : e[1] # r.mode
  /\ r.op = "clearAll" /\ r.pc = "root" => r.left = Session
  /\ r.op = "clearAll" /\ r.pc = "refresh" =>
       \A sc \in Scope \ r.left : <<r.mode, sc>> \notin copy[sc]
  /\ r.pc = "refresh" => <<r.mode, Root>> \notin copy[Root]

Clearing == \A p \in Caller :
  Solo(p) /\ run[p].op \in {"clear", "clearAll"} =>
    ClearedFiles(run[p]) /\ ClearedLists(run[p])

-----------------------------------------------------------------------------
(* How far lists and files agree: what list c says of scope sc, mode by      *)
(* mode, apart from the modes in but; and when c has all that d lists of it. *)
Lists(c, sc, but) ==
  \A m \in Mode \ but : <<m, sc>> \in c <=> file[sc][m] = "on"
Covers(c, d, sc) == \A m \in Mode : <<m, sc>> \in d => <<m, sc>> \in c

Agree(sc, but) == Lists(copy[sc], sc, but)
Mirrored(s) == Covers(copy[s], copy[Root], s)

AllAgree ==
  /\ \A sc \in Scope : Agree(sc, {})
  /\ \A s \in Session : Mirrored(s)

(* The modes whose entries in scope sc the call of r has yet to see to.     *)
Due(r, sc) == IF r.op = "clearAll" \/ sc = r.scope THEN {r.about} ELSE {}

(* The new root list of a call in the root scope hands the sessions their   *)
(* entries on, without those that a clearing of all sessions removes.       *)
HandsOn(r) ==
  \A s \in Session, m \in Mode :
    <<m, s>> \in r.root <=> <<m, s>> \in r.own /\ (r.op = "clearAll" => m # r.mode)

FileFits(r) ==
  (file[r.scope][r.about] = "on") <=> (r.about = r.mode /\ r.on)

NoFile(r) == r.op = "clearAll" => \A sc \in Scope : file[sc][r.mode] = "none"

AtSync(r) ==
  /\ \A sc \in Scope : Agree(sc, Due(r, sc))
  /\ \A s \in Session : Mirrored(s)
  /\ FileFits(r) /\ NoFile(r)
  /\ r.op = "write" /\ r.about = r.mode => file[r.scope][r.mode] \in {"on", "off"}

AtRootOfSession(r) ==
  /\ \A sc \in Scope \ {r.scope} : Agree(sc, {})
  /\ Lists(r.own, r.scope, {})
  /\ FileFits(r)
  /\ \A m \in Mode : <<m, Root>> \in r.root <=> <<m, Root>> \in copy[Root]
  /\ \A s \in Session \ {r.scope} : Covers(copy[s], r.root, s)
  /\ Covers(r.own, r.root, r.scope)
  /\ \A s \in Session : Mirrored(s)

AtRoot(r) ==
  /\ \A s \in Session : Agree(s, Due(r, s)) /\ Mirrored(s)
  /\ FileFits(r) /\ NoFile(r)
  /\ r.own = copy[Root] /\ r.left = Session
  /\ Lists(r.root, Root, {}) /\ HandsOn(r)

AtOwn(r) ==
  /\ \A sc \in Scope \ {r.scope} : Agree(sc, {})
  /\ Lists(r.own, r.scope, {})
  /\ FileFits(r)
  /\ \A s \in Session \ {r.scope} : Mirrored(s)
  /\ Covers(r.own, copy[Root], r.scope)

AtRefresh(r) ==
  /\ FileFits(r) /\ NoFile(r)
  /\ copy[Root] = r.root /\ Agree(Root, {}) /\ HandsOn(r)
  /\ \A s \in Session :
       /\ s \in r.left => Agree(s, Due(r, s)) /\ Covers(copy[s], r.own, s)
       /\ s \notin r.left => Agree(s, {}) /\ Mirrored(s)

Knows(r) ==
  /\ r.pc \in {"complete", "file"} => AllAgree
  /\ r.pc = "unlink" => /\ \A sc \in Scope : Agree(sc, {r.mode})
                        /\ \A s \in Session : Mirrored(s)
                        /\ \A sc \in Scope \ r.left : file[sc][r.mode] = "none"
  /\ r.pc = "sync" => AtSync(r)
  /\ r.pc = "root" => IF r.scope = Root THEN AtRoot(r) ELSE AtRootOfSession(r)
  /\ r.pc = "own" => AtOwn(r)
  /\ r.pc = "refresh" => AtRefresh(r)

-----------------------------------------------------------------------------
(* Which modes a call may still make active.                                *)
Leaving(r) ==
  r.todo \cup (IF r.pc \in {"complete", "file"} \/ r.about = r.mode THEN {} ELSE {r.about})

Fits(r) ==
  (\/ r.pc = "complete"
   \/ r.pc = "file" /\ r.on
   \/ r.pc \in {"sync", "root", "own", "refresh"} /\ r.about # r.mode) =>
    Compatible((Visible(r.scope) \ Leaving(r)) \cup {r.mode})

AllFit == \A sc \in Scope : Compatible(Visible(sc))

(* What is known of the call of p, or once it has ended.                     *)
Known(p) ==
  /\ AllFit
  /\ IF Busy(p) THEN Knows(run[p]) /\ Fits(run[p]) ELSE AllAgree

Peace ==
  mishap = {} =>
    /\ AllFit
    /\ (\A p \in Caller : ~Busy(p)) => AllAgree
    /\ \A p \in Caller : Solo(p) => Known(p)

-----------------------------------------------------------------------------
(* What is left of all this when a caller has died: every mode that the      *)
(* root's list names for a scope is still visible there, apart from those in *)
(* but.  A list may now name modes that have ended, and files may be torn.   *)
Backed(c, sc, but) == \A m \in Mode \ but : <<m, sc>> \in c => m \in Visible(sc)

KeepsRoot(r) ==
  /\ \A sc \in Scope : Backed(r.root, sc, {})
  /\ r.about # r.mode => <<r.about, Root>> \notin r.root

KeepsSession(r, root) ==
  /\ Backed(r.own, r.scope, {}) /\ Covers(r.own, root, r.scope)
  /\ \A sc \in Scope \ {r.scope} : Backed(root, sc, {})
  /\ r.about # r.mode => <<r.about, r.scope>> \notin r.own

Holds(r) ==
  /\ r.pc \in {"complete", "file"} => \A sc \in Scope : Backed(copy[Root], sc, {})
  /\ r.pc = "unlink" =>
       /\ \A sc \in Scope : Backed(copy[Root], sc, {r.mode})
       /\ \A sc \in Scope \ r.left : file[sc][r.mode] = "none"
  /\ r.pc = "sync" =>
       /\ \A sc \in Scope : Backed(copy[Root], sc, Due(r, sc))
       /\ r.op = "write" /\ r.about = r.mode => file[r.scope][r.mode] \in {"on", "off"}
  /\ r.pc = "root" => IF r.scope = Root THEN KeepsRoot(r) ELSE KeepsSession(r, r.root)
  /\ r.pc = "own" => KeepsSession(r, copy[Root])
  /\ r.pc = "refresh" => KeepsRoot(r) /\ copy[Root] = r.root
  /\ r.pc \in {"sync", "root", "own", "refresh"} => FileFits(r)

AllBacked == \A sc \in Scope : Backed(copy[Root], sc, {})

Steady(p) ==
  /\ AllFit
  /\ IF Busy(p) THEN Holds(run[p]) /\ Fits(run[p]) ELSE AllBacked

Counted == "crash" \in mishap => crashes # 0

Rest ==
  mishap = {"crash"} /\ crashes <= 1 =>
    /\ AllFit
    /\ (\A p \in Caller : ~Busy(p)) => AllBacked
    /\ \A p \in Caller : Solo(p) => Steady(p)

-----------------------------------------------------------------------------
(* Types, shapes and soleness.                                              *)
LEMMA Records ==
  /\ NoRun.pc = "idle"
  /\ \A r \in Run : r.pc # "idle" /\ r # NoRun
BY DEF NoRun, Run

LEMMA BusyIsRun ==
  ASSUME TypeOK, NEW p \in Caller
  PROVE  /\ Busy(p) <=> run[p] \in Run
         /\ ~Busy(p) <=> run[p] = NoRun
<1>1. run[p] \in Run \cup {NoRun}
  BY DEF TypeOK
<1> QED BY <1>1, Records DEF Busy

LEMMA BeginTyped ==
  ASSUME AInv, NEW p \in Caller, NEW r \in Run, Shape(r), Begin(p, r)
  PROVE  /\ run' \in [Caller -> Run \cup {NoRun}] /\ Shapes' /\ Sole'
         /\ calls' \in 0 .. MaxCalls
<1>1. calls' \in 0 .. MaxCalls
  BY BoundsAssumption DEF Begin, AInv, TypeOK
<1>2. Alone(p) \in BOOLEAN
  BY DEF Alone
<1> DEFINE mine == [r EXCEPT !.alone = Alone(p)]
           other(q) == [run[q] EXCEPT !.alone = FALSE]
<1>3. mine \in Run /\ Shape(mine) /\ mine.alone = Alone(p)
  BY <1>2 DEF Run, Shape
<1>4. \A q \in Caller : Busy(q) =>
        other(q) \in Run /\ Shape(other(q)) /\ other(q).alone = FALSE
  <2> SUFFICES ASSUME NEW q \in Caller, Busy(q)
               PROVE  other(q) \in Run /\ Shape(other(q)) /\ other(q).alone = FALSE
    OBVIOUS
  <2>1. run[q] \in Run /\ Shape(run[q])
    BY BusyIsRun DEF AInv, Shapes
  <2>2. other(q) \in Run /\ other(q).alone = FALSE
    BY <2>1 DEF Run
  <2>3. Shape(other(q))
    <3>1. /\ other(q).pc = run[q].pc /\ other(q).op = run[q].op
          /\ other(q).mode = run[q].mode /\ other(q).about = run[q].about
          /\ other(q).scope = run[q].scope /\ other(q).on = run[q].on
          /\ other(q).todo = run[q].todo /\ other(q).own = run[q].own
          /\ other(q).left = run[q].left
      BY <2>1 DEF Run
    <3> HIDE DEF other
    <3> QED BY <2>1, <3>1 DEF Shape
  <2> QED BY <2>2, <2>3
<1>5. run' = [q \in Caller |-> IF q = p THEN mine ELSE IF Busy(q) THEN other(q) ELSE run[q]]
  BY DEF Begin
<1> HIDE DEF mine, other
<1>6. run' \in [Caller -> Run \cup {NoRun}]
  BY <1>3, <1>4, <1>5, BusyIsRun DEF AInv
<1>7. Shapes'
  BY <1>3, <1>4, <1>5, Records DEF Shapes, Busy, AInv
<1>8. Sole'
  BY <1>3, <1>4, <1>5, Records DEF Sole, Solo, Busy, Alone
<1> QED BY <1>1, <1>6, <1>7, <1>8

LEMMA GotoTyped ==
  ASSUME AInv, NEW p \in Caller, Busy(p), NEW r \in Run \cup {NoRun}, Goto(p, r),
         r \in Run => Shape(r) /\ r.alone = run[p].alone
  PROVE  /\ run' \in [Caller -> Run \cup {NoRun}] /\ Shapes' /\ Sole'
         /\ mishap' \subseteq {"race", "crash", "borrowed"}
<1>1. run' = [run EXCEPT ![p] = r] /\ run \in [Caller -> Run \cup {NoRun}]
  BY DEF Goto, AInv, TypeOK
<1>2. run' \in [Caller -> Run \cup {NoRun}]
  BY <1>1
<1>3. Shapes'
  BY <1>1, Records DEF Shapes, Busy, AInv
<1>4. Sole'
  BY <1>1, Records DEF Sole, Solo, Busy, AInv
<1>5. mishap' \subseteq {"race", "crash", "borrowed"}
  BY DEF Goto, AInv, TypeOK
<1> QED BY <1>2, <1>3, <1>4, <1>5

LEMMA SeenTyped ==
  ASSUME AInv, NEW sc \in Scope, NEW c \in Seen(sc)
  PROVE  c \in SUBSET Entry /\ (sc # Root => c \subseteq Mode \X {sc})
BY DEF AInv, TypeOK, Seen, Scope

LEMMA RunFields ==
  ASSUME NEW r \in Run
  PROVE  /\ r.mode \in Mode /\ r.about \in Mode /\ r.scope \in Scope
         /\ r.on \in BOOLEAN /\ r.todo \subseteq Mode /\ r.root \subseteq Entry
         /\ r.own \subseteq Entry /\ r.left \subseteq Scope /\ r.alone \in BOOLEAN
         /\ r.pc \in {"complete", "file", "unlink", "sync", "root", "own", "refresh"}
         /\ r.op \in {"start", "write", "update", "clear", "clearAll"}
BY DEF Run

LEMMA AfterTyped ==
  ASSUME NEW r \in Run, Shape(r)
  PROVE  /\ After(r) \in Run \cup {NoRun}
         /\ After(r) \in Run => Shape(After(r)) /\ After(r).alone = r.alone
         /\ After(r) # NoRun => SameCall(After(r), r)
<1>1. CASE r.about = r.mode
  BY <1>1, Records DEF After
<1>2. CASE r.about # r.mode
  <2>1. After(r) \in Run /\ SameCall(After(r), r)
    BY <1>2 DEF After, Run, SameCall
  <2>2. Shape(After(r))
    BY <1>2 DEF After, Run, Shape
  <2> QED BY <2>1, <2>2 DEF SameCall
<1> QED BY <1>1, <1>2

LEMMA BegunTyped ==
  ASSUME NEW op \in {"start", "write", "update", "clear", "clearAll"},
         NEW m \in Mode, NEW sc \in Scope, NEW on \in BOOLEAN
  PROVE  /\ Begun(op, m, sc, on) \in Run
         /\ op \in {"start", "write", "update"} => Shape(Begun(op, m, sc, on))
BY DEF Begun, Run, Shape

LEMMA StartTyped ==
  ASSUME AInv, NEW p \in Caller, NEW op \in {"start", "write"}, NEW m \in Mode,
         NEW sc \in Scope, Start(p, op, m, sc)
  PROVE  AInv'
<1>1. PICK c \in Seen(sc) :
        LET current == Listed(c, sc) \cup FilesOn(sc)
            todo == Completed(current, m)
        IN Begin(p, [Begun(op, m, sc, TRUE) EXCEPT
                       !.pc = IF todo = {} THEN "file" ELSE "complete",
                       !.todo = todo])
  BY DEF Start
<1> DEFINE todo == Completed(Listed(c, sc) \cup FilesOn(sc), m)
           r == [Begun(op, m, sc, TRUE) EXCEPT
                   !.pc = IF todo = {} THEN "file" ELSE "complete", !.todo = todo]
<1>2. todo \in SUBSET Mode /\ m \notin todo
  BY DEF Completed, Listed, FilesOn
<1>3. Begin(p, r)
  BY <1>1
<1> HIDE DEF todo
<1>4. r \in Run /\ Shape(r)
  BY <1>2 DEF Begun, Run, Shape
<1> HIDE DEF r
<1>5. /\ run' \in [Caller -> Run \cup {NoRun}] /\ Shapes' /\ Sole'
      /\ calls' \in 0 .. MaxCalls
  BY <1>3, <1>4, BeginTyped
<1> QED BY <1>5 DEF AInv, TypeOK, Start

LEMMA ChangeTyped ==
  ASSUME AInv, NEW p \in Caller, NEW m \in Mode, NEW sc \in Scope, NEW keep \in BOOLEAN,
         Deactivate(p, m, sc) \/ Update(p, m, sc, keep)
  PROVE  AInv'
<1>1. PICK op \in {"write", "update"}, on \in BOOLEAN :
        /\ Begin(p, Begun(op, m, sc, on))
        /\ UNCHANGED <<file, copy, crashes>>
        /\ mishap' \subseteq mishap \cup {"borrowed"}
  BY DEF Deactivate, Update
<1>2. Begun(op, m, sc, on) \in Run /\ Shape(Begun(op, m, sc, on))
  BY BegunTyped
<1>3. /\ run' \in [Caller -> Run \cup {NoRun}] /\ Shapes' /\ Sole'
      /\ calls' \in 0 .. MaxCalls
  BY <1>1, <1>2, BeginTyped
<1> QED BY <1>1, <1>3 DEF AInv, TypeOK

LEMMA ClearTyped ==
  ASSUME AInv, NEW p \in Caller, NEW m \in Mode, NEW sc \in Scope, Clear(p, m, sc)
  PROVE  AInv'
<1> DEFINE r == [Begun("clear", m, sc, FALSE) EXCEPT !.pc = "sync"]
<1>1. r \in Run /\ Shape(r)
  BY DEF Begun, Run, Shape
<1>2. Begin(p, r)
  BY DEF Clear
<1> HIDE DEF r
<1>3. /\ run' \in [Caller -> Run \cup {NoRun}] /\ Shapes' /\ Sole'
      /\ calls' \in 0 .. MaxCalls
  BY <1>1, <1>2, BeginTyped
<1>4. file' \in [Scope -> [Mode -> {"none", "on", "off", "torn"}]]
  BY DEF Clear, AInv, TypeOK
<1>5. mishap' \subseteq {"race", "crash", "borrowed"}
  BY DEF Clear, AInv, TypeOK
<1> QED BY <1>3, <1>4, <1>5 DEF AInv, TypeOK, Clear

LEMMA ClearAllTyped ==
  ASSUME AInv, NEW p \in Caller, NEW m \in Mode, ClearAll(p, m)
  PROVE  AInv'
<1> DEFINE r == [Begun("clearAll", m, Root, FALSE) EXCEPT !.pc = "unlink", !.left = Scope]
<1>1. r \in Run /\ Shape(r)
  BY DEF Begun, Run, Shape, Scope
<1>2. Begin(p, r)
  BY DEF ClearAll
<1> HIDE DEF r
<1>3. /\ run' \in [Caller -> Run \cup {NoRun}] /\ Shapes' /\ Sole'
      /\ calls' \in 0 .. MaxCalls
  BY <1>1, <1>2, BeginTyped
<1> QED BY <1>3 DEF AInv, TypeOK, ClearAll

LEMMA UnlinkTyped ==
  ASSUME AInv, NEW p \in Caller, Unlink(p)
  PROVE  AInv'
<1>1. Busy(p) /\ run[p] \in Run /\ Shape(run[p])
  BY BusyIsRun DEF Unlink, At, Busy, AInv, Shapes
<1>2. PICK sc \in run[p].left :
        /\ file' = [file EXCEPT ![sc][run[p].mode] = "none"]
        /\ Goto(p, [run[p] EXCEPT !.left = run[p].left \ {sc},
                      !.pc = IF run[p].left \ {sc} = {} THEN "sync" ELSE "unlink"])
  BY DEF Unlink
<1> DEFINE r == [run[p] EXCEPT !.left = run[p].left \ {sc},
                      !.pc = IF run[p].left \ {sc} = {} THEN "sync" ELSE "unlink"]
<1>3. r \in Run /\ Shape(r) /\ r.alone = run[p].alone
  BY <1>1 DEF Run, Shape, Unlink, At
<1>4. Goto(p, r)
  BY <1>2
<1> HIDE DEF r
<1>5. /\ run' \in [Caller -> Run \cup {NoRun}] /\ Shapes' /\ Sole'
      /\ mishap' \subseteq {"race", "crash", "borrowed"}
  BY <1>1, <1>3, <1>4, GotoTyped
<1>6. file' \in [Scope -> [Mode -> {"none", "on", "off", "torn"}]]
  BY <1>2 DEF AInv, TypeOK
<1> QED BY <1>5, <1>6 DEF AInv, TypeOK, Unlink

LEMMA CompleteTyped ==
  ASSUME AInv, NEW p \in Caller, Complete(p)
  PROVE  AInv'
<1>1. Busy(p) /\ run[p] \in Run /\ Shape(run[p])
  BY BusyIsRun DEF Complete, At, Busy, AInv, Shapes
<1>2. PICK a \in run[p].todo :
        /\ file' = [file EXCEPT ![run[p].scope][a] = IF @ = "on" THEN "off" ELSE @]
        /\ Goto(p, [run[p] EXCEPT !.pc = "sync", !.about = a, !.todo = @ \ {a}])
  BY DEF Complete
<1> DEFINE r == [run[p] EXCEPT !.pc = "sync", !.about = a, !.todo = @ \ {a}]
<1>3. r \in Run /\ Shape(r) /\ r.alone = run[p].alone
  BY <1>1 DEF Run, Shape, Complete, At
<1>4. Goto(p, r)
  BY <1>2
<1> HIDE DEF r
<1>5. /\ run' \in [Caller -> Run \cup {NoRun}] /\ Shapes' /\ Sole'
      /\ mishap' \subseteq {"race", "crash", "borrowed"}
  BY <1>1, <1>3, <1>4, GotoTyped
<1>6. file' \in [Scope -> [Mode -> {"none", "on", "off", "torn"}]]
  <2> run[p].scope \in Scope /\ a \in Mode
    BY <1>1, RunFields
  <2> QED BY <1>2 DEF AInv, TypeOK
<1> QED BY <1>5, <1>6 DEF AInv, TypeOK, Complete

LEMMA WriteFileTyped ==
  ASSUME AInv, NEW p \in Caller, WriteFile(p)
  PROVE  AInv'
<1>1. Busy(p) /\ run[p] \in Run /\ Shape(run[p])
  BY BusyIsRun DEF WriteFile, At, Busy, AInv, Shapes
<1> DEFINE r == [run[p] EXCEPT !.pc = "sync", !.about = run[p].mode]
<1>3. r \in Run /\ Shape(r) /\ r.alone = run[p].alone
  BY <1>1 DEF Run, Shape, WriteFile, At
<1>4. Goto(p, r)
  BY DEF WriteFile
<1> HIDE DEF r
<1>5. /\ run' \in [Caller -> Run \cup {NoRun}] /\ Shapes' /\ Sole'
      /\ mishap' \subseteq {"race", "crash", "borrowed"}
  BY <1>1, <1>3, <1>4, GotoTyped
<1>6. file' \in [Scope -> [Mode -> {"none", "on", "off", "torn"}]]
  BY <1>1, RunFields DEF WriteFile, AInv, TypeOK
<1> QED BY <1>5, <1>6 DEF AInv, TypeOK, WriteFile

LEMMA NextTyped ==
  ASSUME NEW sc \in Scope, NEW m \in Mode, NEW active \in BOOLEAN,
         NEW root \in SUBSET Entry, NEW own \in SUBSET Entry
  PROVE  /\ NextRoot(root, own, m, sc, active) \in SUBSET Entry
         /\ NextOwn(root, own, m, sc, active) \in SUBSET Entry
         /\ own \subseteq Mode \X {sc} =>
              NextOwn(root, own, m, sc, active) \subseteq Mode \X {sc}
<1>1. Added(m, sc, active) \subseteq Mode \X {sc} /\ Added(m, Root, active) \subseteq Entry
  BY DEF Added, Entry, Scope
<1>2. Own(root, sc) \subseteq Mode \X {sc}
  BY DEF Own, Entry
<1>3. Mode \X {sc} \subseteq Entry
  BY DEF Entry
<1>4. NextRoot(root, own, m, sc, active) \in SUBSET Entry
  BY <1>1, <1>3 DEF NextRoot, Entry
<1> QED BY <1>1, <1>2, <1>3, <1>4 DEF NextOwn

LEMMA RootWithoutTyped ==
  ASSUME NEW root \in SUBSET Entry, NEW m \in Mode
  PROVE  RootWithout(root, m) \in SUBSET Entry
BY DEF RootWithout

LEMMA SyncTyped ==
  ASSUME AInv, NEW p \in Caller, Sync(p)
  PROVE  AInv'
<1>1. Busy(p) /\ run[p] \in Run /\ Shape(run[p]) /\ run[p].pc = "sync"
  BY BusyIsRun DEF Sync, At, Busy, AInv, Shapes
<1> DEFINE r == run[p]
<1>2. PICK root \in Seen(Root), own \in Seen(r.scope) :
        \/ Goto(p, NoRun)
        \/ Goto(p, After(r))
        \/ Goto(p, [r EXCEPT
             !.pc = "root",
             !.root = IF r.op = "clearAll" THEN RootWithout(root, r.about)
                      ELSE NextRoot(root, own, r.about, r.scope, Active(r)),
             !.own = IF r.scope = Root THEN root
                     ELSE NextOwn(root, own, r.about, r.scope, Active(r)),
             !.left = IF r.scope = Root THEN Session ELSE {}])
  BY DEF Sync
<1> DEFINE nextRoot == IF r.op = "clearAll" THEN RootWithout(root, r.about)
                       ELSE NextRoot(root, own, r.about, r.scope, Active(r))
           nextOwn == IF r.scope = Root THEN root
                      ELSE NextOwn(root, own, r.about, r.scope, Active(r))
           next == [r EXCEPT !.pc = "root", !.root = nextRoot, !.own = nextOwn,
                             !.left = IF r.scope = Root THEN Session ELSE {}]
<1>3. r.scope \in Scope /\ r.about \in Mode /\ Root \in Scope /\ Session \subseteq Scope
  BY <1>1, RunFields DEF Scope
<1>4. Active(r) \in BOOLEAN
  BY <1>1, <1>3, RunFields DEF Active
<1>5. root \in SUBSET Entry /\ own \in SUBSET Entry
      /\ (r.scope # Root => own \subseteq Mode \X {r.scope})
  BY <1>3, SeenTyped
<1>6. nextRoot \in SUBSET Entry /\ nextOwn \in SUBSET Entry
      /\ (r.scope # Root => nextOwn \subseteq Mode \X {r.scope})
  BY <1>3, <1>4, <1>5, NextTyped, RootWithoutTyped
<1> HIDE DEF nextRoot, nextOwn
<1>7. next \in Run /\ Shape(next) /\ next.alone = r.alone
  BY <1>1, <1>3, <1>6 DEF Run, Shape
<1>8. After(r) \in Run \cup {NoRun} /\ (After(r) \in Run => Shape(After(r)) /\ After(r).alone = r.alone)
  BY <1>1, AfterTyped
<1>9. Goto(p, NoRun) \/ Goto(p, After(r)) \/ Goto(p, next)
  BY <1>2 DEF nextRoot, nextOwn
<1>10. /\ run' \in [Caller -> Run \cup {NoRun}] /\ Shapes' /\ Sole'
       /\ mishap' \subseteq {"race", "crash", "borrowed"}
  <2> HIDE DEF next, r
  <2>1. CASE Goto(p, NoRun)
    <3> NoRun \notin Run
      BY Records
    <3> QED BY <1>1, <2>1, GotoTyped
  <2>2. CASE Goto(p, After(r))
    BY <1>1, <1>8, <2>2, GotoTyped DEF r
  <2>3. CASE Goto(p, next)
    BY <1>1, <1>7, <2>3, GotoTyped DEF r
  <2> QED BY <1>9, <2>1, <2>2, <2>3
<1> QED BY <1>10 DEF AInv, TypeOK, Sync

LEMMA WriteRootTyped ==
  ASSUME AInv, NEW p \in Caller, WriteRoot(p)
  PROVE  AInv'
<1>1. Busy(p) /\ run[p] \in Run /\ Shape(run[p]) /\ run[p].pc = "root"
  BY BusyIsRun DEF WriteRoot, At, Busy, AInv, Shapes
<1> DEFINE next == IF run[p].scope # Root THEN [run[p] EXCEPT !.pc = "own"]
                   ELSE IF run[p].left # {} THEN [run[p] EXCEPT !.pc = "refresh"]
                   ELSE After(run[p])
<1>2. next \in Run \cup {NoRun}
      /\ (next \in Run => Shape(next) /\ next.alone = run[p].alone)
  <2>1. CASE run[p].scope # Root
    BY <1>1, <2>1 DEF Run, Shape
  <2>2. CASE run[p].scope = Root /\ run[p].left # {}
    BY <1>1, <2>2 DEF Run, Shape
  <2>3. CASE run[p].scope = Root /\ run[p].left = {}
    BY <1>1, <2>3, AfterTyped
  <2> QED BY <2>1, <2>2, <2>3
<1>3. Goto(p, next)
  BY DEF WriteRoot
<1> HIDE DEF next
<1>4. /\ run' \in [Caller -> Run \cup {NoRun}] /\ Shapes' /\ Sole'
      /\ mishap' \subseteq {"race", "crash", "borrowed"}
  BY <1>1, <1>2, <1>3, GotoTyped
<1>5. run[p].root \in SUBSET Entry /\ Root \in Scope /\ Root \notin Session
  BY <1>1, RunFields, ScopeAssumption DEF Scope
<1>6. copy' \in [Scope -> SUBSET Entry] /\ \A s \in Session : copy'[s] \subseteq Mode \X {s}
  BY <1>5 DEF WriteRoot, AInv, TypeOK, Scope
<1> QED BY <1>4, <1>6 DEF AInv, TypeOK, WriteRoot

LEMMA WriteOwnTyped ==
  ASSUME AInv, NEW p \in Caller, WriteOwn(p)
  PROVE  AInv'
<1>1. Busy(p) /\ run[p] \in Run /\ Shape(run[p]) /\ run[p].pc = "own"
  BY BusyIsRun DEF WriteOwn, At, Busy, AInv, Shapes
<1>2. After(run[p]) \in Run \cup {NoRun}
      /\ (After(run[p]) \in Run => Shape(After(run[p])) /\ After(run[p]).alone = run[p].alone)
  BY <1>1, AfterTyped
<1>3. Goto(p, After(run[p]))
  BY DEF WriteOwn
<1>4. /\ run' \in [Caller -> Run \cup {NoRun}] /\ Shapes' /\ Sole'
      /\ mishap' \subseteq {"race", "crash", "borrowed"}
  BY <1>1, <1>2, <1>3, GotoTyped
<1>5. run[p].own \in SUBSET Entry /\ run[p].scope \in Scope
      /\ run[p].own \subseteq Mode \X {run[p].scope}
  BY <1>1, RunFields DEF Shape
<1>6. copy' \in [Scope -> SUBSET Entry] /\ \A s \in Session : copy'[s] \subseteq Mode \X {s}
  BY <1>5 DEF WriteOwn, AInv, TypeOK, Scope
<1> QED BY <1>4, <1>6 DEF AInv, TypeOK, WriteOwn

LEMMA RefreshTyped ==
  ASSUME AInv, NEW p \in Caller, Refresh(p)
  PROVE  AInv'
<1>1. Busy(p) /\ run[p] \in Run /\ Shape(run[p]) /\ run[p].pc = "refresh"
  BY BusyIsRun DEF Refresh, At, Busy, AInv, Shapes
<1> DEFINE r == run[p]
           then(s) == IF r.left \ {s} = {} THEN After(r) ELSE [r EXCEPT !.left = r.left \ {s}]
<1>2. PICK s \in r.left :
        /\ Goto(p, then(s))
        /\ \/ UNCHANGED copy
           \/ copy' = [copy EXCEPT ![s] = Refreshed(r, s),
                                   ![Root] = IF Refreshed(r, s) = {} THEN @ ELSE r.root]
  BY DEF Refresh
<1>3. then(s) \in Run \cup {NoRun}
      /\ (then(s) \in Run => Shape(then(s)) /\ then(s).alone = r.alone)
  <2>1. CASE r.left \ {s} = {}
    BY <1>1, <2>1, AfterTyped
  <2>2. CASE r.left \ {s} # {}
    BY <1>1, <2>2 DEF Run, Shape
  <2> QED BY <2>1, <2>2
<1> HIDE DEF then
<1>4. /\ run' \in [Caller -> Run \cup {NoRun}] /\ Shapes' /\ Sole'
      /\ mishap' \subseteq {"race", "crash", "borrowed"}
  BY <1>1, <1>2, <1>3, GotoTyped
<1>5. r.root \in SUBSET Entry /\ s \in Session
  BY <1>1, RunFields DEF Shape
<1>6. Refreshed(r, s) \subseteq Mode \X {s}
  BY <1>5 DEF Refreshed, Own, Entry, AInv, TypeOK
<1>7. Mode \X {s} \subseteq Entry
  BY <1>5 DEF Entry, Scope
<1>8. copy' \in [Scope -> SUBSET Entry] /\ \A t \in Session : copy'[t] \subseteq Mode \X {t}
  <2>1. CASE UNCHANGED copy
    BY <2>1 DEF AInv, TypeOK
  <2>2. CASE copy' = [copy EXCEPT ![s] = Refreshed(r, s),
                                  ![Root] = IF Refreshed(r, s) = {} THEN @ ELSE r.root]
    <3> HIDE DEF r
    <3> QED BY <2>2, <1>5, <1>6, <1>7, ScopeAssumption DEF AInv, TypeOK, Scope
  <2> QED BY <1>2, <2>1, <2>2
<1> QED BY <1>4, <1>8 DEF AInv, TypeOK, Refresh

LEMMA CrashTyped ==
  ASSUME AInv, NEW p \in Caller, Crash(p)
  PROVE  AInv'
<1>1. Busy(p) /\ run[p] \in Run /\ Shape(run[p]) /\ run[p].scope \in Scope
  BY BusyIsRun, RunFields DEF Crash, AInv, Shapes
<1>2. run' = [run EXCEPT ![p] = NoRun] /\ run \in [Caller -> Run \cup {NoRun}]
  BY DEF Crash, AInv, TypeOK
<1>3. run' \in [Caller -> Run \cup {NoRun}] /\ Shapes' /\ Sole'
  BY <1>2, Records DEF Shapes, Sole, Solo, Busy, AInv
<1>4. mishap' \subseteq {"race", "crash", "borrowed"}
  BY DEF Crash, AInv, TypeOK
<1>5. crashes' \in 0 .. MaxCrashes
  BY BoundsAssumption DEF Crash, AInv, TypeOK
<1>6. file' \in [Scope -> [Mode -> {"none", "on", "off", "torn"}]]
  <2>1. CASE UNCHANGED file
    BY <2>1 DEF AInv, TypeOK
  <2>2. CASE \E m \in Torn(p) : file' = [file EXCEPT ![run[p].scope][m] = "torn"]
    <3>1. Torn(p) \subseteq Mode
      BY <1>1, RunFields DEF Torn
    <3> QED BY <1>1, <2>2, <3>1 DEF AInv, TypeOK
  <2> QED BY <2>1, <2>2 DEF Crash
<1>7. copy' \in [Scope -> SUBSET Entry] /\ \A s \in Session : copy'[s] \subseteq Mode \X {s}
  BY DEF Crash, AInv, TypeOK, Scope
<1> QED BY <1>3, <1>4, <1>5, <1>6, <1>7 DEF AInv, TypeOK, Crash

LEMMA Typed == AInv /\ [Next]_vars => AInv'
<1> SUFFICES ASSUME AInv, [Next]_vars PROVE AInv'
  OBVIOUS
<1>1. CASE UNCHANGED vars
  BY <1>1 DEF vars, AInv, TypeOK, Shapes, Sole, Solo, Busy
<1>2. ASSUME NEW p \in Caller, Step(p) PROVE AInv'
  BY <1>2, UnlinkTyped, CompleteTyped, WriteFileTyped, SyncTyped, WriteRootTyped,
     WriteOwnTyped, RefreshTyped DEF Step
<1>3. ASSUME NEW p \in Caller, Call(p) PROVE AInv'
  BY <1>3, StartTyped, ChangeTyped, ClearTyped, ClearAllTyped DEF Call
<1>4. ASSUME NEW p \in Caller, Crash(p) PROVE AInv'
  BY <1>4, CrashTyped
<1> QED BY <1>1, <1>2, <1>3, <1>4 DEF Next

LEMMA InitTyped == Init => AInv
<1> SUFFICES ASSUME Init PROVE AInv
  OBVIOUS
<1>1. TypeOK
  BY BoundsAssumption DEF Init, TypeOK, Scope
<1>2. \A p \in Caller : ~Busy(p)
  BY Records DEF Init, Busy
<1> QED BY <1>1, <1>2 DEF AInv, Shapes, Sole, Solo

(* Every state has its type: whatever overlaps, crashes or torn files, the   *)
(* copy of a session never names a mode of another session or of the root.   *)
THEOREM TypeCorrect == Spec => []TypeOK
<1>1. AInv => TypeOK
  BY DEF AInv
<1> QED BY <1>1, InitTyped, Typed, PTL DEF Spec

-----------------------------------------------------------------------------
(* Who moves: one caller at a time, and nobody beside a call that is alone.  *)
LEMMA CallBegins ==
  ASSUME NEW q \in Caller, Call(q)
  PROVE  \E r \in Run : Begin(q, r) /\ r.pc \in {"complete", "file", "unlink", "sync"}
<1>1. ASSUME NEW m \in Mode, ClearAll(q, m) PROVE \E r \in Run : Begin(q, r) /\ r.pc \in {"complete", "file", "unlink", "sync"}
  <2> DEFINE r == [Begun("clearAll", m, Root, FALSE) EXCEPT !.pc = "unlink", !.left = Scope]
  <2>1. r \in Run /\ r.pc = "unlink"
    BY DEF Begun, Run, Scope
  <2> QED BY <1>1, <2>1 DEF ClearAll
<1>2. ASSUME NEW m \in Mode, NEW sc \in Scope, Clear(q, m, sc) PROVE \E r \in Run : Begin(q, r) /\ r.pc \in {"complete", "file", "unlink", "sync"}
  <2> DEFINE r == [Begun("clear", m, sc, FALSE) EXCEPT !.pc = "sync"]
  <2>1. r \in Run /\ r.pc = "sync"
    BY DEF Begun, Run
  <2> QED BY <1>2, <2>1 DEF Clear
<1>3. ASSUME NEW m \in Mode, NEW sc \in Scope, NEW keep \in BOOLEAN,
             Deactivate(q, m, sc) \/ Update(q, m, sc, keep)
      PROVE  \E r \in Run : Begin(q, r) /\ r.pc \in {"complete", "file", "unlink", "sync"}
  <2>1. PICK op \in {"write", "update"}, on \in BOOLEAN : Begin(q, Begun(op, m, sc, on))
    BY <1>3 DEF Deactivate, Update
  <2>2. Begun(op, m, sc, on) \in Run /\ Begun(op, m, sc, on).pc = "file"
    BY DEF Begun, Run
  <2> QED BY <2>1, <2>2
<1>4. ASSUME NEW m \in Mode, NEW sc \in Scope, NEW op \in {"start", "write"},
             Start(q, op, m, sc)
      PROVE  \E r \in Run : Begin(q, r) /\ r.pc \in {"complete", "file", "unlink", "sync"}
  <2>1. PICK todo \in SUBSET Mode :
          Begin(q, [Begun(op, m, sc, TRUE) EXCEPT
                      !.pc = IF todo = {} THEN "file" ELSE "complete", !.todo = todo])
    <3>1. \A current \in SUBSET Mode : Completed(current, m) \in SUBSET Mode
      BY DEF Completed
    <3>2. \A c : Listed(c, sc) \cup FilesOn(sc) \in SUBSET Mode
      BY DEF Listed, FilesOn
    <3> HIDE DEF Completed, Listed, FilesOn
    <3> QED BY <1>4, <3>1, <3>2 DEF Start
  <2> DEFINE r == [Begun(op, m, sc, TRUE) EXCEPT
                      !.pc = IF todo = {} THEN "file" ELSE "complete", !.todo = todo]
  <2>2. r \in Run /\ r.pc \in {"complete", "file"}
    BY DEF Begun, Run
  <2> QED BY <2>1, <2>2
<1> QED BY <1>1, <1>2, <1>3, <1>4 DEF Call

LEMMA StepGoes ==
  ASSUME AInv, NEW q \in Caller, Step(q)
  PROVE  /\ Busy(q)
         /\ \A p \in Caller \ {q} : run'[p] = run[p]
         /\ run'[q] = NoRun \/ SameCall(run[q]', run[q])
         /\ mishap' = mishap \cup (IF run[q].alone THEN {} ELSE {"race"})
         /\ UNCHANGED <<calls, crashes>>
<1>1. Busy(q) /\ run[q] \in Run /\ Shape(run[q])
  BY BusyIsRun DEF Step, Unlink, Complete, WriteFile, Sync, WriteRoot, WriteOwn, Refresh,
     At, Busy, AInv, Shapes
<1>2. run \in [Caller -> Run \cup {NoRun}]
  BY DEF AInv, TypeOK
<1>3. ASSUME NEW r, Goto(q, r) PROVE
        /\ \A p \in Caller \ {q} : run'[p] = run[p]
        /\ run'[q] = r
        /\ mishap' = mishap \cup (IF run[q].alone THEN {} ELSE {"race"})
  BY <1>2, <1>3 DEF Goto
<1>4. After(run[q]) = NoRun \/ SameCall(After(run[q]), run[q])
  BY <1>1, AfterTyped
<1>5. UNCHANGED <<calls, crashes>>
  BY DEF Step, Unlink, Complete, WriteFile, Sync, WriteRoot, WriteOwn, Refresh
<1>6. PICK r : Goto(q, r) /\ (r = NoRun \/ SameCall(r, run[q]))
  <2>1. CASE Unlink(q)
    <3>1. PICK sc \in run[q].left :
            Goto(q, [run[q] EXCEPT !.left = run[q].left \ {sc},
                      !.pc = IF run[q].left \ {sc} = {} THEN "sync" ELSE "unlink"])
      BY <2>1 DEF Unlink
    <3>2. SameCall([run[q] EXCEPT !.left = run[q].left \ {sc},
             !.pc = IF run[q].left \ {sc} = {} THEN "sync" ELSE "unlink"], run[q])
      BY <1>1 DEF Run, SameCall
    <3> QED BY <3>1, <3>2
  <2>2. CASE Complete(q)
    <3>1. PICK a \in run[q].todo :
            Goto(q, [run[q] EXCEPT !.pc = "sync", !.about = a, !.todo = @ \ {a}])
      BY <2>2 DEF Complete
    <3>2. SameCall([run[q] EXCEPT !.pc = "sync", !.about = a, !.todo = @ \ {a}], run[q])
      BY <1>1 DEF Run, SameCall
    <3> QED BY <3>1, <3>2
  <2>3. CASE WriteFile(q)
    <3>1. SameCall([run[q] EXCEPT !.pc = "sync", !.about = run[q].mode], run[q])
      BY <1>1 DEF Run, SameCall
    <3> QED BY <2>3, <3>1 DEF WriteFile
  <2>4. CASE Sync(q)
    <3>1. PICK root, own, left :
            \/ Goto(q, NoRun)
            \/ Goto(q, After(run[q]))
            \/ Goto(q, [run[q] EXCEPT !.pc = "root", !.root = root, !.own = own, !.left = left])
      BY <2>4 DEF Sync
    <3>2. SameCall([run[q] EXCEPT !.pc = "root", !.root = root, !.own = own, !.left = left], run[q])
      BY <1>1 DEF Run, SameCall
    <3> QED BY <1>4, <3>1, <3>2
  <2>5. CASE WriteRoot(q)
    BY <1>1, <1>4, <2>5 DEF Run, WriteRoot, SameCall
  <2>6. CASE WriteOwn(q)
    BY <1>4, <2>6 DEF WriteOwn
  <2>7. CASE Refresh(q)
    <3>1. PICK left : Goto(q, IF left = {} THEN After(run[q])
                              ELSE [run[q] EXCEPT !.left = left])
      BY <2>7 DEF Refresh
    <3> QED BY <1>1, <1>4, <3>1 DEF Run, SameCall
  <2> QED BY <2>1, <2>2, <2>3, <2>4, <2>5, <2>6, <2>7 DEF Step
<1> QED BY <1>1, <1>3, <1>5, <1>6

(* A caller that begins an operation disturbs those that are in one.         *)
\* A call that begins leaves the lists and the count of crashes alone; it writes
\* a file only alone, or else it is a race.
LEMMA CallKeeps ==
  ASSUME NEW q \in Caller, Call(q)
  PROVE  /\ copy' = copy /\ crashes' = crashes
         /\ mishap \subseteq mishap' /\ mishap' \subseteq mishap \cup {"race", "borrowed"}
         /\ mishap = {} \/ Alone(q)
         /\ file' = file \/ Alone(q) \/ "race" \in mishap'
<1> DEFINE Kept == /\ copy' = copy /\ crashes' = crashes
                   /\ mishap \subseteq mishap'
                   /\ mishap' \subseteq mishap \cup {"race", "borrowed"}
                   /\ file' = file \/ Alone(q) \/ "race" \in mishap'
<1>1. ASSUME NEW m \in Mode, ClearAll(q, m) PROVE Kept
  BY <1>1 DEF ClearAll
<1>2. ASSUME NEW m \in Mode, NEW sc \in Scope, Clear(q, m, sc) PROVE Kept
  BY <1>2 DEF Clear
<1>3. ASSUME NEW m \in Mode, NEW sc \in Scope, Deactivate(q, m, sc) PROVE Kept
  BY <1>3 DEF Deactivate
<1>4. ASSUME NEW m \in Mode, NEW sc \in Scope, NEW keep \in BOOLEAN, Update(q, m, sc, keep)
      PROVE  Kept
  BY <1>4 DEF Update
<1>5. ASSUME NEW m \in Mode, NEW sc \in Scope, NEW op \in {"start", "write"}, Start(q, op, m, sc)
      PROVE  Kept
  BY <1>5 DEF Start
<1>6. Kept
  <2> HIDE DEF Kept
  <2> QED BY <1>1, <1>2, <1>3, <1>4, <1>5 DEF Call
<1>7. mishap = {} \/ Alone(q)
  BY CallBegins DEF Begin
<1> QED BY <1>6, <1>7

LEMMA BeginDisturbs ==
  ASSUME AInv, NEW q \in Caller, Call(q)
  PROVE  /\ ~Busy(q) /\ Busy(q)' /\ (Solo(q)' <=> Alone(q))
         /\ \A p \in Caller \ {q} : Busy(p) => Busy(p)' /\ ~Solo(p)' /\ run'[p] # NoRun
         /\ \A p \in Caller \ {q} : ~Busy(p) => run'[p] = run[p]
<1>1. PICK r \in Run : Begin(q, r)
  BY CallBegins
<1>2. Alone(q) \in BOOLEAN
  BY DEF Alone
<1>3. [r EXCEPT !.alone = Alone(q)] \in Run /\ [r EXCEPT !.alone = Alone(q)].alone = Alone(q)
  BY <1>2 DEF Run
<1>4. \A p \in Caller : Busy(p) => /\ [run[p] EXCEPT !.alone = FALSE] \in Run
                                   /\ [run[p] EXCEPT !.alone = FALSE].alone = FALSE
  <2> SUFFICES ASSUME NEW p \in Caller, Busy(p)
               PROVE  /\ [run[p] EXCEPT !.alone = FALSE] \in Run
                      /\ [run[p] EXCEPT !.alone = FALSE].alone = FALSE
    OBVIOUS
  <2>1. run[p] \in Run
    BY BusyIsRun DEF AInv
  <2> QED BY <2>1 DEF Run
<1>5. /\ run'[q] = [r EXCEPT !.alone = Alone(q)]
      /\ \A p \in Caller \ {q} : run'[p] = IF Busy(p) THEN [run[p] EXCEPT !.alone = FALSE]
                                           ELSE run[p]
  BY <1>1 DEF Begin
<1> QED BY <1>1, <1>3, <1>4, <1>5, Records DEF Solo, Busy, Begin

LEMMA OneMoves ==
  ASSUME AInv, [Next]_vars, NEW p \in Caller, Solo(p)'
  PROVE  \/ UNCHANGED vars
         \/ Solo(p) /\ Step(p)
         \/ Call(p) /\ Alone(p)
<1>1. ASSUME NEW q \in Caller, Step(q) PROVE Solo(p) /\ Step(p)
  BY <1>1, StepGoes, Records DEF Solo, Busy, AInv, Sole, SameCall
<1>2. ASSUME NEW q \in Caller, Call(q) PROVE Call(p) /\ Alone(p)
  <2>1. CASE q = p
    BY <1>2, <2>1, BeginDisturbs
  <2>2. CASE q # p
    BY <1>2, <2>2, BeginDisturbs DEF Solo, Busy
  <2> QED BY <2>1, <2>2
<1>3. ASSUME NEW q \in Caller, Crash(q) PROVE FALSE
  <2>1. Busy(q) /\ run' = [run EXCEPT ![q] = NoRun] /\ run \in [Caller -> Run \cup {NoRun}]
    BY <1>3 DEF Crash, AInv, TypeOK
  <2> QED BY <2>1, Records DEF Solo, Busy, AInv, Sole
<1> QED BY <1>1, <1>2, <1>3 DEF Next

LEMMA SoloSees ==
  ASSUME AInv, NEW p \in Caller, Solo(p), At(p, "sync"), NEW sc \in Scope
  PROVE  Seen(sc) = {copy[sc]}
<1>1. \A q \in Caller : ~Rewriting(q, sc)
  BY DEF AInv, Sole, Solo, Busy, Rewriting, At
<1> QED BY <1>1 DEF Seen

-----------------------------------------------------------------------------
(* Clearing.                                                                 *)
LEMMA ClearStep ==
  ASSUME AInv, Clearing, NEW p \in Caller, Solo(p), Step(p),
         run[p].op \in {"clear", "clearAll"}
  PROVE  \/ /\ run'[p] = NoRun
            /\ \A sc \in (IF run[p].op = "clear" THEN {run[p].scope} ELSE Scope) :
                 /\ file'[sc][run[p].mode] \in {"none", "off"}
                 /\ <<run[p].mode, sc>> \notin copy'[sc]
         \/ (Busy(p) /\ ClearedFiles(run[p]) /\ ClearedLists(run[p]))'
<1> DEFINE r == run[p]
           Done == /\ run'[p] = NoRun
                   /\ \A sc \in (IF r.op = "clear" THEN {r.scope} ELSE Scope) :
                        /\ file'[sc][r.mode] \in {"none", "off"}
                        /\ <<r.mode, sc>> \notin copy'[sc]
<1>1. r \in Run /\ Shape(r) /\ ClearedFiles(r) /\ ClearedLists(r)
  BY BusyIsRun DEF Solo, AInv, Shapes, Clearing
<1>2. /\ run \in [Caller -> Run \cup {NoRun}]
      /\ file \in [Scope -> [Mode -> {"none", "on", "off", "torn"}]]
      /\ copy \in [Scope -> SUBSET Entry]
      /\ Root \in Scope /\ Session \subseteq Scope /\ Root \notin Session
  BY ScopeAssumption DEF AInv, TypeOK, Scope
<1>3. r.mode \in Mode /\ r.scope \in Scope /\ r.left \subseteq Scope /\ r.about = r.mode
  BY <1>1, RunFields DEF Shape
<1>4. After(r) = NoRun
  BY <1>3 DEF After
<1>5. CASE Unlink(p)
  <2>1. PICK sc \in r.left :
          /\ file' = [file EXCEPT ![sc][r.mode] = "none"]
          /\ run' = [run EXCEPT ![p] =
                       [r EXCEPT !.left = r.left \ {sc},
                          !.pc = IF r.left \ {sc} = {} THEN "sync" ELSE "unlink"]]
    BY <1>5 DEF Unlink, Goto
  <2>2. /\ run'[p].op = r.op /\ run'[p].mode = r.mode /\ run'[p].left = r.left \ {sc}
        /\ run'[p].pc = IF r.left \ {sc} = {} THEN "sync" ELSE "unlink"
    BY <1>1, <1>2, <2>1 DEF Run
  <2>3. r.op = "clearAll" /\ r.pc = "unlink"
    BY <1>1, <1>5 DEF Unlink, At, Shape
  <2>4. \A t \in Scope \ (r.left \ {sc}) : file'[t][r.mode] = "none"
    BY <1>1, <1>2, <1>3, <2>1, <2>3 DEF ClearedFiles
  <2>5. ClearedFiles(run[p])'
    BY <2>2, <2>3, <2>4 DEF ClearedFiles
  <2>6. ClearedLists(run[p])'
    BY <2>2 DEF ClearedLists
  <2> QED BY <2>2, <2>5, <2>6 DEF Busy
<1>6. CASE Complete(p) \/ WriteFile(p)
  BY <1>1, <1>6 DEF Complete, WriteFile, At, Shape
<1>7. CASE Sync(p)
  <2>1. At(p, "sync") /\ r.pc = "sync"
    BY <1>7 DEF Sync, At
  <2>2. Seen(Root) = {copy[Root]} /\ Seen(r.scope) = {copy[r.scope]}
    BY <1>2, <1>3, <2>1, SoloSees
  <2>3. Active(r) = FALSE /\ Unreadable(r) = FALSE
    BY <1>1, <1>3 DEF Active, Unreadable, Shape
  <2> DEFINE root == IF r.op = "clearAll" THEN RootWithout(copy[Root], r.mode)
                     ELSE NextRoot(copy[Root], copy[r.scope], r.mode, r.scope, FALSE)
             own == IF r.scope = Root THEN copy[Root]
                    ELSE NextOwn(copy[Root], copy[r.scope], r.mode, r.scope, FALSE)
             next == [r EXCEPT !.pc = "root", !.root = root, !.own = own,
                        !.left = IF r.scope = Root THEN Session ELSE {}]
  <2>4. \/ copy[r.scope] = {} /\ r.op # "clearAll" /\ Goto(p, NoRun)
        \/ Goto(p, next)
    BY <1>3, <1>4, <1>7, <2>2, <2>3 DEF Sync
  <2>5. file' = file /\ copy' = copy
    BY <1>7 DEF Sync
  <2>6. CASE copy[r.scope] = {} /\ r.op # "clearAll" /\ Goto(p, NoRun)
    <3>1. run'[p] = NoRun
      BY <1>2, <2>6 DEF Goto
    <3>2. Done
      BY <1>1, <1>3, <2>5, <2>6, <3>1 DEF ClearedFiles
    <3> QED BY <3>2
  <2>7. CASE Goto(p, next)
    <3>1. <<r.mode, r.scope>> \notin (IF r.scope = Root THEN root ELSE own)
      BY <1>3 DEF RootWithout, NextRoot, NextOwn, Added
    <3>2. r.op = "clearAll" => \A e \in root : e[1] # r.mode
      BY DEF RootWithout
    <3> HIDE DEF root, own
    <3>3. /\ run'[p].op = r.op /\ run'[p].mode = r.mode /\ run'[p].pc = "root"
          /\ run'[p].left = (IF r.scope = Root THEN Session ELSE {})
          /\ run'[p].scope = r.scope /\ run'[p].root = root /\ run'[p].own = own
      BY <1>1, <1>2, <2>7 DEF Run, Goto
    <3>4. ClearedFiles(run[p])'
      BY <1>1, <2>1, <2>5, <3>3 DEF ClearedFiles
    <3>5. ClearedLists(run[p])'
      BY <1>1, <3>1, <3>2, <3>3 DEF ClearedLists, Shape
    <3> QED BY <3>3, <3>4, <3>5 DEF Busy
  <2> QED BY <2>4, <2>6, <2>7
<1>8. CASE WriteRoot(p)
  <2>1. r.pc = "root" /\ file' = file /\ copy' = [copy EXCEPT ![Root] = r.root]
    BY <1>8 DEF WriteRoot, At
  <2>2. copy'[Root] = r.root
    BY <1>2, <2>1
  <2>3. CASE r.scope # Root
    <3>1. run' = [run EXCEPT ![p] = [r EXCEPT !.pc = "own"]]
      BY <1>8, <2>3 DEF WriteRoot, Goto
    <3>2. /\ run'[p].op = r.op /\ run'[p].mode = r.mode /\ run'[p].pc = "own"
          /\ run'[p].scope = r.scope /\ run'[p].root = r.root /\ run'[p].own = r.own
      BY <1>1, <1>2, <3>1 DEF Run
    <3>3. ClearedFiles(run[p])'
      BY <1>1, <2>1, <3>2 DEF ClearedFiles
    <3>4. ClearedLists(run[p])'
      BY <1>1, <2>1, <2>3, <3>2 DEF ClearedLists
    <3> QED BY <3>2, <3>3, <3>4 DEF Busy
  <2>4. CASE r.scope = Root /\ r.left # {}
    <3>1. run' = [run EXCEPT ![p] = [r EXCEPT !.pc = "refresh"]]
      BY <1>8, <2>4 DEF WriteRoot, Goto
    <3>2. /\ run'[p].op = r.op /\ run'[p].mode = r.mode /\ run'[p].pc = "refresh"
          /\ run'[p].scope = r.scope /\ run'[p].root = r.root /\ run'[p].left = r.left
      BY <1>1, <1>2, <3>1 DEF Run
    <3>3. ClearedFiles(run[p])'
      BY <1>1, <2>1, <3>2 DEF ClearedFiles
    <3>4. r.op = "clearAll" => Scope \ r.left = {Root}
      BY <1>1, <1>2, <2>1 DEF ClearedLists, Scope
    <3>5. r.op = "clearAll" => <<r.mode, Root>> \notin r.root
      BY <1>1, <2>1, <2>4 DEF ClearedLists
    <3>6. ClearedLists(run[p])'
      BY <1>1, <2>1, <2>2, <2>4, <3>2, <3>4, <3>5 DEF ClearedLists
    <3> QED BY <3>2, <3>3, <3>6 DEF Busy
  <2>5. CASE r.scope = Root /\ r.left = {}
    <3>1. run'[p] = NoRun
      BY <1>2, <1>4, <1>8, <2>5 DEF WriteRoot, Goto
    <3>2. r.op = "clearAll" => Scope = {Root}
      BY <1>1, <2>1, <2>5 DEF ClearedLists, Scope
    <3>3. <<r.mode, Root>> \notin copy'[Root]
      BY <1>1, <2>1, <2>2, <2>5 DEF ClearedLists
    <3>4. r.op = "clear" => file[r.scope][r.mode] \in {"none", "off"}
      BY <1>1 DEF ClearedFiles
    <3>5. r.op = "clearAll" => \A sc \in Scope : file[sc][r.mode] = "none"
      BY <1>1, <2>1 DEF ClearedFiles
    <3> QED BY <2>1, <2>5, <3>1, <3>2, <3>3, <3>4, <3>5
  <2> QED BY <2>3, <2>4, <2>5
<1>9. CASE WriteOwn(p)
  <2>1. /\ r.pc = "own" /\ file' = file /\ copy' = [copy EXCEPT ![r.scope] = r.own]
        /\ run' = [run EXCEPT ![p] = NoRun]
    BY <1>4, <1>9 DEF WriteOwn, At, Goto
  <2>2. run'[p] = NoRun /\ copy'[r.scope] = r.own
    BY <1>2, <1>3, <2>1
  <2>3. r.scope # Root /\ r.op = "clear"
    BY <1>1, <2>1 DEF Shape
  <2>4. <<r.mode, r.scope>> \notin r.own
    BY <1>1, <2>1, <2>3 DEF ClearedLists
  <2> QED BY <1>1, <2>1, <2>2, <2>3, <2>4 DEF ClearedFiles
<1>10. CASE Refresh(p)
  <2>1. r.pc = "refresh" /\ file' = file /\ r.scope = Root /\ r.left \subseteq Session
    BY <1>1, <1>10 DEF Refresh, At, Shape
  <2>2. PICK s \in r.left :
          /\ \/ copy[s] = {} /\ UNCHANGED copy
             \/ copy' = [copy EXCEPT ![s] = Refreshed(r, s),
                                     ![Root] = IF Refreshed(r, s) = {} THEN @ ELSE r.root]
          /\ Goto(p, IF r.left \ {s} = {} THEN NoRun ELSE [r EXCEPT !.left = r.left \ {s}])
    BY <1>4, <1>10 DEF Refresh
  <2>3. s \in Session /\ s \in Scope /\ s # Root
    BY <1>2, <2>1
  <2>4. /\ <<r.mode, Root>> \notin r.root /\ <<r.mode, Root>> \notin copy[Root]
        /\ r.op = "clearAll" => \A e \in r.root : e[1] # r.mode
        /\ r.op = "clearAll" => \A sc \in Scope \ r.left : <<r.mode, sc>> \notin copy[sc]
    BY <1>1, <2>1 DEF ClearedLists
  <2>5. r.op = "clearAll" => <<r.mode, s>> \notin Refreshed(r, s)
    BY <2>4 DEF Refreshed, Own
  <2> DEFINE there == Refreshed(r, s)
  <2> HIDE DEF there
  <2>6. /\ <<r.mode, Root>> \notin copy'[Root]
        /\ r.op = "clearAll" => <<r.mode, s>> \notin copy'[s]
        /\ \A sc \in Scope \ {s, Root} : copy'[sc] = copy[sc]
    <3>1. CASE copy[s] = {} /\ UNCHANGED copy
      BY <2>4, <3>1
    <3>2. CASE copy' = [copy EXCEPT ![s] = there,
                                    ![Root] = IF there = {} THEN @ ELSE r.root]
      <4>1. copy'[s] = there /\ copy'[Root] \in {copy[Root], r.root}
            /\ \A sc \in Scope \ {s, Root} : copy'[sc] = copy[sc]
        BY <1>2, <2>3, <3>2
      <4> QED BY <2>4, <2>5, <4>1 DEF there
    <3> QED BY <2>2, <3>1, <3>2 DEF there
  <2>7. r.op = "clearAll" => \A sc \in Scope \ (r.left \ {s}) : <<r.mode, sc>> \notin copy'[sc]
    BY <2>4, <2>6
  <2>8. CASE r.left \ {s} = {}
    <3>1. run'[p] = NoRun
      BY <1>2, <2>2, <2>8 DEF Goto
    <3>2. r.op = "clear" => file[r.scope][r.mode] \in {"none", "off"}
      BY <1>1 DEF ClearedFiles
    <3>3. r.op = "clearAll" => \A sc \in Scope : file[sc][r.mode] = "none"
      BY <1>1, <2>1 DEF ClearedFiles
    <3> QED BY <1>1, <2>1, <2>6, <2>7, <2>8, <3>1, <3>2, <3>3
  <2>9. CASE r.left \ {s} # {}
    <3>1. run' = [run EXCEPT ![p] = [r EXCEPT !.left = r.left \ {s}]]
      BY <2>2, <2>9 DEF Goto
    <3>2. /\ run'[p].op = r.op /\ run'[p].mode = r.mode /\ run'[p].pc = "refresh"
          /\ run'[p].scope = Root /\ run'[p].root = r.root /\ run'[p].left = r.left \ {s}
      BY <1>1, <1>2, <2>1, <3>1 DEF Run
    <3>3. ClearedFiles(run[p])'
      BY <1>1, <2>1, <3>2 DEF ClearedFiles
    <3>4. ClearedLists(run[p])'
      BY <2>4, <2>6, <2>7, <3>2 DEF ClearedLists
    <3> QED BY <3>2, <3>3, <3>4 DEF Busy
  <2> QED BY <2>8, <2>9
<1> QED BY <1>5, <1>6, <1>7, <1>8, <1>9, <1>10 DEF Step

LEMMA ClearBegins ==
  ASSUME AInv, NEW p \in Caller, Call(p), Alone(p), run'[p].op \in {"clear", "clearAll"}
  PROVE  (ClearedFiles(run[p]) /\ ClearedLists(run[p]))'
<1>1. /\ file \in [Scope -> [Mode -> {"none", "on", "off", "torn"}]]
      /\ run \in [Caller -> Run \cup {NoRun}] /\ Root \in Scope
  BY DEF AInv, TypeOK, Scope
<1>2. Alone(p) = TRUE
  OBVIOUS
<1>3. ASSUME NEW m \in Mode, NEW sc \in Scope, Clear(p, m, sc)
      PROVE  (ClearedFiles(run[p]) /\ ClearedLists(run[p]))'
  <2> DEFINE r == [[Begun("clear", m, sc, FALSE) EXCEPT !.pc = "sync"] EXCEPT !.alone = TRUE]
  <2>1. run'[p] = r
    BY <1>2, <1>3 DEF Clear, Begin
  <2>2. r.op = "clear" /\ r.pc = "sync" /\ r.scope = sc /\ r.mode = m
    BY DEF Begun
  <2>3. file'[sc][m] \in {"none", "off"}
    BY <1>1, <1>3 DEF Clear
  <2> HIDE DEF r
  <2> QED BY <2>1, <2>2, <2>3 DEF ClearedFiles, ClearedLists
<1>4. ASSUME NEW m \in Mode, ClearAll(p, m)
      PROVE  (ClearedFiles(run[p]) /\ ClearedLists(run[p]))'
  <2> DEFINE r == [[Begun("clearAll", m, Root, FALSE) EXCEPT
                      !.pc = "unlink", !.left = Scope] EXCEPT !.alone = TRUE]
  <2>1. run'[p] = r
    BY <1>2, <1>4 DEF ClearAll, Begin
  <2>2. r.op = "clearAll" /\ r.pc = "unlink" /\ r.left = Scope
    BY DEF Begun
  <2> HIDE DEF r
  <2> QED BY <2>1, <2>2 DEF ClearedFiles, ClearedLists
<1>5. ASSUME NEW m \in Mode, NEW sc \in Scope, NEW keep \in BOOLEAN,
             Deactivate(p, m, sc) \/ Update(p, m, sc, keep)
      PROVE  FALSE
  <2>1. PICK op \in {"write", "update"}, on \in BOOLEAN : Begin(p, Begun(op, m, sc, on))
    BY <1>5 DEF Deactivate, Update
  <2>2. run'[p].op = op
    BY <2>1 DEF Begin, Begun
  <2> QED BY <2>2
<1>6. ASSUME NEW m \in Mode, NEW sc \in Scope, NEW op \in {"start", "write"},
             Start(p, op, m, sc)
      PROVE  FALSE
  <2>1. PICK todo, pc : Begin(p, [Begun(op, m, sc, TRUE) EXCEPT !.pc = pc, !.todo = todo])
    BY <1>6 DEF Start
  <2>2. run'[p].op = op
    BY <2>1 DEF Begin, Begun
  <2> QED BY <2>2
<1> QED BY <1>3, <1>4, <1>5, <1>6 DEF Call

LEMMA ClearingStays == AInv /\ Clearing /\ [Next]_vars => Clearing'
<1> SUFFICES ASSUME AInv, Clearing, [Next]_vars, NEW p \in Caller,
                    Solo(p)', run'[p].op \in {"clear", "clearAll"}
             PROVE  (ClearedFiles(run[p]) /\ ClearedLists(run[p]))'
  BY DEF Clearing
<1>1. CASE UNCHANGED vars
  BY <1>1 DEF vars, Clearing, Solo, Busy, ClearedFiles, ClearedLists
<1>2. CASE Solo(p) /\ Step(p)
  <2>1. run[p].op \in {"clear", "clearAll"}
    <3>1. run'[p] # NoRun
      BY Records DEF Solo, Busy
    <3> QED BY <1>2, <3>1, StepGoes DEF SameCall
  <2>2. run'[p] # NoRun
    BY Records DEF Solo, Busy
  <2> QED BY <1>2, <2>1, <2>2, ClearStep
<1>3. CASE Call(p) /\ Alone(p)
  BY <1>3, ClearBegins
<1> QED BY <1>1, <1>2, <1>3, OneMoves

LEMMA ClearedAtEnd == AInv /\ Clearing /\ [Next]_vars =>
  \A p \in Caller :
    (/\ Busy(p) /\ run[p].alone /\ run[p].op \in {"clear", "clearAll"}
     /\ run'[p] = NoRun /\ crashes' = crashes) =>
      \A sc \in (IF run[p].op = "clear" THEN {run[p].scope} ELSE Scope) :
        /\ file'[sc][run[p].mode] \in {"none", "off"}
        /\ <<run[p].mode, sc>> \notin copy'[sc]
<1> SUFFICES ASSUME AInv, Clearing, [Next]_vars, NEW p \in Caller, Busy(p),
                    run[p].alone, run[p].op \in {"clear", "clearAll"},
                    run'[p] = NoRun, crashes' = crashes
             PROVE  \A sc \in (IF run[p].op = "clear" THEN {run[p].scope} ELSE Scope) :
                      /\ file'[sc][run[p].mode] \in {"none", "off"}
                      /\ <<run[p].mode, sc>> \notin copy'[sc]
  OBVIOUS
<1>1. Solo(p) /\ ~Busy(p)'
  BY Records DEF Solo, Busy
<1>2. Step(p)
  <2>1. ~UNCHANGED vars
    BY <1>1 DEF vars, Busy
  <2>2. ASSUME NEW q \in Caller, Step(q) PROVE q = p
    BY <1>1, <2>2, StepGoes DEF Busy
  <2>3. ASSUME NEW q \in Caller, Call(q) PROVE FALSE
    <3>1. CASE q = p
      BY <2>3, <3>1, BeginDisturbs
    <3>2. CASE q # p
      BY <2>3, <3>2, BeginDisturbs
    <3> QED BY <3>1, <3>2
  <2>4. ASSUME NEW q \in Caller, Crash(q) PROVE FALSE
    <3>1. crashes' = crashes + 1 /\ crashes \in Nat
      BY <2>4, BoundsAssumption DEF Crash, AInv, TypeOK
    <3> QED BY <3>1
  <2> QED BY <2>1, <2>2, <2>3, <2>4 DEF Next
<1>3. \/ \A sc \in (IF run[p].op = "clear" THEN {run[p].scope} ELSE Scope) :
           /\ file'[sc][run[p].mode] \in {"none", "off"}
           /\ <<run[p].mode, sc>> \notin copy'[sc]
      \/ Busy(p)'
  BY <1>1, <1>2, ClearStep DEF Busy
<1> QED BY <1>1, <1>3

(* Clearing works, whatever races, crashes and torn files came before: a     *)
(* clearing call that runs alone to its end leaves its mode neither active   *)
(* nor listed in its scope, and in no scope when it clears all sessions.     *)
THEOREM ClearWorks == Spec => ClearingWorks
<1>1. Init => Clearing
  BY Records DEF Init, Clearing, Solo, Busy
<1>2. AInv /\ Clearing /\ [Next]_vars =>
        [\A p \in Caller :
          (/\ Busy(p) /\ run[p].alone /\ run[p].op \in {"clear", "clearAll"}
           /\ run'[p] = NoRun /\ crashes' = crashes) =>
            \A sc \in (IF run[p].op = "clear" THEN {run[p].scope} ELSE Scope) :
              /\ file'[sc][run[p].mode] \in {"none", "off"}
              /\ <<run[p].mode, sc>> \notin copy'[sc]]_vars
  BY ClearedAtEnd
<1> QED BY <1>1, <1>2, InitTyped, Typed, ClearingStays, PTL DEF Spec, ClearingWorks

-----------------------------------------------------------------------------
(* What the next lists hold, entry by entry.                                 *)
LEMMA NextOwnHas ==
  ASSUME NEW sc \in Scope, NEW m \in Mode, NEW active \in BOOLEAN, NEW a \in Mode,
         NEW root, NEW own
  PROVE  <<a, sc>> \in NextOwn(root, own, m, sc, active) <=>
           IF a = m THEN active ELSE <<a, sc>> \in root \/ <<a, sc>> \in own
BY DEF NextOwn, Own, Added

LEMMA NextRootHas ==
  ASSUME NEW m \in Mode, NEW active \in BOOLEAN, NEW a \in Mode, NEW t \in Scope,
         NEW root, NEW own
  PROVE  <<a, t>> \in NextRoot(root, own, m, Root, active) <=>
           IF a = m /\ t = Root THEN active ELSE <<a, t>> \in root
BY DEF NextRoot, Added

LEMMA NextRootElsewhere ==
  ASSUME NEW s \in Session, NEW m \in Mode, NEW active \in BOOLEAN, NEW a \in Mode,
         NEW t \in Scope \ {s}, NEW root \in SUBSET Entry, NEW own \in SUBSET (Mode \X {s})
  PROVE  <<a, t>> \in NextRoot(root, own, m, s, active) <=> <<a, t>> \in root
<1>1. s # Root
  BY ScopeAssumption
<1>2. <<a, t>> \notin own \ root /\ <<a, t>> # <<m, s>>
  OBVIOUS
<1>3. <<a, t>> \in root \ {<<m, s>>} <=> <<a, t>> \in root
  BY <1>2
<1> QED BY <1>1, <1>2, <1>3 DEF NextRoot

LEMMA NextRootCovered ==
  ASSUME NEW s \in Session, NEW m \in Mode, NEW active \in BOOLEAN, NEW a \in Mode,
         NEW root, NEW own, <<a, s>> \in NextRoot(root, own, m, s, active)
  PROVE  <<a, s>> \in NextOwn(root, own, m, s, active)
<1>1. s # Root /\ s \in Scope
  BY ScopeAssumption DEF Scope
<1>2. IF a = m THEN active ELSE <<a, s>> \in root \/ <<a, s>> \in own
  BY <1>1 DEF NextRoot
<1> QED BY <1>1, <1>2, NextOwnHas

LEMMA RefreshedHas ==
  ASSUME NEW r, NEW s, NEW a \in Mode
  PROVE  <<a, s>> \in Refreshed(r, s) <=>
           \/ <<a, s>> \in r.root
           \/ <<a, s>> \in copy[s] /\ <<a, s>> \notin r.own /\ (r.op = "clearAll" => a # r.mode)
BY DEF Refreshed, Own

LEMMA VisibleHas ==
  ASSUME NEW sc \in Scope, NEW m
  PROVE  m \in Visible(sc) <=> m \in Mode /\ (<<m, sc>> \in copy[sc] \/ file[sc][m] = "on")
BY DEF Visible, Listed, FilesOn

(* Fewer modes are compatible if more are; and what a start that is allowed  *)
(* leads to is compatible if what it found was.                              *)
LEMMA FewerFit ==
  ASSUME NEW more, NEW less, less \subseteq more, Compatible(more)
  PROVE  Compatible(less)
BY DEF Compatible

LEMMA ResultFits ==
  ASSUME NEW current, NEW m, Compatible(current), Allowed(current, m)
  PROVE  Compatible(Resulting(current, m))
<1>1. \A a, b : Overlaps(a, b) => Overlaps(b, a)
  BY DEF Overlaps
<1>2. CASE m \in current
  <2>1. Resulting(current, m) \subseteq current
    BY <1>2 DEF Resulting
  <2> QED BY <2>1, FewerFit
<1>3. CASE m \notin current
  BY <1>1, <1>3 DEF Compatible, Allowed, Resulting
<1> QED BY <1>2, <1>3

-----------------------------------------------------------------------------
(* The steps of a call that is alone, before any mishap.                     *)
LEMMA AloneRun ==
  ASSUME AInv, NEW p \in Caller, Busy(p)
  PROVE  /\ run[p] \in Run /\ Shape(run[p])
         /\ run[p].mode \in Mode /\ run[p].scope \in Scope
         /\ run[p].about \in Mode /\ run[p].todo \subseteq Mode
         /\ run \in [Caller -> Run \cup {NoRun}]
         /\ file \in [Scope -> [Mode -> {"none", "on", "off", "torn"}]]
         /\ copy \in [Scope -> SUBSET Entry]
         /\ \A s \in Session : copy[s] \subseteq Mode \X {s}
         /\ Scope = {Root} \cup Session /\ Root \notin Session
<1>1. run[p] \in Run /\ Shape(run[p])
  BY BusyIsRun DEF AInv, Shapes
<1> QED BY <1>1, RunFields, ScopeAssumption DEF AInv, TypeOK, Scope

(* Only fewer modes are visible when files are switched off.                 *)
LEMMA FilesOff ==
  ASSUME AllFit, copy' = copy,
         \A sc \in Scope, m \in Mode : file'[sc][m] = "on" => file[sc][m] = "on"
  PROVE  AllFit' /\ \A sc \in Scope : Visible(sc)' \subseteq Visible(sc)
<1>1. \A sc \in Scope : Visible(sc)' \subseteq Visible(sc)
  BY DEF Visible, Listed, FilesOn
<1> QED BY <1>1, FewerFit DEF AllFit

LEMMA KnownUnlink ==
  ASSUME AInv, NEW p \in Caller, Busy(p), Known(p), Unlink(p)
  PROVE  Known(p)'
<1> DEFINE r == run[p]
<1>1. r.pc = "unlink" /\ r.op = "clearAll" /\ r.scope = Root /\ r.about = r.mode /\ ~r.on
  BY AloneRun DEF Unlink, At, Shape
<1>2. PICK sc \in r.left :
        /\ file' = [file EXCEPT ![sc][r.mode] = "none"]
        /\ run' = [run EXCEPT ![p] =
                     [r EXCEPT !.left = r.left \ {sc},
                               !.pc = IF r.left \ {sc} = {} THEN "sync" ELSE "unlink"]]
        /\ copy' = copy
  BY DEF Unlink, Goto
<1>3. /\ run'[p].op = "clearAll" /\ run'[p].mode = r.mode /\ run'[p].about = r.mode
      /\ run'[p].scope = Root /\ run'[p].on = r.on /\ run'[p].left = r.left \ {sc}
      /\ run'[p].pc = IF r.left \ {sc} = {} THEN "sync" ELSE "unlink"
  BY <1>1, <1>2, AloneRun DEF Run
<1>4. \A t \in Scope, m \in Mode :
        file'[t][m] = IF t = sc /\ m = r.mode THEN "none" ELSE file[t][m]
  BY <1>2, AloneRun
<1>5. AllFit'
  BY <1>2, <1>4, FilesOff DEF Known
<1>6. /\ \A t \in Scope : Agree(t, {r.mode})
      /\ \A s \in Session : Mirrored(s)
      /\ \A t \in Scope \ r.left : file[t][r.mode] = "none"
  BY <1>1 DEF Known, Knows
<1>7. \A t \in Scope : Agree(t, {r.mode})'
  <2> SUFFICES ASSUME NEW t \in Scope, NEW m \in Mode, m # r.mode
               PROVE  <<m, t>> \in copy'[t] <=> file'[t][m] = "on"
    BY <1>3 DEF Agree, Lists
  <2>1. <<m, t>> \in copy[t] <=> file[t][m] = "on"
    BY <1>6 DEF Agree, Lists
  <2> QED BY <1>2, <1>4, <2>1
<1>8. \A s \in Session : Mirrored(s)'
  BY <1>2, <1>6 DEF Mirrored, Covers
<1>9. \A t \in Scope \ (r.left \ {sc}) : file'[t][r.mode] = "none"
  BY <1>4, <1>6, AloneRun
<1>10. Knows(run[p])'
  <2>1. CASE r.left \ {sc} = {}
    <3>1. AtSync(run[p])'
      BY <1>1, <1>3, <1>7, <1>8, <1>9, <2>1, AloneRun DEF AtSync, Due, FileFits, NoFile
    <3> QED BY <1>3, <2>1, <3>1 DEF Knows
  <2>2. CASE r.left \ {sc} # {}
    BY <1>3, <1>7, <1>8, <1>9, <2>2 DEF Knows
  <2> QED BY <2>1, <2>2
<1>11. Fits(run[p])'
  BY <1>3 DEF Fits
<1> QED BY <1>3, <1>5, <1>10, <1>11 DEF Known, Busy

LEMMA KnownComplete ==
  ASSUME AInv, NEW p \in Caller, Busy(p), Known(p), Complete(p)
  PROVE  Known(p)'
<1> DEFINE r == run[p]
<1>1. r.pc = "complete" /\ r.mode \notin r.todo /\ r.op \notin {"clear", "clearAll"}
  BY AloneRun DEF Complete, At, Shape
<1>2. PICK a \in r.todo :
        /\ file' = [file EXCEPT ![r.scope][a] = IF @ = "on" THEN "off" ELSE @]
        /\ run' = [run EXCEPT ![p] = [r EXCEPT !.pc = "sync", !.about = a, !.todo = @ \ {a}]]
        /\ copy' = copy
  BY DEF Complete, Goto
<1>3. /\ run'[p].op = r.op /\ run'[p].mode = r.mode /\ run'[p].about = a
      /\ run'[p].scope = r.scope /\ run'[p].on = r.on
      /\ run'[p].pc = "sync" /\ run'[p].todo = r.todo \ {a}
  BY <1>1, <1>2, AloneRun DEF Run
<1>4. a \in Mode /\ a # r.mode
  BY <1>1, AloneRun
<1>5. \A t \in Scope, m \in Mode :
        file'[t][m] = IF t = r.scope /\ m = a /\ file[t][m] = "on" THEN "off" ELSE file[t][m]
  BY <1>2, <1>4, AloneRun
<1>6. AllFit' /\ \A sc \in Scope : Visible(sc)' \subseteq Visible(sc)
  BY <1>2, <1>5, FilesOff DEF Known
<1>7. AllAgree
  BY <1>1 DEF Known, Knows
<1>8. AtSync(run[p])'
  <2>1. \A t \in Scope : Agree(t, Due(run[p], t))'
    <3> SUFFICES ASSUME NEW t \in Scope, NEW m \in Mode, ~(t = r.scope /\ m = a)
                 PROVE  <<m, t>> \in copy'[t] <=> file'[t][m] = "on"
      BY <1>1, <1>3 DEF Agree, Lists, Due
    <3>1. <<m, t>> \in copy[t] <=> file[t][m] = "on"
      BY <1>7 DEF AllAgree, Agree, Lists
    <3> QED BY <1>2, <1>5, <3>1
  <2>2. \A s \in Session : Mirrored(s)'
    BY <1>2, <1>7 DEF AllAgree, Mirrored, Covers
  <2>3. FileFits(run[p])' /\ NoFile(run[p])'
    BY <1>1, <1>3, <1>4, <1>5, AloneRun DEF FileFits, NoFile
  <2> QED BY <1>3, <1>4, <2>1, <2>2, <2>3 DEF AtSync
<1>9. Fits(run[p])'
  <2>1. Compatible((Visible(r.scope) \ r.todo) \cup {r.mode})
    BY <1>1 DEF Known, Fits, Leaving
  <2>2. (Visible(run[p].scope) \ Leaving(run[p]))' \subseteq Visible(r.scope) \ r.todo
    BY <1>3, <1>4, <1>6, AloneRun DEF Leaving
  <2>3. Compatible((Visible(run[p].scope)' \ Leaving(run[p])') \cup {r.mode})
    BY <2>1, <2>2, FewerFit
  <2> QED BY <1>3, <2>3 DEF Fits, Compatible
<1> QED BY <1>3, <1>6, <1>8, <1>9 DEF Known, Knows, Busy

LEMMA KnownWriteFile ==
  ASSUME AInv, NEW p \in Caller, Busy(p), Known(p), WriteFile(p)
  PROVE  Known(p)'
<1> DEFINE r == run[p]
<1>1. r.pc = "file" /\ r.todo = {} /\ r.op \notin {"clear", "clearAll"}
  BY AloneRun DEF WriteFile, At, Shape
<1>2. /\ file' = [file EXCEPT ![r.scope][r.mode] = IF r.on THEN "on" ELSE "off"]
      /\ run' = [run EXCEPT ![p] = [r EXCEPT !.pc = "sync", !.about = r.mode]]
      /\ copy' = copy
  BY DEF WriteFile, Goto
<1>3. /\ run'[p].op = r.op /\ run'[p].mode = r.mode /\ run'[p].about = r.mode
      /\ run'[p].scope = r.scope /\ run'[p].on = r.on /\ run'[p].pc = "sync"
  BY <1>1, <1>2, AloneRun DEF Run
<1>4. \A t \in Scope, m \in Mode :
        file'[t][m] = IF t = r.scope /\ m = r.mode THEN (IF r.on THEN "on" ELSE "off")
                      ELSE file[t][m]
  BY <1>2, AloneRun
<1>5. AllAgree
  BY <1>1 DEF Known, Knows
<1>6. AtSync(run[p])'
  <2>1. \A t \in Scope : Agree(t, Due(run[p], t))'
    <3> SUFFICES ASSUME NEW t \in Scope, NEW m \in Mode, ~(t = r.scope /\ m = r.mode)
                 PROVE  <<m, t>> \in copy'[t] <=> file'[t][m] = "on"
      BY <1>1, <1>3 DEF Agree, Lists, Due
    <3>1. <<m, t>> \in copy[t] <=> file[t][m] = "on"
      BY <1>5 DEF AllAgree, Agree, Lists
    <3> QED BY <1>2, <1>4, <3>1
  <2>2. \A s \in Session : Mirrored(s)'
    BY <1>2, <1>5 DEF AllAgree, Mirrored, Covers
  <2>3. FileFits(run[p])' /\ NoFile(run[p])'
    BY <1>1, <1>3, <1>4, AloneRun DEF FileFits, NoFile
  <2>4. file'[r.scope][r.mode] \in {"on", "off"}
    BY <1>4, AloneRun
  <2> QED BY <1>3, <2>1, <2>2, <2>3, <2>4 DEF AtSync
<1>7. Fits(run[p])'
  BY <1>3 DEF Fits
<1>8. AllFit'
  <2> SUFFICES ASSUME NEW sc \in Scope PROVE Compatible(Visible(sc)')
    BY DEF AllFit, Compatible
  <2>1. CASE r.on /\ sc = r.scope
    <3>1. Compatible((Visible(r.scope) \ {}) \cup {r.mode})
      BY <1>1, <2>1 DEF Known, Fits, Leaving
    <3>2. Visible(sc)' \subseteq (Visible(r.scope) \ {}) \cup {r.mode}
      BY <1>2, <1>4, <2>1 DEF Visible, Listed, FilesOn
    <3> QED BY <3>1, <3>2, FewerFit
  <2>2. CASE ~(r.on /\ sc = r.scope)
    <3>1. Visible(sc)' \subseteq Visible(sc)
      BY <1>2, <1>4, <2>2 DEF Visible, Listed, FilesOn
    <3> QED BY <3>1, FewerFit DEF Known, AllFit
  <2> QED BY <2>1, <2>2
<1> QED BY <1>3, <1>6, <1>7, <1>8 DEF Known, Knows, Busy

(* A step that leaves lists and files in accord, and then goes on to what    *)
(* comes after: the end, the next mode to complete, or the mode's own file.  *)
LEMMA KnownAfter ==
  ASSUME AInv, NEW p \in Caller, Busy(p), Known(p), AllAgree', AllFit',
         run[p].pc \in {"sync", "root", "own", "refresh"},
         run' = [run EXCEPT ![p] = After(run[p])],
         NEW sc \in Scope, sc = run[p].scope,
         run[p].about # run[p].mode =>
            Visible(sc)' \subseteq Visible(sc) \ {run[p].about}
  PROVE  Known(p)'
<1> DEFINE r == run[p]
<1>1. CASE r.about = r.mode
  <2>1. run'[p] = NoRun
    BY <1>1, AloneRun DEF After
  <2> QED BY <2>1, Records DEF Known, Busy
<1>2. CASE r.about # r.mode
  <2>1. /\ run'[p].mode = r.mode /\ run'[p].scope = sc /\ run'[p].todo = r.todo
        /\ run'[p].pc \in {"complete", "file"}
    BY <1>2, AloneRun DEF After, Run
  <2>2. Knows(run[p])'
    BY <2>1 DEF Knows
  <2>3. Compatible((Visible(sc) \ (r.todo \cup {r.about})) \cup {r.mode})
    BY <1>2 DEF Known, Fits, Leaving
  <2>4. Visible(sc)' \ r.todo \subseteq Visible(sc) \ (r.todo \cup {r.about})
    BY <1>2
  <2>5. Compatible((Visible(sc)' \ r.todo) \cup {r.mode})
    BY <2>3, <2>4, FewerFit
  <2>6. Fits(run[p])'
    BY <2>1, <2>5 DEF Fits, Leaving, Compatible
  <2> QED BY <2>1, <2>2, <2>6 DEF Known, Busy
<1> QED BY <1>1, <1>2

LEMMA KnownSync ==
  ASSUME AInv, NEW p \in Caller, Busy(p), run[p].alone, Known(p), Sync(p)
  PROVE  Known(p)'
<1> DEFINE r == run[p]
<1>0. PICK sc \in Scope, m \in Mode, active \in BOOLEAN :
        sc = r.scope /\ m = r.about /\ active = (m = r.mode /\ r.on)
  BY AloneRun, RunFields
<1> USE <1>0
<1>1. r.pc = "sync" /\ At(p, "sync") /\ Solo(p)
  BY DEF Sync, At, Solo
<1>2. AtSync(r)
  BY <1>1 DEF Known, Knows
<1>3. Seen(Root) = {copy[Root]} /\ Seen(sc) = {copy[sc]}
  BY <1>1, AloneRun, SoloSees
<1>4. Active(r) <=> active
  BY <1>2, AloneRun DEF Active, AtSync, FileFits
<1>5. ~Unreadable(r)
  BY <1>2 DEF Unreadable, AtSync
<1>6. Active(r) = active /\ Active(r) \in BOOLEAN
  BY <1>4, AloneRun, RunFields DEF Active
<1>7. \A a \in Mode : <<a, sc>> \in copy[Root] => <<a, sc>> \in copy[sc]
  BY <1>2, AloneRun DEF AtSync, Mirrored, Covers
<1>8. active => Allowed(Listed(copy[Root] \cup copy[sc], sc), m)
  <2> SUFFICES ASSUME active, m \notin Listed(copy[Root] \cup copy[sc], sc),
                      NEW a \in Listed(copy[Root] \cup copy[sc], sc)
               PROVE  Overlaps(a, m)
    BY DEF Allowed
  <2>1. a \in Visible(sc) /\ a # m
    BY <1>7, AloneRun, VisibleHas DEF Listed
  <2>2. m \in Visible(sc)
    BY <1>2, AloneRun, VisibleHas DEF AtSync, FileFits
  <2>3. Compatible(Visible(sc))
    BY AloneRun DEF Known, AllFit
  <2> QED BY <2>1, <2>2, <2>3 DEF Compatible
<1> DEFINE root0 == IF r.op = "clearAll" THEN RootWithout(copy[Root], m)
                   ELSE NextRoot(copy[Root], copy[sc], m, sc, Active(r))
           own0 == IF sc = Root THEN copy[Root]
                  ELSE NextOwn(copy[Root], copy[sc], m, sc, Active(r))
           left0 == IF sc = Root THEN Session ELSE {}
<1>9. /\ file' = file /\ copy' = copy
      /\ \/ copy[sc] = {} /\ ~active /\ r.op # "clearAll"
            /\ run' = [run EXCEPT ![p] = After(r)]
         \/ run' = [run EXCEPT ![p] =
                      [r EXCEPT !.pc = "root", !.root = root0, !.own = own0, !.left = left0]]
  BY <1>3, <1>4, <1>5, <1>8 DEF Sync, Goto
<1>13. PICK root, own, left : root = root0 /\ own = own0 /\ left = left0
  OBVIOUS
<1>10. AllFit' /\ \A t \in Scope : Visible(t)' = Visible(t)
  BY <1>9 DEF Known, AllFit, Visible, Listed, FilesOn, Compatible
<1>11. CASE copy[sc] = {} /\ ~active /\ r.op # "clearAll"
            /\ run' = [run EXCEPT ![p] = After(r)]
  <2>1. AllAgree'
    <3>1. \A t \in Scope, a \in Mode : <<a, t>> \in copy[t] <=> file[t][a] = "on"
      BY <1>2, <1>11, AloneRun DEF AtSync, Agree, Lists, Due, FileFits
    <3>2. \A t \in Scope : Agree(t, {})'
      BY <1>9, <3>1 DEF Agree, Lists
    <3>3. \A s \in Session : Mirrored(s)'
      BY <1>2, <1>9 DEF AtSync, Mirrored, Covers
    <3> QED BY <3>2, <3>3 DEF AllAgree
  <2>2. m # r.mode => m \notin Visible(sc)
    BY <1>2, <1>11, AloneRun, VisibleHas DEF AtSync, FileFits
  <2>3. r.about # r.mode => Visible(sc)' \subseteq Visible(sc) \ {r.about}
    BY <1>10, <2>2
  <2> QED BY <1>1, <1>10, <1>11, <2>1, <2>3, KnownAfter
<1>12. CASE run' = [run EXCEPT ![p] =
                      [r EXCEPT !.pc = "root", !.root = root, !.own = own, !.left = left]]
  <2>1. \A a \in Mode : <<a, sc>> \in copy[sc] /\ a # m => file[sc][a] = "on"
    BY <1>2, AloneRun DEF AtSync, Agree, Lists, Due
  <2>2. \A a \in Mode : a # m /\ file[sc][a] = "on" => <<a, sc>> \in copy[sc]
    BY <1>2, AloneRun DEF AtSync, Agree, Lists, Due
  <2>3. file[sc][m] = "on" <=> active
    BY <1>2 DEF AtSync, FileFits
  <2>4. CASE sc # Root
    <3>1. sc \in Session /\ r.op # "clearAll" /\ sc \in Scope
      BY <2>4, AloneRun DEF Shape
    <3>0. /\ root = NextRoot(copy[Root], copy[sc], m, sc, active)
          /\ own = NextOwn(copy[Root], copy[sc], m, sc, active)
      BY <1>4, <1>6, <1>13, <2>4, <3>1
    <3>2. Lists(own, sc, {})
      <4> HIDE <1>0
      <4> SUFFICES ASSUME NEW a \in Mode PROVE <<a, sc>> \in own <=> file[sc][a] = "on"
        BY DEF Lists
      <4>1. <<a, sc>> \in own <=> IF a = m THEN active ELSE <<a, sc>> \in copy[Root] \/ <<a, sc>> \in copy[sc]
        BY <3>0, NextOwnHas
      <4> QED BY <1>7, <2>1, <2>2, <2>3, <4>1
    <3>3. \A a \in Mode, t \in Scope \ {sc} : <<a, t>> \in root <=> <<a, t>> \in copy[Root]
      <4> HIDE <1>0
      <4>1. copy[Root] \in SUBSET Entry /\ copy[sc] \in SUBSET (Mode \X {sc})
        BY <3>1, AloneRun
      <4> QED BY <3>0, <3>1, <4>1, NextRootElsewhere
    <3>4. Covers(own, root, sc)
      BY <3>0, <3>1, NextRootCovered DEF Covers
    <3>5. /\ run'[p].op = r.op /\ run'[p].mode = r.mode /\ run'[p].about = m
          /\ run'[p].scope = sc /\ run'[p].on = r.on /\ run'[p].pc = "root"
          /\ run'[p].root = root /\ run'[p].own = own /\ run'[p].todo = r.todo
      BY <1>12, AloneRun DEF Run
    <3>6. \A t \in Scope \ {sc} : Agree(t, {})
      BY <1>2, <3>1 DEF AtSync, Due
    <3>7. \A s \in Session \ {sc} : Covers(copy[s], root, s)
      <4> SUFFICES ASSUME NEW s \in Session, s # sc, NEW a \in Mode, <<a, s>> \in root
                   PROVE  <<a, s>> \in copy[s]
        BY DEF Covers
      <4>1. <<a, s>> \in copy[Root]
        BY <3>3, AloneRun
      <4> QED BY <1>2, <4>1 DEF AtSync, Mirrored, Covers
    <3>8. AtRootOfSession(run[p])'
      <4>1. \A t \in Scope \ {sc} : Agree(t, {})'
        BY <1>9, <3>6 DEF Agree, Lists
      <4>2. Lists(run[p].own, run[p].scope, {})'
        BY <1>9, <3>2, <3>5 DEF Lists
      <4>3. FileFits(run[p])'
        BY <1>2, <1>9, <3>5 DEF AtSync, FileFits
      <4>4. \A a \in Mode : <<a, Root>> \in root <=> <<a, Root>> \in copy[Root]
        BY <2>4, <3>3, AloneRun
      <4>5. Covers(own, root, sc)' /\ \A s \in Session \ {sc} : Covers(copy[s], root, s)'
        BY <1>9, <3>4, <3>7 DEF Covers
      <4>6. \A s \in Session : Mirrored(s)'
        BY <1>2, <1>9 DEF AtSync, Mirrored, Covers
      <4> QED BY <1>9, <3>4, <3>5, <3>7, <4>1, <4>2, <4>3, <4>4, <4>6 DEF AtRootOfSession, Covers
    <3>9. Fits(run[p])'
      BY <1>1, <1>10, <3>1, <3>5 DEF Known, Fits, Leaving, Compatible
    <3> QED BY <1>10, <2>4, <3>5, <3>8, <3>9 DEF Known, Knows, Busy
  <2>5. CASE sc = Root
    <3>1. r.op = "clearAll" => m = r.mode /\ ~active
      BY AloneRun DEF Shape
    <3>2. \A a \in Mode, t \in Scope :
            <<a, t>> \in root <=>
              IF r.op = "clearAll" THEN <<a, t>> \in copy[Root] /\ a # m
              ELSE IF a = m /\ t = Root THEN active ELSE <<a, t>> \in copy[Root]
      <4>1. CASE r.op = "clearAll"
        BY <1>13, <4>1 DEF RootWithout
      <4>2. CASE r.op # "clearAll"
        <5>1. root = NextRoot(copy[Root], copy[Root], m, Root, active)
          BY <1>4, <1>6, <1>13, <2>5, <4>2
        <5>2. \A a \in Mode, t \in Scope :
                <<a, t>> \in NextRoot(copy[Root], copy[Root], m, Root, active) <=>
                  IF a = m /\ t = Root THEN active ELSE <<a, t>> \in copy[Root]
          <6> HIDE <1>0
          <6> QED BY NextRootHas
        <5> QED BY <4>2, <5>1, <5>2
      <4> QED BY <4>1, <4>2
    <3>3. own = copy[Root] /\ left = Session
      BY <1>13, <2>5
    <3>4. /\ run'[p].op = r.op /\ run'[p].mode = r.mode /\ run'[p].about = m
          /\ run'[p].scope = Root /\ run'[p].on = r.on /\ run'[p].pc = "root"
          /\ run'[p].root = root /\ run'[p].own = copy[Root] /\ run'[p].left = Session
          /\ run'[p].todo = r.todo
      <4>1. run'[p] = [r EXCEPT !.pc = "root", !.root = root, !.own = own, !.left = left]
            /\ r \in Run
        BY <1>12, AloneRun
      <4>2. /\ run'[p].op = r.op /\ run'[p].mode = r.mode /\ run'[p].about = r.about
            /\ run'[p].scope = r.scope /\ run'[p].on = r.on /\ run'[p].pc = "root"
            /\ run'[p].root = root /\ run'[p].own = own /\ run'[p].left = left
            /\ run'[p].todo = r.todo
        BY <4>1 DEF Run
      <4> QED BY <2>5, <3>3, <4>2
    <3>5. \A s \in Session : Agree(s, Due(run[p], s))' /\ Mirrored(s)'
      <4>1. \A s \in Session : Due(run[p], s)' = Due(r, s)
        BY <2>5, <3>4 DEF Due
      <4>2. \A s \in Session : Agree(s, Due(r, s)) /\ Mirrored(s)
        BY <1>2, AloneRun DEF AtSync
      <4>3. ASSUME NEW s \in Session, NEW a \in Mode \ Due(r, s)
            PROVE  <<a, s>> \in copy'[s] <=> file'[s][a] = "on"
        BY <1>9, <4>2 DEF Agree, Lists
      <4>4. ASSUME NEW s \in Session, NEW a \in Mode, <<a, s>> \in copy'[Root]
            PROVE  <<a, s>> \in copy'[s]
        BY <1>9, <4>2, <4>4 DEF Mirrored, Covers
      <4>5. \A s \in Session : Agree(s, Due(run[p], s))'
        BY <4>1, <4>3 DEF Agree, Lists
      <4> QED BY <4>4, <4>5 DEF Mirrored, Covers
    <3>6. FileFits(run[p])' /\ NoFile(run[p])'
      BY <1>2, <1>9, <2>5, <3>4 DEF AtSync, FileFits, NoFile
    <3>7. Lists(run[p].root, Root, {})'
      <4> SUFFICES ASSUME NEW a \in Mode PROVE <<a, Root>> \in root <=> file[Root][a] = "on"
        BY <1>9, <3>4 DEF Lists
      <4>1. Root \in Scope
        BY AloneRun
      <4> QED BY <2>1, <2>2, <2>3, <2>5, <3>1, <3>2, <4>1
    <3>8. HandsOn(run[p])'
      <4> SUFFICES ASSUME NEW s \in Session, NEW a \in Mode
                   PROVE  <<a, s>> \in root <=>
                            <<a, s>> \in copy[Root] /\ (r.op = "clearAll" => a # r.mode)
        BY <3>4 DEF HandsOn
      <4> QED BY <3>1, <3>2, AloneRun
    <3>9. AtRoot(run[p])'
      BY <1>9, <3>4, <3>5, <3>6, <3>7, <3>8 DEF AtRoot
    <3>10. Fits(run[p])'
      <4>1. Visible(Root)' = Visible(Root)
        BY <1>10, <2>5
      <4> QED BY <1>1, <2>5, <3>4, <4>1 DEF Known, Fits, Leaving, Compatible
    <3> QED BY <1>10, <3>4, <3>9, <3>10 DEF Known, Knows, Busy
  <2> QED BY <2>4, <2>5
<1> QED BY <1>9, <1>11, <1>12, <1>13

(* Only the files count where a list agrees with them.                       *)
LEMMA AgreeVisible ==
  ASSUME AInv, NEW sc \in Scope, Agree(sc, {})
  PROVE  Visible(sc) = FilesOn(sc)
BY DEF Agree, Lists, Visible, Listed, FilesOn

LEMMA KnownWriteRoot ==
  ASSUME AInv, NEW p \in Caller, Busy(p), Known(p), WriteRoot(p)
  PROVE  Known(p)'
<1> DEFINE r == run[p]
<1>1. r.pc = "root" /\ file' = file /\ copy' = [copy EXCEPT ![Root] = r.root]
  BY DEF WriteRoot, At
<1>2. copy'[Root] = r.root /\ \A t \in Session : copy'[t] = copy[t]
  BY <1>1, AloneRun
<1>3. \A t \in Session : Visible(t)' = Visible(t)
  BY <1>1, <1>2 DEF Visible, Listed, FilesOn
<1>4. CASE r.scope # Root
  <2>1. AtRootOfSession(r)
    BY <1>1, <1>4 DEF Known, Knows
  <2>2. Visible(Root)' = Visible(Root)
    BY <1>1, <1>2, <2>1 DEF AtRootOfSession, Visible, Listed, FilesOn
  <2>3. AllFit'
    BY <1>3, <2>2, AloneRun DEF Known, AllFit, Compatible
  <2>4. run' = [run EXCEPT ![p] = [r EXCEPT !.pc = "own"]]
    BY <1>4 DEF WriteRoot, Goto
  <2>5. /\ run'[p].op = r.op /\ run'[p].mode = r.mode /\ run'[p].about = r.about
        /\ run'[p].scope = r.scope /\ run'[p].on = r.on /\ run'[p].pc = "own"
        /\ run'[p].own = r.own /\ run'[p].todo = r.todo
    BY <2>4, AloneRun DEF Run
  <2>6. AtOwn(run[p])'
    <3>1. ASSUME NEW t \in Scope, t # r.scope, NEW a \in Mode
          PROVE  <<a, t>> \in copy'[t] <=> file'[t][a] = "on"
      <4>1. <<a, t>> \in copy[t] <=> file[t][a] = "on"
        BY <2>1, <3>1 DEF AtRootOfSession, Agree, Lists
      <4> QED BY <1>1, <1>2, <2>1, <4>1, AloneRun DEF AtRootOfSession
    <3>2. \A t \in Scope \ {r.scope} : Agree(t, {})'
      BY <3>1 DEF Agree, Lists
    <3>3. Lists(run[p].own, run[p].scope, {})' /\ FileFits(run[p])'
      BY <1>1, <2>1, <2>5 DEF AtRootOfSession, Lists, FileFits
    <3>4. \A s \in Session \ {r.scope} : Mirrored(s)'
      BY <1>2, <2>1 DEF AtRootOfSession, Mirrored, Covers
    <3>5. Covers(run[p].own, copy[Root], run[p].scope)'
      BY <1>2, <2>1, <2>5 DEF AtRootOfSession, Covers
    <3> QED BY <2>5, <3>2, <3>3, <3>4, <3>5 DEF AtOwn
  <2>7. PICK sc \in Session : sc = r.scope
    BY <1>4, AloneRun
  <2>8. Fits(run[p])'
    <3>1. Visible(sc)' = Visible(sc)
      BY <1>3
    <3> QED BY <1>1, <2>5, <2>7, <3>1 DEF Known, Fits, Leaving, Compatible
  <2> QED BY <2>3, <2>5, <2>6, <2>8 DEF Known, Knows, Busy
<1>5. CASE r.scope = Root
  <2>1. AtRoot(r)
    BY <1>1, <1>5 DEF Known, Knows
  <2>2. Agree(Root, {})'
    BY <1>1, <1>2, <2>1 DEF AtRoot, Agree, Lists
  <2>3. Visible(Root)' = FilesOn(Root)
    BY <1>1, <1>2, <2>1 DEF AtRoot, Lists, Visible, Listed, FilesOn
  <2>4. Visible(Root)' \subseteq Visible(Root)
    BY <2>3 DEF Visible
  <2>5. AllFit'
    <3>1. Compatible(Visible(Root)')
      BY <2>4, FewerFit, AloneRun DEF Known, AllFit
    <3>2. \A t \in Session : Compatible(Visible(t)')
      BY <1>3, AloneRun DEF Known, AllFit
    <3> QED BY <3>1, <3>2, AloneRun DEF AllFit, Compatible
  <2>6. CASE r.left # {}
    <3>1. run' = [run EXCEPT ![p] = [r EXCEPT !.pc = "refresh"]]
      BY <1>5, <2>6 DEF WriteRoot, Goto
    <3>2. /\ run'[p].op = r.op /\ run'[p].mode = r.mode /\ run'[p].about = r.about
          /\ run'[p].scope = Root /\ run'[p].on = r.on /\ run'[p].pc = "refresh"
          /\ run'[p].root = r.root /\ run'[p].own = r.own /\ run'[p].todo = r.todo
          /\ run'[p].left = r.left
      BY <1>5, <3>1, AloneRun DEF Run
    <3>3. FileFits(run[p])' /\ NoFile(run[p])' /\ HandsOn(run[p])'
      BY <1>1, <1>5, <2>1, <3>2 DEF AtRoot, FileFits, NoFile, HandsOn
    <3>4. ASSUME NEW s \in Session
          PROVE  (Agree(s, Due(run[p], s)) /\ Covers(copy[s], run[p].own, s))'
      <4>1. Due(run[p], s)' = Due(r, s)
        BY <1>5, <3>2 DEF Due
      <4>2. Agree(s, Due(r, s)) /\ Mirrored(s)
        BY <2>1 DEF AtRoot
      <4>3. Agree(s, Due(run[p], s))'
        BY <1>1, <1>2, <4>1, <4>2 DEF Agree, Lists
      <4>4. Covers(copy[s], run[p].own, s)'
        BY <1>2, <2>1, <3>2, <4>2 DEF AtRoot, Mirrored, Covers
      <4> QED BY <4>3, <4>4
    <3>5. AtRefresh(run[p])'
      BY <1>2, <2>1, <2>2, <3>2, <3>3, <3>4 DEF AtRefresh, AtRoot
    <3>6. Fits(run[p])'
      <4>1. ASSUME r.about # r.mode PROVE Compatible((Visible(Root)' \ Leaving(run[p])') \cup {r.mode})
        <5>1. Compatible((Visible(Root) \ Leaving(r)) \cup {r.mode})
          BY <1>1, <1>5, <4>1 DEF Known, Fits
        <5>2. Leaving(run[p])' = Leaving(r)
          BY <1>1, <3>2 DEF Leaving
        <5> QED BY <2>4, <5>1, <5>2, FewerFit
      <4> QED BY <3>2, <4>1 DEF Fits, Compatible
    <3> QED BY <2>5, <3>2, <3>5, <3>6 DEF Known, Knows, Busy
  <2>7. CASE r.left = {}
    <3>1. run' = [run EXCEPT ![p] = After(r)]
      BY <1>5, <2>7 DEF WriteRoot, Goto
    <3>2. Session = {}
      BY <2>1, <2>7 DEF AtRoot
    <3>3. AllAgree'
      BY <2>2, <3>2, AloneRun DEF AllAgree
    <3>4. r.about # r.mode => Visible(Root)' \subseteq Visible(Root) \ {r.about}
      BY <1>5, <2>1, <2>3, <2>4 DEF AtRoot, FileFits, FilesOn
    <3> QED BY <1>1, <1>5, <2>5, <3>1, <3>3, <3>4, AloneRun, KnownAfter
  <2> QED BY <2>6, <2>7
<1> QED BY <1>4, <1>5

LEMMA KnownWriteOwn ==
  ASSUME AInv, NEW p \in Caller, Busy(p), Known(p), WriteOwn(p)
  PROVE  Known(p)'
<1> DEFINE r == run[p]
<1>0. PICK sc \in Scope : sc = r.scope
  BY AloneRun
<1>1. /\ r.pc = "own" /\ file' = file /\ copy' = [copy EXCEPT ![sc] = r.own]
      /\ run' = [run EXCEPT ![p] = After(r)]
  BY <1>0 DEF WriteOwn, At, Goto
<1>2. sc # Root /\ sc \in Session /\ AtOwn(r)
  BY <1>0, <1>1, AloneRun DEF Shape, Known, Knows
<1>3. copy'[sc] = r.own /\ \A t \in Scope \ {sc} : copy'[t] = copy[t]
  BY <1>1, AloneRun
<1>4. \A t \in Scope : Agree(t, {})'
  <2>1. Agree(sc, {})'
    BY <1>0, <1>1, <1>2, <1>3 DEF AtOwn, Agree, Lists
  <2>2. \A t \in Scope \ {sc} : Agree(t, {})'
    BY <1>0, <1>1, <1>2, <1>3 DEF AtOwn, Agree, Lists
  <2> QED BY <2>1, <2>2
<1>5. \A s \in Session : Mirrored(s)'
  <2>1. copy'[Root] = copy[Root]
    BY <1>2, <1>3, AloneRun
  <2>2. Mirrored(sc)'
    BY <1>0, <1>2, <1>3, <2>1 DEF AtOwn, Mirrored, Covers
  <2>3. \A s \in Session \ {sc} : Mirrored(s)'
    BY <1>0, <1>2, <1>3, <2>1, AloneRun DEF AtOwn, Mirrored, Covers
  <2> QED BY <2>2, <2>3
<1>6. AllAgree'
  BY <1>4, <1>5 DEF AllAgree
<1>7. Visible(sc)' = FilesOn(sc)
  BY <1>0, <1>1, <1>2, <1>3 DEF AtOwn, Lists, Visible, Listed, FilesOn
<1>8. Visible(sc)' \subseteq Visible(sc)
  BY <1>7 DEF Visible
<1>9. AllFit'
  <2>1. Compatible(Visible(sc)')
    BY <1>8, FewerFit, AloneRun DEF Known, AllFit
  <2>2. \A t \in Scope \ {sc} : Visible(t)' = Visible(t)
    BY <1>1, <1>3 DEF Visible, Listed, FilesOn
  <2> QED BY <2>1, <2>2 DEF Known, AllFit, Compatible
<1>10. r.about # r.mode => Visible(sc)' \subseteq Visible(sc) \ {r.about}
  BY <1>0, <1>2, <1>7, <1>8 DEF AtOwn, FileFits, FilesOn
<1> QED BY <1>0, <1>1, <1>6, <1>9, <1>10, KnownAfter

LEMMA KnownRefresh ==
  ASSUME AInv, NEW p \in Caller, Busy(p), Known(p), Refresh(p)
  PROVE  Known(p)'
<1> DEFINE r == run[p]
<1>1. r.pc = "refresh" /\ file' = file /\ r.scope = Root /\ r.left \subseteq Session
  BY AloneRun DEF Refresh, At, Shape
<1>2. AtRefresh(r)
  BY <1>1 DEF Known, Knows
<1>3. PICK s \in r.left :
        /\ \/ copy[s] = {} /\ UNCHANGED copy
           \/ copy' = [copy EXCEPT ![s] = Refreshed(r, s),
                                   ![Root] = IF Refreshed(r, s) = {} THEN @ ELSE r.root]
        /\ run' = [run EXCEPT ![p] = IF r.left \ {s} = {} THEN After(r)
                                     ELSE [r EXCEPT !.left = r.left \ {s}]]
  BY DEF Refresh, Goto
<1>4. s \in Session /\ s \in Scope /\ s # Root /\ Root \in Scope
  BY <1>1, AloneRun
<1>5. r.op = "clearAll" => r.about = r.mode
  BY AloneRun DEF Shape
<1>6. \A a \in Mode :
        /\ <<a, s>> \in r.root <=> <<a, s>> \in r.own /\ (r.op = "clearAll" => a # r.mode)
        /\ <<a, s>> \in r.own => <<a, s>> \in copy[s]
        /\ (r.op = "clearAll" => a # r.mode) => (<<a, s>> \in copy[s] <=> file[s][a] = "on")
        /\ r.op = "clearAll" => file[s][r.mode] = "none"
  <2>1. HandsOn(r) /\ Agree(s, Due(r, s)) /\ Covers(copy[s], r.own, s) /\ NoFile(r)
    BY <1>2, <1>4 DEF AtRefresh
  <2> SUFFICES ASSUME NEW a \in Mode
               PROVE  /\ <<a, s>> \in r.root <=> <<a, s>> \in r.own /\ (r.op = "clearAll" => a # r.mode)
                      /\ <<a, s>> \in r.own => <<a, s>> \in copy[s]
                      /\ (r.op = "clearAll" => a # r.mode) => (<<a, s>> \in copy[s] <=> file[s][a] = "on")
                      /\ r.op = "clearAll" => file[s][r.mode] = "none"
    OBVIOUS
  <2>2. <<a, s>> \in r.root <=> <<a, s>> \in r.own /\ (r.op = "clearAll" => a # r.mode)
    BY <1>4, <2>1 DEF HandsOn
  <2>3. <<a, s>> \in r.own => <<a, s>> \in copy[s]
    BY <2>1 DEF Covers
  <2>4. (r.op = "clearAll" => a # r.mode) => (<<a, s>> \in copy[s] <=> file[s][a] = "on")
    BY <1>1, <1>4, <1>5, <2>1 DEF Agree, Lists, Due
  <2>5. r.op = "clearAll" => file[s][r.mode] = "none"
    BY <1>4, <2>1 DEF NoFile
  <2> QED BY <2>2, <2>3, <2>4, <2>5
<1>7. copy'[Root] = r.root /\ \A t \in Scope \ {s, Root} : copy'[t] = copy[t]
  <2>1. copy[Root] = r.root
    BY <1>2 DEF AtRefresh
  <2> DEFINE there == Refreshed(r, s)
  <2> HIDE DEF there
  <2>2. \/ UNCHANGED copy
        \/ copy' = [copy EXCEPT ![s] = there, ![Root] = IF there = {} THEN @ ELSE r.root]
    BY <1>3 DEF there
  <2> QED BY <1>4, <2>1, <2>2, AloneRun
<1>8. \A a \in Mode : /\ <<a, s>> \in copy'[s] <=> file'[s][a] = "on"
                      /\ <<a, s>> \in r.root => <<a, s>> \in copy'[s]
  <2>1. CASE copy[s] = {} /\ UNCHANGED copy
    BY <1>1, <1>6, <2>1
  <2>2. CASE copy' = [copy EXCEPT ![s] = Refreshed(r, s),
                                  ![Root] = IF Refreshed(r, s) = {} THEN @ ELSE r.root]
    <3>1. copy'[s] = Refreshed(r, s)
      BY <1>4, <2>2, AloneRun
    <3> QED BY <1>1, <1>6, <3>1, RefreshedHas
  <2> QED BY <1>3, <2>1, <2>2
<1>9. Agree(Root, {})'
  BY <1>1, <1>2, <1>7 DEF AtRefresh, Agree, Lists
<1>10. Agree(s, {})' /\ Mirrored(s)'
  BY <1>7, <1>8 DEF Agree, Lists, Mirrored, Covers
<1>11. \A t \in Session \ r.left : Agree(t, {})' /\ Mirrored(t)'
  <2> SUFFICES ASSUME NEW t \in Session, t \notin r.left PROVE Agree(t, {})' /\ Mirrored(t)'
    OBVIOUS
  <2>1. copy'[t] = copy[t] /\ copy'[Root] = copy[Root] /\ Agree(t, {}) /\ Mirrored(t)
    BY <1>2, <1>7, AloneRun DEF AtRefresh
  <2> QED BY <1>1, <2>1 DEF Agree, Lists, Mirrored, Covers
<1>12. Visible(Root)' = Visible(Root) /\ \A t \in Scope \ {s, Root} : Visible(t)' = Visible(t)
  BY <1>1, <1>2, <1>7 DEF AtRefresh, Visible, Listed, FilesOn
<1>13. Visible(s)' \subseteq Visible(s)
  BY <1>1, <1>8 DEF Visible, Listed, FilesOn
<1>14. AllFit'
  <2>1. Compatible(Visible(s)')
    BY <1>4, <1>13, FewerFit DEF Known, AllFit
  <2> QED BY <1>12, <2>1, AloneRun DEF Known, AllFit, Compatible
<1>15. CASE r.left \ {s} = {}
  <2>1. run' = [run EXCEPT ![p] = After(r)]
    BY <1>3, <1>15
  <2>2. AllAgree'
    BY <1>9, <1>10, <1>11, <1>15, AloneRun DEF AllAgree
  <2>3. r.about # r.mode => Visible(Root)' \subseteq Visible(Root) \ {r.about}
    <3>1. Visible(Root) = FilesOn(Root)
      BY <1>2, <1>4, AgreeVisible DEF AtRefresh
    <3> QED BY <1>1, <1>2, <1>12, <3>1 DEF AtRefresh, FileFits, FilesOn
  <2> QED BY <1>1, <1>4, <1>14, <2>1, <2>2, <2>3, KnownAfter
<1>16. CASE r.left \ {s} # {}
  <2>1. run' = [run EXCEPT ![p] = [r EXCEPT !.left = r.left \ {s}]]
    BY <1>3, <1>16
  <2>2. /\ run'[p].op = r.op /\ run'[p].mode = r.mode /\ run'[p].about = r.about
        /\ run'[p].scope = Root /\ run'[p].on = r.on /\ run'[p].pc = "refresh"
        /\ run'[p].root = r.root /\ run'[p].own = r.own /\ run'[p].todo = r.todo
        /\ run'[p].left = r.left \ {s}
    BY <1>1, <2>1, AloneRun DEF Run
  <2>3. FileFits(run[p])' /\ NoFile(run[p])' /\ HandsOn(run[p])'
    BY <1>1, <1>2, <2>2 DEF AtRefresh, FileFits, NoFile, HandsOn
  <2>4. ASSUME NEW t \in r.left \ {s}
        PROVE  (Agree(t, Due(run[p], t)) /\ Covers(copy[t], run[p].own, t))'
    <3>1. t \in Session /\ t \in Scope /\ t # Root /\ t # s
      BY <1>1, AloneRun
    <3>2. copy'[t] = copy[t] /\ Agree(t, Due(r, t)) /\ Covers(copy[t], r.own, t)
      BY <1>2, <1>7, <3>1 DEF AtRefresh
    <3>3. Due(run[p], t)' = Due(r, t)
      BY <1>1, <2>2 DEF Due
    <3>4. Agree(t, Due(run[p], t))'
      BY <1>1, <3>2, <3>3 DEF Agree, Lists
    <3>5. Covers(copy[t], run[p].own, t)'
      BY <2>2, <3>2 DEF Covers
    <3> QED BY <3>4, <3>5
  <2>5. AtRefresh(run[p])'
    BY <1>7, <1>9, <1>10, <1>11, <2>2, <2>3, <2>4 DEF AtRefresh
  <2>6. Fits(run[p])'
    BY <1>1, <1>12, <2>2 DEF Known, Fits, Leaving, Compatible
  <2> QED BY <1>14, <2>2, <2>5, <2>6 DEF Known, Knows, Busy
<1> QED BY <1>15, <1>16

(* A call that begins while no other is under way.                           *)
LEMMA KnownBegin ==
  ASSUME AInv, NEW p \in Caller, Call(p), Alone(p), AllAgree, AllFit, mishap' = {}
  PROVE  Known(p)'
<1>1. /\ file \in [Scope -> [Mode -> {"none", "on", "off", "torn"}]]
      /\ Root \in Scope /\ Session \subseteq Scope
  BY DEF AInv, TypeOK, Scope
<1>2. Alone(p) = TRUE
  OBVIOUS
<1>3. Busy(p)' /\ ~Busy(p)
  BY BeginDisturbs
<1>4. ASSUME NEW m \in Mode, NEW sc \in Scope, Clear(p, m, sc) PROVE Known(p)'
  <2> DEFINE r == [[Begun("clear", m, sc, FALSE) EXCEPT !.pc = "sync"] EXCEPT !.alone = TRUE]
  <2>1. run'[p] = r
    BY <1>2, <1>4 DEF Clear, Begin
  <2>2. /\ r.op = "clear" /\ r.pc = "sync" /\ r.scope = sc /\ r.mode = m
        /\ r.about = m /\ r.on = FALSE
    BY DEF Begun
  <2> HIDE DEF r
  <2>3. PICK kept \in {"off", "none"} : file' = [file EXCEPT ![sc][m] = kept]
    BY <1>4 DEF Clear
  <2>4. \A t \in Scope, a \in Mode :
          file'[t][a] = IF t = sc /\ a = m THEN kept ELSE file[t][a]
    BY <1>1, <2>3
  <2>5. copy' = copy
    BY <1>4 DEF Clear
  <2>6. AllFit'
    BY <2>4, <2>5, FilesOff
  <2>7. \A t \in Scope : Agree(t, Due(run[p], t))'
    <3> SUFFICES ASSUME NEW t \in Scope, NEW a \in Mode, ~(t = sc /\ a = m)
                 PROVE  <<a, t>> \in copy'[t] <=> file'[t][a] = "on"
      BY <2>1, <2>2 DEF Agree, Lists, Due
    <3>1. <<a, t>> \in copy[t] <=> file[t][a] = "on"
      BY DEF AllAgree, Agree, Lists
    <3> QED BY <2>4, <2>5, <3>1
  <2>8. \A s \in Session : Mirrored(s)'
    BY <2>5 DEF AllAgree, Mirrored, Covers
  <2>9. FileFits(run[p])' /\ NoFile(run[p])'
    BY <2>1, <2>2, <2>4 DEF FileFits, NoFile
  <2>10. AtSync(run[p])'
    BY <2>1, <2>2, <2>7, <2>8, <2>9 DEF AtSync
  <2> QED BY <1>3, <2>1, <2>2, <2>6, <2>10 DEF Known, Knows, Fits
<1>5. ASSUME NEW m \in Mode, ClearAll(p, m) PROVE Known(p)'
  <2> DEFINE r == [[Begun("clearAll", m, Root, FALSE) EXCEPT
                      !.pc = "unlink", !.left = Scope] EXCEPT !.alone = TRUE]
  <2>1. run'[p] = r
    BY <1>2, <1>5 DEF ClearAll, Begin
  <2>2. r.op = "clearAll" /\ r.pc = "unlink" /\ r.left = Scope /\ r.mode = m
    BY DEF Begun
  <2> HIDE DEF r
  <2>3. file' = file /\ copy' = copy
    BY <1>5 DEF ClearAll
  <2>4. AllFit'
    BY <2>3 DEF AllFit, Compatible, Visible, Listed, FilesOn
  <2>5. \A t \in Scope : Agree(t, {run[p].mode})'
    BY <2>3 DEF AllAgree, Agree, Lists
  <2>6. \A s \in Session : Mirrored(s)'
    BY <2>3 DEF AllAgree, Mirrored, Covers
  <2> QED BY <1>3, <2>1, <2>2, <2>4, <2>5, <2>6 DEF Known, Knows, Fits
<1>6. ASSUME NEW r \in Run, r.pc \in {"complete", "file"}, run'[p] = r,
             file' = file, copy' = copy,
             r.pc = "complete" \/ r.on =>
               Compatible((Visible(r.scope) \ r.todo) \cup {r.mode})
      PROVE  Known(p)'
  <2>1. AllFit' /\ AllAgree'
    BY <1>6 DEF AllFit, Compatible, Visible, Listed, FilesOn, AllAgree, Agree, Lists,
       Mirrored, Covers
  <2>2. Visible(r.scope)' = Visible(r.scope)
    BY <1>6 DEF Visible, Listed, FilesOn
  <2>3. Fits(run[p])'
    BY <1>6, <2>2 DEF Fits, Leaving, Compatible
  <2>4. Knows(run[p])'
    BY <1>6, <2>1 DEF Knows
  <2> QED BY <1>3, <2>1, <2>3, <2>4 DEF Known
<1>7. ASSUME NEW m \in Mode, NEW sc \in Scope, NEW op \in {"start", "write"},
             Start(p, op, m, sc)
      PROVE  Known(p)'
  <2>1. Seen(sc) = {copy[sc]}
    BY <1>3 DEF Seen, Rewriting, Alone, Busy, At
  <2>2. PICK todo \in SUBSET Mode :
          /\ todo = Completed(Visible(sc), m)
          /\ Allowed(Visible(sc), m)
          /\ Begin(p, [Begun(op, m, sc, TRUE) EXCEPT
                         !.pc = IF todo = {} THEN "file" ELSE "complete", !.todo = todo])
    <3>1. Completed(Visible(sc), m) \in SUBSET Mode
      BY DEF Completed, Visible, Listed, FilesOn
    <3> QED BY <1>7, <2>1, <3>1 DEF Start, Visible
  <2> DEFINE r == [[Begun(op, m, sc, TRUE) EXCEPT
                      !.pc = IF todo = {} THEN "file" ELSE "complete", !.todo = todo]
                    EXCEPT !.alone = TRUE]
  <2>3. run'[p] = r
    BY <1>2, <2>2 DEF Begin
  <2>4. r \in Run /\ r.pc \in {"complete", "file"} /\ r.scope = sc /\ r.todo = todo
        /\ r.mode = m
    BY DEF Begun, Run
  <2>5. Compatible((Visible(sc) \ todo) \cup {m})
    BY <2>2, ResultFits DEF AllFit, Resulting
  <2>6. file' = file /\ copy' = copy
    BY <1>7 DEF Start
  <2> HIDE DEF r
  <2> QED BY <1>6, <2>3, <2>4, <2>5, <2>6
<1>8. ASSUME NEW m \in Mode, NEW sc \in Scope, NEW keep \in BOOLEAN,
             Deactivate(p, m, sc) \/ Update(p, m, sc, keep)
      PROVE  Known(p)'
  <2>1. PICK op \in {"write", "update"}, on \in BOOLEAN :
          /\ Begin(p, Begun(op, m, sc, on))
          /\ on => file[sc][m] = "on"
    BY <1>8 DEF Deactivate, Update
  <2> DEFINE r == [Begun(op, m, sc, on) EXCEPT !.alone = TRUE]
  <2>2. run'[p] = r
    BY <1>2, <2>1 DEF Begin
  <2>3. r \in Run /\ r.pc = "file" /\ r.scope = sc /\ r.todo = {} /\ r.mode = m /\ r.on = on
    BY DEF Begun, Run
  <2>4. ASSUME on PROVE Compatible((Visible(sc) \ {}) \cup {m})
    <3>1. (Visible(sc) \ {}) \cup {m} = Visible(sc)
      BY <2>1, <2>4 DEF Visible, FilesOn
    <3> QED BY <3>1 DEF AllFit
  <2>5. file' = file /\ copy' = copy
    BY <1>8 DEF Deactivate, Update
  <2> HIDE DEF r
  <2> QED BY <1>6, <2>2, <2>3, <2>4, <2>5
<1> QED BY <1>4, <1>5, <1>7, <1>8 DEF Call

LEMMA PeaceStays == AInv /\ AInv' /\ Peace /\ [Next]_vars => Peace'
<1> SUFFICES ASSUME AInv, AInv', Peace, [Next]_vars, mishap' = {}
             PROVE  /\ AllFit'
                    /\ (\A p \in Caller : ~Busy(p)') => AllAgree'
                    /\ \A p \in Caller : Solo(p)' => Known(p)'
  BY DEF Peace
<1>1. CASE UNCHANGED vars
  <2>1. mishap = {}
    BY <1>1 DEF vars
  <2>2. AllFit' /\ (AllAgree => AllAgree')
    BY <1>1, <2>1 DEF vars, Peace, AllFit, Compatible, Visible, Listed, FilesOn, AllAgree,
       Agree, Lists, Mirrored, Covers
  <2>3. \A p \in Caller : Solo(p)' => Known(p)'
    <3> SUFFICES ASSUME NEW p \in Caller, Solo(p)' PROVE Known(p)'
      OBVIOUS
    <3>1. Solo(p) /\ Known(p) /\ run' = run /\ file' = file /\ copy' = copy
      BY <1>1, <2>1 DEF vars, Peace, Solo, Busy
    <3>2. Knows(run[p])'
      <4>1. Knows(run[p]) /\ run'[p] = run[p]
        BY <3>1 DEF Known, Solo
      <4>2. AtSync(run[p]) => AtSync(run[p])'
        BY <3>1, <4>1 DEF AtSync, Agree, Lists, Mirrored, Covers, FileFits, NoFile, Due
      <4>3. AtRoot(run[p]) => AtRoot(run[p])'
        BY <3>1, <4>1 DEF AtRoot, Agree, Lists, Mirrored, Covers, FileFits, NoFile, Due,
           HandsOn
      <4>4. AtRootOfSession(run[p]) => AtRootOfSession(run[p])'
        BY <3>1, <4>1 DEF AtRootOfSession, Agree, Lists, Mirrored, Covers, FileFits
      <4>5. AtOwn(run[p]) => AtOwn(run[p])'
        BY <3>1, <4>1 DEF AtOwn, Agree, Lists, Mirrored, Covers, FileFits
      <4>6. AtRefresh(run[p]) => AtRefresh(run[p])'
        BY <3>1, <4>1 DEF AtRefresh, Agree, Lists, Mirrored, Covers, FileFits, NoFile, Due,
           HandsOn
      <4>7. run[p].pc = "unlink" =>
              /\ \A sc \in Scope : Agree(sc, {run[p].mode})'
              /\ \A s \in Session : Mirrored(s)'
              /\ \A sc \in Scope \ run[p].left : file[sc][run[p].mode] = "none"
        BY <3>1, <4>1 DEF Knows, Agree, Lists, Mirrored, Covers
      <4> QED BY <2>2, <3>1, <4>1, <4>2, <4>3, <4>4, <4>5, <4>6, <4>7 DEF Knows
    <3>3. Fits(run[p])'
      BY <3>1 DEF Solo, Known, Fits, Compatible, Visible, Listed, FilesOn, Leaving
    <3> QED BY <2>2, <3>1, <3>2, <3>3 DEF Known, Solo, Busy
  <2>4. \A p \in Caller : Busy(p)' <=> Busy(p)
    BY <1>1 DEF vars, Busy
  <2> QED BY <2>1, <2>2, <2>3, <2>4 DEF Peace
<1>2. ASSUME NEW p \in Caller, Step(p)
      PROVE  /\ AllFit'
             /\ (\A q \in Caller : ~Busy(q)') => AllAgree'
             /\ \A q \in Caller : Solo(q)' => Known(q)'
  <2>1. Busy(p) /\ mishap = {} /\ run[p].alone
    BY <1>2, StepGoes
  <2>2. Known(p)
    BY <2>1 DEF Peace, Solo
  <2>3. Known(p)'
    BY <1>2, <2>1, <2>2, KnownUnlink, KnownComplete, KnownWriteFile, KnownSync,
       KnownWriteRoot, KnownWriteOwn, KnownRefresh DEF Step
  <2>4. \A q \in Caller \ {p} : ~Busy(q)'
    BY <1>2, <2>1, StepGoes DEF AInv, Sole, Solo, Busy
  <2> QED BY <2>3, <2>4 DEF Known, Solo
<1>3. ASSUME NEW p \in Caller, Call(p)
      PROVE  /\ AllFit'
             /\ (\A q \in Caller : ~Busy(q)') => AllAgree'
             /\ \A q \in Caller : Solo(q)' => Known(q)'
  <2>1. mishap = {}
    BY <1>3, CallKeeps
  <2>2. Busy(p)' /\ \A q \in Caller \ {p} : ~Solo(q)'
    BY <1>3, BeginDisturbs DEF Solo, Busy
  <2>3. CASE Alone(p)
    <3>1. \A q \in Caller : ~Busy(q)
      BY <1>3, <2>3, BeginDisturbs DEF Alone
    <3>2. Known(p)'
      BY <1>3, <2>1, <2>3, <3>1, KnownBegin DEF Peace
    <3> QED BY <2>2, <3>2 DEF Known
  <2>4. CASE ~Alone(p)
    <3>1. file' = file /\ copy' = copy
      BY <1>3, <2>4, CallKeeps
    <3>2. AllFit'
      BY <2>1, <3>1 DEF Peace, AllFit, Compatible, Visible, Listed, FilesOn
    <3>3. ~Solo(p)'
      BY <1>3, <2>4, BeginDisturbs
    <3> QED BY <2>2, <3>2, <3>3
  <2> QED BY <2>3, <2>4
<1>4. ASSUME NEW p \in Caller, Crash(p) PROVE FALSE
  BY <1>4 DEF Crash
<1> QED BY <1>1, <1>2, <1>3, <1>4 DEF Next

LEMMA InitPeace == Init => Peace
<1> SUFFICES ASSUME Init PROVE Peace
  OBVIOUS
<1>1. \A p \in Caller : ~Busy(p)
  BY Records DEF Init, Busy
<1>2. AllAgree
  BY DEF Init, AllAgree, Agree, Lists, Mirrored, Covers, Scope
<1>3. AllFit
  BY DEF Init, AllFit, Compatible, Visible, Listed, FilesOn
<1> QED BY <1>1, <1>2, <1>3 DEF Peace, Solo

(* Whenever no call is under way, before any mishap, each list names exactly *)
(* the modes whose files are active in its scope, and the root's list names  *)
(* no mode that its session has ended.                                       *)
THEOREM QuietAgree == Spec => []QuietListsAgree
<1>1. AInv /\ Peace => QuietListsAgree
  <2> SUFFICES ASSUME AInv, Peace, mishap = {}, \A p \in Caller : ~Busy(p)
               PROVE  /\ \A sc \in Scope : Listed(copy[sc], sc) = FilesOn(sc)
                      /\ \A s \in Session : Own(copy[Root], s) \subseteq copy[s]
    BY DEF QuietListsAgree
  <2>1. AllAgree
    BY DEF Peace
  <2>2. \A sc \in Scope : Listed(copy[sc], sc) = FilesOn(sc)
    BY <2>1 DEF AllAgree, Agree, Lists, Listed, FilesOn
  <2>3. ASSUME NEW s \in Session, NEW e \in Own(copy[Root], s) PROVE e \in copy[s]
    <3>1. PICK m \in Mode, sc \in Scope : e = <<m, sc>>
      BY <2>3 DEF Own, AInv, TypeOK, Entry, Scope
    <3>2. sc = s /\ <<m, s>> \in copy[Root]
      BY <2>3, <3>1 DEF Own
    <3> QED BY <2>1, <3>1, <3>2 DEF AllAgree, Mirrored, Covers
  <2> QED BY <2>2, <2>3
<1> QED BY <1>1, InitTyped, Typed, InitPeace, PeaceStays, PTL DEF Spec

-----------------------------------------------------------------------------
(* The first crash.  Wherever it strikes, what the root's list names for a   *)
(* session is in the session's list, or, where that may be cut short, active *)
(* by its file.                                                              *)
LEMMA RootIsCovered ==
  ASSUME AInv, NEW p \in Caller, Busy(p), Known(p),
         NEW s \in Session, NEW m \in Mode, <<m, s>> \in copy[Root]
  PROVE  /\ run[p].pc = "own" /\ s = run[p].scope => file[s][m] = "on"
         /\ run[p].pc = "refresh" /\ s \in run[p].left => file[s][m] = "on"
         /\ ~(run[p].pc = "own" /\ s = run[p].scope) => <<m, s>> \in copy[s]
<1> DEFINE r == run[p]
<1>0. s \in Scope /\ s # Root
  BY AloneRun
<1>1. CASE r.pc = "own"
  <2>1. AtOwn(r)
    BY <1>1 DEF Known, Knows
  <2>2. CASE s = r.scope
    <3>1. <<m, s>> \in r.own
      BY <2>1, <2>2 DEF AtOwn, Covers
    <3>2. file[s][m] = "on"
      BY <2>1, <2>2, <3>1 DEF AtOwn, Lists
    <3> QED BY <1>1, <2>2, <3>2
  <2>3. CASE s # r.scope
    BY <1>1, <2>1, <2>3 DEF AtOwn, Mirrored, Covers
  <2> QED BY <2>2, <2>3
<1>2. CASE r.pc = "refresh"
  <2>1. AtRefresh(r) /\ r.scope = Root
    BY <1>2, AloneRun DEF Known, Knows, Shape
  <2>2. CASE s \in r.left
    <3>1. <<m, s>> \in r.own /\ (r.op = "clearAll" => m # r.mode)
      BY <2>1 DEF AtRefresh, HandsOn
    <3>2. <<m, s>> \in copy[s]
      BY <2>1, <2>2, <3>1 DEF AtRefresh, Covers
    <3>3. m \notin Due(r, s)
      BY <1>0, <2>1, <3>1, AloneRun DEF Due, Shape
    <3>4. file[s][m] = "on"
      BY <2>1, <2>2, <3>2, <3>3 DEF AtRefresh, Agree, Lists
    <3> QED BY <1>2, <3>2, <3>4
  <2>3. CASE s \notin r.left
    BY <1>2, <2>1, <2>3 DEF AtRefresh, Mirrored, Covers
  <2> QED BY <2>2, <2>3
<1>3. CASE r.pc \in {"complete", "file", "unlink", "sync", "root"}
  <2>1. Mirrored(s)
    <3>1. r.pc \in {"complete", "file"} => Mirrored(s)
      BY DEF Known, Knows, AllAgree
    <3>2. r.pc \in {"unlink", "sync"} => Mirrored(s)
      BY DEF Known, Knows, AtSync
    <3>3. r.pc = "root" => Mirrored(s)
      BY DEF Known, Knows, AtRoot, AtRootOfSession
    <3> QED BY <1>3, <3>1, <3>2, <3>3
  <2> QED BY <1>3, <2>1 DEF Mirrored, Covers
<1> QED BY <1>1, <1>2, <1>3, AloneRun, RunFields DEF Run

LEMMA CrashRests ==
  ASSUME AInv, NEW p \in Caller, Known(p), Crash(p)
  PROVE  AllFit' /\ AllBacked'
<1> DEFINE r == run[p]
<1>1. Busy(p)
  BY DEF Crash
<1>2. \A sc \in Scope, m \in Mode : file'[sc][m] = "on" => file[sc][m] = "on"
  <2>1. file' = file \/ \E m \in Torn(p) : file' = [file EXCEPT ![r.scope][m] = "torn"]
    BY DEF Crash
  <2>2. ASSUME NEW m, file' = [file EXCEPT ![r.scope][m] = "torn"]
        PROVE  \A sc \in Scope, a \in Mode : file'[sc][a] = "on" => file[sc][a] = "on"
    <3>1. \A sc \in Scope, a \in Mode :
            file'[sc][a] = IF sc = r.scope /\ a = m THEN "torn" ELSE file[sc][a]
      BY <1>1, <2>2, AloneRun
    <3> QED BY <3>1
  <2> QED BY <2>1, <2>2
<1>3. \A sc \in Scope : copy'[sc] \in {copy[sc], {}}
  <2>1. copy' = copy \/ \E c \in Scope : copy' = [copy EXCEPT ![c] = {}]
    BY DEF Crash
  <2> QED BY <1>1, <2>1, AloneRun
<1>4. AllFit'
  <2> SUFFICES ASSUME NEW sc \in Scope PROVE Compatible(Visible(sc)')
    BY DEF AllFit, Compatible
  <2>1. Visible(sc)' \subseteq Visible(sc)
    BY <1>2, <1>3 DEF Visible, Listed, FilesOn
  <2> QED BY <2>1, FewerFit DEF Known, AllFit
<1>5. ASSUME NEW sc \in Scope, NEW m \in Mode, <<m, sc>> \in copy'[Root]
      PROVE  <<m, sc>> \in copy'[sc] \/ file'[sc][m] = "on"
  <2>1. CASE sc = Root
    BY <1>5, <2>1
  <2>2. CASE sc # Root
    <3>1. sc \in Session /\ Root \in Scope
      BY <1>1, <2>2, AloneRun
    <3>2. copy'[Root] = copy[Root] /\ <<m, sc>> \in copy[Root]
      BY <1>3, <1>5, <3>1
    <3>3. /\ r.pc = "own" /\ sc = r.scope => file[sc][m] = "on"
          /\ r.pc = "refresh" /\ sc \in r.left => file[sc][m] = "on"
          /\ ~(r.pc = "own" /\ sc = r.scope) => <<m, sc>> \in copy[sc]
      BY <1>1, <3>1, <3>2, RootIsCovered
    <3>4. r.pc \in {"own", "refresh"} => file' = file
      BY DEF Crash, Torn, At
    <3>5. copy'[sc] # copy[sc] => \/ r.pc = "own" /\ sc = r.scope
                                  \/ r.pc = "refresh" /\ sc \in r.left
      <4>1. CASE copy' = copy
        BY <4>1
      <4>2. CASE \E c \in Scope : Rewriting(p, c) /\ copy' = [copy EXCEPT ![c] = {}]
        <5>1. PICK c \in Scope : Rewriting(p, c) /\ copy' = [copy EXCEPT ![c] = {}]
          BY <4>2
        <5>2. copy'[sc] # copy[sc] => c = sc
          BY <1>1, <5>1, AloneRun
        <5> QED BY <2>2, <5>1, <5>2 DEF Rewriting, At
      <4> QED BY <4>1, <4>2 DEF Crash
    <3> QED BY <3>3, <3>4, <3>5
  <2> QED BY <2>1, <2>2
<1>6. AllBacked'
  BY <1>5 DEF AllBacked, Backed, Visible, Listed, FilesOn
<1> QED BY <1>4, <1>6

-----------------------------------------------------------------------------
(* The steps of a call that runs alone after the crash.                      *)
LEMMA BackedHas ==
  ASSUME NEW c, NEW sc \in Scope, NEW but
  PROVE  Backed(c, sc, but) <=>
           \A m \in Mode \ but :
             <<m, sc>> \in c => <<m, sc>> \in copy[sc] \/ file[sc][m] = "on"
BY VisibleHas DEF Backed

LEMMA SteadyUnlink ==
  ASSUME AInv, NEW p \in Caller, Busy(p), Steady(p), Unlink(p)
  PROVE  Steady(p)'
<1> DEFINE r == run[p]
<1>1. r.pc = "unlink" /\ r.op = "clearAll" /\ r.scope = Root /\ r.about = r.mode /\ ~r.on
  BY AloneRun DEF Unlink, At, Shape
<1>2. PICK sc \in r.left :
        /\ file' = [file EXCEPT ![sc][r.mode] = "none"]
        /\ run' = [run EXCEPT ![p] =
                     [r EXCEPT !.left = r.left \ {sc},
                               !.pc = IF r.left \ {sc} = {} THEN "sync" ELSE "unlink"]]
        /\ copy' = copy
  BY DEF Unlink, Goto
<1>3. /\ run'[p].op = "clearAll" /\ run'[p].mode = r.mode /\ run'[p].about = r.mode
      /\ run'[p].scope = Root /\ run'[p].on = r.on /\ run'[p].left = r.left \ {sc}
      /\ run'[p].pc = IF r.left \ {sc} = {} THEN "sync" ELSE "unlink"
  BY <1>1, <1>2, AloneRun DEF Run
<1>4. \A t \in Scope, m \in Mode :
        file'[t][m] = IF t = sc /\ m = r.mode THEN "none" ELSE file[t][m]
  BY <1>2, AloneRun
<1>5. AllFit'
  BY <1>2, <1>4, FilesOff DEF Steady
<1>6. /\ \A t \in Scope : Backed(copy[Root], t, {r.mode})
      /\ \A t \in Scope \ r.left : file[t][r.mode] = "none"
  BY <1>1 DEF Steady, Holds
<1>7. \A t \in Scope, m \in Mode \ {r.mode} :
        <<m, t>> \in copy'[Root] => <<m, t>> \in copy'[t] \/ file'[t][m] = "on"
  BY <1>2, <1>4, <1>6, BackedHas
<1>8. \A t \in Scope \ (r.left \ {sc}) : file'[t][r.mode] = "none"
  BY <1>4, <1>6, AloneRun
<1>9. \A t \in Scope : Backed(copy[Root], t, {r.mode})'
  BY <1>3, <1>7 DEF Backed, Visible, Listed, FilesOn
<1>10. Holds(run[p])'
  <2>1. CASE r.left \ {sc} = {}
    <3>1. FileFits(run[p])'
      BY <1>1, <1>3, <1>8, <2>1, AloneRun DEF FileFits
    <3>2. \A t \in Scope : Backed(copy[Root], t, Due(run[p], t))'
      BY <1>3, <1>9 DEF Due, Backed
    <3> QED BY <1>3, <2>1, <3>1, <3>2 DEF Holds
  <2>2. CASE r.left \ {sc} # {}
    BY <1>3, <1>8, <1>9, <2>2 DEF Holds, Backed
  <2> QED BY <2>1, <2>2
<1>11. Fits(run[p])'
  BY <1>3 DEF Fits
<1> QED BY <1>3, <1>5, <1>10, <1>11 DEF Steady, Busy

LEMMA SteadyComplete ==
  ASSUME AInv, NEW p \in Caller, Busy(p), Steady(p), Complete(p)
  PROVE  Steady(p)'
<1> DEFINE r == run[p]
<1>1. r.pc = "complete" /\ r.mode \notin r.todo /\ r.op \notin {"clear", "clearAll"}
  BY AloneRun DEF Complete, At, Shape
<1>2. PICK a \in r.todo :
        /\ file' = [file EXCEPT ![r.scope][a] = IF @ = "on" THEN "off" ELSE @]
        /\ run' = [run EXCEPT ![p] = [r EXCEPT !.pc = "sync", !.about = a, !.todo = @ \ {a}]]
        /\ copy' = copy
  BY DEF Complete, Goto
<1>3. /\ run'[p].op = r.op /\ run'[p].mode = r.mode /\ run'[p].about = a
      /\ run'[p].scope = r.scope /\ run'[p].on = r.on
      /\ run'[p].pc = "sync" /\ run'[p].todo = r.todo \ {a}
  BY <1>1, <1>2, AloneRun DEF Run
<1>4. a \in Mode /\ a # r.mode
  BY <1>1, AloneRun
<1>5. \A t \in Scope, m \in Mode :
        file'[t][m] = IF t = r.scope /\ m = a /\ file[t][m] = "on" THEN "off" ELSE file[t][m]
  BY <1>2, <1>4, AloneRun
<1>6. AllFit' /\ \A sc \in Scope : Visible(sc)' \subseteq Visible(sc)
  BY <1>2, <1>5, FilesOff DEF Steady
<1>7. \A t \in Scope : Backed(copy[Root], t, {})
  BY <1>1 DEF Steady, Holds
<1>8. Holds(run[p])'
  <2>1. \A t \in Scope : Backed(copy[Root], t, Due(run[p], t))'
    <3> SUFFICES ASSUME NEW t \in Scope, NEW m \in Mode, ~(t = r.scope /\ m = a),
                        <<m, t>> \in copy'[Root]
                 PROVE  <<m, t>> \in copy'[t] \/ file'[t][m] = "on"
      BY <1>1, <1>3 DEF Due, Backed, Visible, Listed, FilesOn
    <3> QED BY <1>2, <1>5, <1>7, BackedHas
  <2>2. FileFits(run[p])'
    BY <1>3, <1>4, <1>5, AloneRun DEF FileFits
  <2> QED BY <1>3, <1>4, <2>1, <2>2 DEF Holds
<1>9. Fits(run[p])'
  <2>1. Compatible((Visible(r.scope) \ r.todo) \cup {r.mode})
    BY <1>1 DEF Steady, Fits, Leaving
  <2>2. (Visible(run[p].scope) \ Leaving(run[p]))' \subseteq Visible(r.scope) \ r.todo
    BY <1>3, <1>4, <1>6, AloneRun DEF Leaving
  <2>3. Compatible((Visible(run[p].scope)' \ Leaving(run[p])') \cup {r.mode})
    BY <2>1, <2>2, FewerFit
  <2> QED BY <1>3, <2>3 DEF Fits, Compatible
<1> QED BY <1>3, <1>6, <1>8, <1>9 DEF Steady, Busy

LEMMA SteadyWriteFile ==
  ASSUME AInv, NEW p \in Caller, Busy(p), Steady(p), WriteFile(p)
  PROVE  Steady(p)'
<1> DEFINE r == run[p]
<1>1. r.pc = "file" /\ r.todo = {} /\ r.op \notin {"clear", "clearAll"}
  BY AloneRun DEF WriteFile, At, Shape
<1>2. /\ file' = [file EXCEPT ![r.scope][r.mode] = IF r.on THEN "on" ELSE "off"]
      /\ run' = [run EXCEPT ![p] = [r EXCEPT !.pc = "sync", !.about = r.mode]]
      /\ copy' = copy
  BY DEF WriteFile, Goto
<1>3. /\ run'[p].op = r.op /\ run'[p].mode = r.mode /\ run'[p].about = r.mode
      /\ run'[p].scope = r.scope /\ run'[p].on = r.on /\ run'[p].pc = "sync"
  BY <1>1, <1>2, AloneRun DEF Run
<1>4. \A t \in Scope, m \in Mode :
        file'[t][m] = IF t = r.scope /\ m = r.mode THEN (IF r.on THEN "on" ELSE "off")
                      ELSE file[t][m]
  BY <1>2, AloneRun
<1>5. \A t \in Scope : Backed(copy[Root], t, {})
  BY <1>1 DEF Steady, Holds
<1>6. Holds(run[p])'
  <2>1. \A t \in Scope : Backed(copy[Root], t, Due(run[p], t))'
    <3> SUFFICES ASSUME NEW t \in Scope, NEW m \in Mode, ~(t = r.scope /\ m = r.mode),
                        <<m, t>> \in copy'[Root]
                 PROVE  <<m, t>> \in copy'[t] \/ file'[t][m] = "on"
      BY <1>1, <1>3 DEF Due, Backed, Visible, Listed, FilesOn
    <3> QED BY <1>2, <1>4, <1>5, BackedHas
  <2>2. FileFits(run[p])'
    BY <1>3, <1>4, AloneRun DEF FileFits
  <2>3. file'[r.scope][r.mode] \in {"on", "off"}
    BY <1>4, AloneRun
  <2> QED BY <1>3, <2>1, <2>2, <2>3 DEF Holds
<1>7. Fits(run[p])'
  BY <1>3 DEF Fits
<1>8. AllFit'
  <2> SUFFICES ASSUME NEW sc \in Scope PROVE Compatible(Visible(sc)')
    BY DEF AllFit, Compatible
  <2>1. CASE r.on /\ sc = r.scope
    <3>1. Compatible((Visible(r.scope) \ {}) \cup {r.mode})
      BY <1>1, <2>1 DEF Steady, Fits, Leaving
    <3>2. Visible(sc)' \subseteq (Visible(r.scope) \ {}) \cup {r.mode}
      BY <1>2, <1>4, <2>1 DEF Visible, Listed, FilesOn
    <3> QED BY <3>1, <3>2, FewerFit
  <2>2. CASE ~(r.on /\ sc = r.scope)
    <3>1. Visible(sc)' \subseteq Visible(sc)
      BY <1>2, <1>4, <2>2 DEF Visible, Listed, FilesOn
    <3> QED BY <3>1, FewerFit DEF Steady, AllFit
  <2> QED BY <2>1, <2>2
<1> QED BY <1>3, <1>6, <1>7, <1>8 DEF Steady, Busy

LEMMA SteadyAfter ==
  ASSUME AInv, NEW p \in Caller, Busy(p), Steady(p), AllBacked', AllFit',
         run[p].pc \in {"sync", "root", "own", "refresh"},
         run' = [run EXCEPT ![p] = After(run[p])],
         NEW sc \in Scope, sc = run[p].scope,
         run[p].about # run[p].mode =>
            Visible(sc)' \subseteq Visible(sc) \ {run[p].about}
  PROVE  Steady(p)'
<1> DEFINE r == run[p]
<1>1. CASE r.about = r.mode
  <2>1. run'[p] = NoRun
    BY <1>1, AloneRun DEF After
  <2> QED BY <2>1, Records DEF Steady, Busy
<1>2. CASE r.about # r.mode
  <2>1. /\ run'[p].mode = r.mode /\ run'[p].scope = sc /\ run'[p].todo = r.todo
        /\ run'[p].pc \in {"complete", "file"}
    BY <1>2, AloneRun DEF After, Run
  <2>2. Holds(run[p])'
    BY <2>1 DEF Holds, AllBacked
  <2>3. Compatible((Visible(sc) \ (r.todo \cup {r.about})) \cup {r.mode})
    BY <1>2 DEF Steady, Fits, Leaving
  <2>4. Visible(sc)' \ r.todo \subseteq Visible(sc) \ (r.todo \cup {r.about})
    BY <1>2
  <2>5. Compatible((Visible(sc)' \ r.todo) \cup {r.mode})
    BY <2>3, <2>4, FewerFit
  <2>6. Fits(run[p])'
    BY <2>1, <2>5 DEF Fits, Leaving, Compatible
  <2> QED BY <2>1, <2>2, <2>6 DEF Steady, Busy
<1> QED BY <1>1, <1>2

LEMMA SteadySync ==
  ASSUME AInv, NEW p \in Caller, Busy(p), run[p].alone, Steady(p), Sync(p)
  PROVE  Steady(p)'
<1> DEFINE r == run[p]
<1>0. PICK sc \in Scope, m \in Mode, active \in BOOLEAN :
        sc = r.scope /\ m = r.about /\ active = (m = r.mode /\ r.on)
  BY AloneRun, RunFields
<1> USE <1>0
<1>1. r.pc = "sync" /\ At(p, "sync") /\ Solo(p)
  BY DEF Sync, At, Solo
<1>2. /\ \A t \in Scope : Backed(copy[Root], t, Due(r, t))
      /\ FileFits(r)
      /\ r.op = "write" /\ r.about = r.mode => file[r.scope][r.mode] \in {"on", "off"}
  BY <1>1 DEF Steady, Holds
<1>3. Seen(Root) = {copy[Root]} /\ Seen(sc) = {copy[sc]}
  BY <1>1, AloneRun, SoloSees
<1>4. (Active(r) <=> active) /\ (file[sc][m] = "on" <=> active)
  BY <1>2, AloneRun DEF Active, FileFits
<1>5. ~Unreadable(r)
  BY <1>2 DEF Unreadable
<1>6. Active(r) = active /\ Active(r) \in BOOLEAN
  BY <1>4, AloneRun, RunFields DEF Active
<1> DEFINE root0 == IF r.op = "clearAll" THEN RootWithout(copy[Root], m)
                   ELSE NextRoot(copy[Root], copy[sc], m, sc, Active(r))
           own0 == IF sc = Root THEN copy[Root]
                  ELSE NextOwn(copy[Root], copy[sc], m, sc, Active(r))
           left0 == IF sc = Root THEN Session ELSE {}
<1>7. /\ file' = file /\ copy' = copy
      /\ \/ active /\ run' = [run EXCEPT ![p] = NoRun]
         \/ copy[Root] = {} /\ copy[sc] = {} /\ ~active /\ r.op # "clearAll"
            /\ run' = [run EXCEPT ![p] = After(r)]
         \/ run' = [run EXCEPT ![p] =
                      [r EXCEPT !.pc = "root", !.root = root0, !.own = own0, !.left = left0]]
  <2>1. /\ file' = file /\ copy' = copy
        /\ \/ Active(r) /\ run' = [run EXCEPT ![p] = NoRun]
           \/ copy[Root] = {} /\ copy[sc] = {} /\ ~Active(r) /\ r.op # "clearAll"
              /\ run' = [run EXCEPT ![p] = After(r)]
           \/ run' = [run EXCEPT ![p] =
                        [r EXCEPT !.pc = "root", !.root = root0, !.own = own0, !.left = left0]]
    <3> HIDE <1>0
    <3> DEFINE allowed == Allowed(Listed(copy[Root] \cup copy[sc], sc), m)
    <3> HIDE DEF allowed
    <3>1. /\ file' = file /\ copy' = copy
          /\ \/ (Unreadable(r) \/ (Active(r) /\ ~allowed)) /\ run' = [run EXCEPT ![p] = NoRun]
             \/ copy[Root] = {} /\ copy[sc] = {} /\ ~Active(r) /\ r.op # "clearAll"
                /\ run' = [run EXCEPT ![p] = After(r)]
             \/ run' = [run EXCEPT ![p] =
                          [r EXCEPT !.pc = "root", !.root = root0, !.own = own0, !.left = left0]]
      BY <1>0, <1>3 DEF Sync, Goto, allowed
    <3> QED BY <1>5, <3>1
  <2> QED BY <1>4, <2>1
<1>8. PICK root, own, left : root = root0 /\ own = own0 /\ left = left0
  OBVIOUS
<1>9. AllFit' /\ \A t \in Scope : Visible(t)' = Visible(t)
  BY <1>7 DEF Steady, AllFit, Visible, Listed, FilesOn, Compatible
<1>10. \A t \in Scope : \A a \in Mode \ Due(r, t) : <<a, t>> \in copy[Root] => a \in Visible(t)
  BY <1>2 DEF Backed
<1>11. CASE active /\ run' = [run EXCEPT ![p] = NoRun]
  <2>1. r.op # "clearAll"
    BY <1>11, AloneRun DEF Shape
  <2>2. m \in Visible(sc)
    BY <1>4, <1>11, VisibleHas
  <2>3. AllBacked'
    BY <1>7, <1>9, <1>10, <2>1, <2>2 DEF AllBacked, Backed, Due
  <2>4. run'[p] = NoRun
    BY <1>11, AloneRun
  <2> QED BY <1>9, <2>3, <2>4, Records DEF Steady, Busy
<1>12. CASE copy[Root] = {} /\ copy[sc] = {} /\ ~active /\ r.op # "clearAll"
            /\ run' = [run EXCEPT ![p] = After(r)]
  <2>1. AllBacked'
    BY <1>7, <1>12 DEF AllBacked, Backed
  <2>2. m \notin Visible(sc)
    BY <1>4, <1>12, VisibleHas
  <2>3. r.about # r.mode => Visible(sc)' \subseteq Visible(sc) \ {r.about}
    BY <1>9, <2>2
  <2> QED BY <1>1, <1>9, <1>12, <2>1, <2>3, SteadyAfter
<1>13. CASE run' = [run EXCEPT ![p] =
                      [r EXCEPT !.pc = "root", !.root = root, !.own = own, !.left = left]]
  <2>1. /\ run'[p].op = r.op /\ run'[p].mode = r.mode /\ run'[p].about = m
        /\ run'[p].scope = sc /\ run'[p].on = r.on /\ run'[p].pc = "root"
        /\ run'[p].root = root /\ run'[p].own = own /\ run'[p].todo = r.todo
    BY <1>13, AloneRun DEF Run
  <2>2. FileFits(run[p])'
    BY <1>2, <1>7, <2>1 DEF FileFits
  <2>3. m # r.mode => ~active
    OBVIOUS
  <2>4. CASE sc # Root
    <3>1. sc \in Session /\ r.op # "clearAll" /\ sc \in Scope
      BY <2>4, AloneRun DEF Shape
    <3>2. /\ root = NextRoot(copy[Root], copy[sc], m, sc, active)
          /\ own = NextOwn(copy[Root], copy[sc], m, sc, active)
      BY <1>6, <1>8, <2>4, <3>1
    <3>3. \A a \in Mode : <<a, sc>> \in own <=>
            IF a = m THEN active ELSE <<a, sc>> \in copy[Root] \/ <<a, sc>> \in copy[sc]
      <4> HIDE <1>0
      <4> QED BY <3>2, NextOwnHas
    <3>4. \A a \in Mode : <<a, sc>> \in own => a \in Visible(sc)
      <4>1. ASSUME NEW a \in Mode, <<a, sc>> \in own PROVE a \in Visible(sc)
        <5>1. CASE a = m
          BY <1>4, <3>3, <4>1, <5>1, VisibleHas
        <5>2. CASE a # m
          BY <1>10, <3>1, <3>3, <4>1, <5>2, VisibleHas DEF Due
        <5> QED BY <5>1, <5>2
      <4> QED BY <4>1
    <3>5. Covers(own, root, sc)
      BY <3>1, <3>2, NextRootCovered DEF Covers
    <3>6. \A a \in Mode, t \in Scope \ {sc} : <<a, t>> \in root => a \in Visible(t)
      <4>1. copy[Root] \in SUBSET Entry /\ copy[sc] \in SUBSET (Mode \X {sc})
        BY <3>1, AloneRun
      <4>2. \A a \in Mode, t \in Scope \ {sc} : <<a, t>> \in root <=> <<a, t>> \in copy[Root]
        <5> HIDE <1>0
        <5> QED BY <3>1, <3>2, <4>1, NextRootElsewhere
      <4> QED BY <1>10, <3>1, <4>2 DEF Due
    <3>7. m # r.mode => <<m, sc>> \notin own
      BY <2>3, <3>3
    <3>8. KeepsSession(run[p], run[p].root)'
      BY <1>9, <2>1, <3>4, <3>5, <3>6, <3>7 DEF KeepsSession, Backed, Covers
    <3>9. Holds(run[p])'
      BY <2>1, <2>2, <2>4, <3>8 DEF Holds
    <3>10. Fits(run[p])'
      BY <1>1, <1>9, <3>1, <2>1 DEF Steady, Fits, Leaving, Compatible
    <3> QED BY <1>9, <2>1, <3>9, <3>10 DEF Steady, Busy
  <2>5. CASE sc = Root
    <3>1. r.op = "clearAll" => m = r.mode /\ ~active
      BY AloneRun DEF Shape
    <3>2. \A a \in Mode, t \in Scope :
            <<a, t>> \in root <=>
              IF r.op = "clearAll" THEN <<a, t>> \in copy[Root] /\ a # m
              ELSE IF a = m /\ t = Root THEN active ELSE <<a, t>> \in copy[Root]
      <4>1. CASE r.op = "clearAll"
        BY <1>8, <4>1 DEF RootWithout
      <4>2. CASE r.op # "clearAll"
        <5>1. root = NextRoot(copy[Root], copy[Root], m, Root, active)
          BY <1>6, <1>8, <2>5, <4>2
        <5>2. \A a \in Mode, t \in Scope :
                <<a, t>> \in NextRoot(copy[Root], copy[Root], m, Root, active) <=>
                  IF a = m /\ t = Root THEN active ELSE <<a, t>> \in copy[Root]
          <6> HIDE <1>0
          <6> QED BY NextRootHas
        <5> QED BY <4>2, <5>1, <5>2
      <4> QED BY <4>1, <4>2
    <3>3. \A t \in Scope, a \in Mode : <<a, t>> \in root => a \in Visible(t)
      <4>1. ASSUME NEW t \in Scope, NEW a \in Mode, <<a, t>> \in root PROVE a \in Visible(t)
        <5>1. CASE a = m /\ t = Root
          BY <1>4, <2>5, <3>1, <3>2, <4>1, <5>1, VisibleHas
        <5>2. CASE ~(a = m /\ t = Root)
          BY <1>10, <2>5, <3>2, <4>1, <5>2 DEF Due
        <5> QED BY <5>1, <5>2
      <4> QED BY <4>1
    <3>4. m # r.mode => <<m, Root>> \notin root
      BY <2>3, <2>5, <3>1, <3>2
    <3>5. KeepsRoot(run[p])'
      BY <1>9, <2>1, <3>3, <3>4 DEF KeepsRoot, Backed
    <3>6. Holds(run[p])'
      BY <2>1, <2>2, <2>5, <3>5 DEF Holds
    <3>7. Fits(run[p])'
      <4>1. Visible(Root)' = Visible(Root)
        BY <1>9, <2>5
      <4> QED BY <1>1, <2>5, <2>1, <4>1 DEF Steady, Fits, Leaving, Compatible
    <3> QED BY <1>9, <2>1, <3>6, <3>7 DEF Steady, Busy
  <2> QED BY <2>4, <2>5
<1> QED BY <1>7, <1>8, <1>11, <1>12, <1>13

LEMMA SteadyWriteRoot ==
  ASSUME AInv, NEW p \in Caller, Busy(p), Steady(p), WriteRoot(p)
  PROVE  Steady(p)'
<1> DEFINE r == run[p]
<1>1. r.pc = "root" /\ file' = file /\ copy' = [copy EXCEPT ![Root] = r.root]
  BY DEF WriteRoot, At
<1>2. copy'[Root] = r.root /\ \A t \in Session : copy'[t] = copy[t]
  BY <1>1, AloneRun
<1>3. \A t \in Session : Visible(t)' = Visible(t)
  BY <1>1, <1>2 DEF Visible, Listed, FilesOn
<1>4. FileFits(r) /\ (IF r.scope = Root THEN KeepsRoot(r) ELSE KeepsSession(r, r.root))
  BY <1>1 DEF Steady, Holds
<1>5. Visible(Root)' \subseteq Visible(Root)
  <2>1. Backed(r.root, Root, {}) /\ Root \in Scope
    BY <1>4, AloneRun DEF KeepsRoot, KeepsSession
  <2> QED BY <1>1, <1>2, <2>1 DEF Backed, Visible, Listed, FilesOn
<1>6. AllFit'
  <2>1. Compatible(Visible(Root)')
    BY <1>5, FewerFit, AloneRun DEF Steady, AllFit
  <2>2. \A t \in Session : Compatible(Visible(t)')
    BY <1>3, AloneRun DEF Steady, AllFit
  <2> QED BY <2>1, <2>2, AloneRun DEF AllFit, Compatible
<1>7. \A t \in Scope, m \in Mode : t = Root /\ <<m, t>> \in r.root => m \in Visible(t)'
  BY <1>2 DEF Visible, Listed
<1>8. CASE r.scope # Root
  <2>1. run' = [run EXCEPT ![p] = [r EXCEPT !.pc = "own"]]
    BY <1>8 DEF WriteRoot, Goto
  <2>2. /\ run'[p].op = r.op /\ run'[p].mode = r.mode /\ run'[p].about = r.about
        /\ run'[p].scope = r.scope /\ run'[p].on = r.on /\ run'[p].pc = "own"
        /\ run'[p].own = r.own /\ run'[p].todo = r.todo
    BY <2>1, AloneRun DEF Run
  <2>3. PICK sc \in Session : sc = r.scope
    BY <1>8, AloneRun
  <2>4. KeepsSession(run[p], copy[Root])'
    <3>1. /\ Backed(r.own, sc, {}) /\ Covers(r.own, r.root, sc)
          /\ \A t \in Scope \ {sc} : Backed(r.root, t, {})
          /\ r.about # r.mode => <<r.about, sc>> \notin r.own
      BY <1>4, <1>8, <2>3 DEF KeepsSession
    <3>2. \A m \in Mode : <<m, sc>> \in r.own => m \in Visible(sc)'
      BY <1>3, <3>1 DEF Backed
    <3>3. \A m \in Mode, t \in Scope \ {sc} : <<m, t>> \in r.root => m \in Visible(t)'
      BY <1>3, <1>7, <3>1, AloneRun DEF Backed
    <3> QED BY <1>2, <2>2, <2>3, <3>1, <3>2, <3>3 DEF KeepsSession, Backed, Covers
  <2>5. FileFits(run[p])'
    BY <1>1, <1>4, <2>2 DEF FileFits
  <2>6. Holds(run[p])'
    BY <2>2, <2>4, <2>5 DEF Holds
  <2>7. Fits(run[p])'
    <3>1. Visible(sc)' = Visible(sc)
      BY <1>3
    <3> QED BY <1>1, <2>2, <2>3, <3>1 DEF Steady, Fits, Leaving, Compatible
  <2> QED BY <1>6, <2>2, <2>6, <2>7 DEF Steady, Busy
<1>9. CASE r.scope = Root
  <2>1. \A m \in Mode, t \in Scope : <<m, t>> \in r.root => m \in Visible(t)'
    BY <1>3, <1>4, <1>7, <1>9, AloneRun DEF KeepsRoot, Backed
  <2>2. r.about # r.mode => r.about \notin Visible(Root)'
    BY <1>1, <1>2, <1>4, <1>9 DEF KeepsRoot, FileFits, Visible, Listed, FilesOn
  <2>3. CASE r.left # {}
    <3>1. run' = [run EXCEPT ![p] = [r EXCEPT !.pc = "refresh"]]
      BY <1>9, <2>3 DEF WriteRoot, Goto
    <3>2. /\ run'[p].op = r.op /\ run'[p].mode = r.mode /\ run'[p].about = r.about
          /\ run'[p].scope = Root /\ run'[p].on = r.on /\ run'[p].pc = "refresh"
          /\ run'[p].root = r.root /\ run'[p].todo = r.todo
      BY <1>9, <3>1, AloneRun DEF Run
    <3>3. FileFits(run[p])' /\ KeepsRoot(run[p])'
      BY <1>1, <1>4, <1>9, <2>1, <3>2 DEF FileFits, KeepsRoot, Backed
    <3>4. Holds(run[p])'
      BY <1>2, <3>2, <3>3 DEF Holds
    <3>5. Fits(run[p])'
      <4>1. ASSUME r.about # r.mode PROVE Compatible((Visible(Root)' \ Leaving(run[p])') \cup {r.mode})
        <5>1. Compatible((Visible(Root) \ Leaving(r)) \cup {r.mode})
          BY <1>1, <1>9, <4>1 DEF Steady, Fits
        <5>2. Leaving(run[p])' = Leaving(r)
          BY <1>1, <3>2 DEF Leaving
        <5> QED BY <1>5, <5>1, <5>2, FewerFit
      <4> QED BY <3>2, <4>1 DEF Fits, Compatible
    <3> QED BY <1>6, <3>2, <3>4, <3>5 DEF Steady, Busy
  <2>4. CASE r.left = {}
    <3>1. run' = [run EXCEPT ![p] = After(r)]
      BY <1>9, <2>4 DEF WriteRoot, Goto
    <3>2. AllBacked'
      BY <1>2, <2>1 DEF AllBacked, Backed
    <3>3. r.about # r.mode => Visible(Root)' \subseteq Visible(Root) \ {r.about}
      BY <1>5, <2>2
    <3> QED BY <1>1, <1>6, <1>9, <3>1, <3>2, <3>3, AloneRun, SteadyAfter
  <2> QED BY <2>3, <2>4
<1> QED BY <1>8, <1>9

LEMMA SteadyWriteOwn ==
  ASSUME AInv, NEW p \in Caller, Busy(p), Steady(p), WriteOwn(p)
  PROVE  Steady(p)'
<1> DEFINE r == run[p]
<1>0. PICK sc \in Scope : sc = r.scope
  BY AloneRun
<1>1. /\ r.pc = "own" /\ file' = file /\ copy' = [copy EXCEPT ![sc] = r.own]
      /\ run' = [run EXCEPT ![p] = After(r)]
  BY <1>0 DEF WriteOwn, At, Goto
<1>2. sc # Root /\ KeepsSession(r, copy[Root]) /\ FileFits(r)
  BY <1>0, <1>1, AloneRun DEF Shape, Steady, Holds
<1>3. /\ copy'[sc] = r.own /\ copy'[Root] = copy[Root]
      /\ \A t \in Scope \ {sc} : copy'[t] = copy[t]
  BY <1>1, <1>2, AloneRun
<1>4. \A t \in Scope \ {sc} : Visible(t)' = Visible(t)
  BY <1>1, <1>3 DEF Visible, Listed, FilesOn
<1>5. Visible(sc)' \subseteq Visible(sc)
  BY <1>0, <1>1, <1>2, <1>3 DEF KeepsSession, Backed, Visible, Listed, FilesOn
<1>6. AllFit'
  <2>1. Compatible(Visible(sc)')
    BY <1>5, FewerFit, AloneRun DEF Steady, AllFit
  <2> QED BY <1>4, <2>1 DEF Steady, AllFit, Compatible
<1>7. AllBacked'
  <2>1. \A m \in Mode : <<m, sc>> \in copy[Root] => m \in Visible(sc)'
    BY <1>0, <1>2, <1>3 DEF KeepsSession, Covers, Visible, Listed
  <2>2. \A t \in Scope \ {sc}, m \in Mode : <<m, t>> \in copy[Root] => m \in Visible(t)'
    BY <1>0, <1>2, <1>4 DEF KeepsSession, Backed
  <2> QED BY <1>3, <2>1, <2>2 DEF AllBacked, Backed
<1>8. r.about # r.mode => Visible(sc)' \subseteq Visible(sc) \ {r.about}
  <2>1. r.about # r.mode => r.about \notin Visible(sc)'
    BY <1>0, <1>1, <1>2, <1>3 DEF KeepsSession, FileFits, Visible, Listed, FilesOn
  <2> QED BY <1>5, <2>1
<1> QED BY <1>0, <1>1, <1>6, <1>7, <1>8, SteadyAfter

LEMMA SteadyRefresh ==
  ASSUME AInv, NEW p \in Caller, Busy(p), Steady(p), Refresh(p)
  PROVE  Steady(p)'
<1> DEFINE r == run[p]
<1>1. r.pc = "refresh" /\ file' = file /\ r.scope = Root /\ r.left \subseteq Session
  BY AloneRun DEF Refresh, At, Shape
<1>2. KeepsRoot(r) /\ copy[Root] = r.root /\ FileFits(r)
  BY <1>1 DEF Steady, Holds
<1>3. PICK s \in r.left :
        /\ \/ copy[s] = {} /\ UNCHANGED copy
           \/ copy' = [copy EXCEPT ![s] = Refreshed(r, s),
                                   ![Root] = IF Refreshed(r, s) = {} THEN @ ELSE r.root]
        /\ run' = [run EXCEPT ![p] = IF r.left \ {s} = {} THEN After(r)
                                     ELSE [r EXCEPT !.left = r.left \ {s}]]
  BY DEF Refresh, Goto
<1>4. s \in Session /\ s \in Scope /\ s # Root /\ Root \in Scope
  BY <1>1, AloneRun
<1>5. copy'[Root] = r.root /\ \A t \in Scope \ {s, Root} : copy'[t] = copy[t]
  <2> DEFINE there == Refreshed(r, s)
  <2> HIDE DEF there
  <2>1. \/ UNCHANGED copy
        \/ copy' = [copy EXCEPT ![s] = there, ![Root] = IF there = {} THEN @ ELSE r.root]
    BY <1>3 DEF there
  <2> QED BY <1>2, <1>4, <2>1, AloneRun
<1>6. copy'[s] = copy[s] \/ copy'[s] = Refreshed(r, s)
  BY <1>3, <1>4, AloneRun
<1>7. Visible(Root)' = Visible(Root) /\ \A t \in Scope \ {s, Root} : Visible(t)' = Visible(t)
  BY <1>1, <1>2, <1>5 DEF Visible, Listed, FilesOn
<1>8. Visible(s)' \subseteq Visible(s)
  <2> SUFFICES ASSUME NEW m \in Mode, <<m, s>> \in copy'[s] PROVE m \in Visible(s)
    BY <1>1 DEF Visible, Listed, FilesOn
  <2>1. <<m, s>> \in copy[s] \/ <<m, s>> \in r.root
    BY <1>6, RefreshedHas
  <2> QED BY <1>2, <1>4, <2>1, VisibleHas DEF KeepsRoot, Backed
<1>9. \A m \in Mode : <<m, s>> \in r.root => m \in Visible(s)'
  <2> SUFFICES ASSUME NEW m \in Mode, <<m, s>> \in r.root PROVE m \in Visible(s)'
    OBVIOUS
  <2>1. CASE UNCHANGED copy
    BY <1>1, <1>2, <1>4, <2>1 DEF KeepsRoot, Backed, Visible, Listed, FilesOn
  <2>2. CASE copy'[s] = Refreshed(r, s)
    BY <2>2, RefreshedHas DEF Visible, Listed
  <2> QED BY <1>3, <1>4, <2>1, <2>2, AloneRun
<1>10. AllFit'
  <2>1. Compatible(Visible(s)')
    BY <1>4, <1>8, FewerFit DEF Steady, AllFit
  <2> QED BY <1>7, <2>1, AloneRun DEF Steady, AllFit, Compatible
<1>11. \A t \in Scope, m \in Mode : <<m, t>> \in r.root => m \in Visible(t)'
  BY <1>2, <1>7, <1>9 DEF KeepsRoot, Backed
<1>12. CASE r.left \ {s} = {}
  <2>1. run' = [run EXCEPT ![p] = After(r)]
    BY <1>3, <1>12
  <2>2. AllBacked'
    BY <1>5, <1>11 DEF AllBacked, Backed
  <2>3. r.about # r.mode => Visible(Root)' \subseteq Visible(Root) \ {r.about}
    BY <1>1, <1>2, <1>4, <1>7, VisibleHas DEF KeepsRoot, FileFits
  <2> QED BY <1>1, <1>4, <1>10, <2>1, <2>2, <2>3, SteadyAfter
<1>13. CASE r.left \ {s} # {}
  <2>1. run' = [run EXCEPT ![p] = [r EXCEPT !.left = r.left \ {s}]]
    BY <1>3, <1>13
  <2>2. /\ run'[p].op = r.op /\ run'[p].mode = r.mode /\ run'[p].about = r.about
        /\ run'[p].scope = Root /\ run'[p].on = r.on /\ run'[p].pc = "refresh"
        /\ run'[p].root = r.root /\ run'[p].todo = r.todo
    BY <1>1, <2>1, AloneRun DEF Run
  <2>3. KeepsRoot(run[p])' /\ FileFits(run[p])'
    BY <1>1, <1>2, <1>11, <2>2 DEF KeepsRoot, Backed, FileFits
  <2>4. Holds(run[p])'
    BY <1>5, <2>2, <2>3 DEF Holds
  <2>5. Fits(run[p])'
    BY <1>1, <1>7, <2>2 DEF Steady, Fits, Leaving, Compatible
  <2> QED BY <1>10, <2>2, <2>4, <2>5 DEF Steady, Busy
<1> QED BY <1>12, <1>13

(* A call that begins after the crash.                                       *)
LEMMA SteadyBegin ==
  ASSUME AInv, NEW p \in Caller, Call(p), Alone(p), AllBacked, AllFit, "borrowed" \notin mishap'
  PROVE  Steady(p)'
<1>1. /\ file \in [Scope -> [Mode -> {"none", "on", "off", "torn"}]]
      /\ Root \in Scope /\ Session \subseteq Scope
  BY DEF AInv, TypeOK, Scope
<1>2. Alone(p) = TRUE
  OBVIOUS
<1>3. Busy(p)' /\ ~Busy(p)
  BY BeginDisturbs
<1>4. ASSUME NEW m \in Mode, NEW sc \in Scope, Clear(p, m, sc) PROVE Steady(p)'
  <2> DEFINE r == [[Begun("clear", m, sc, FALSE) EXCEPT !.pc = "sync"] EXCEPT !.alone = TRUE]
  <2>1. run'[p] = r
    BY <1>2, <1>4 DEF Clear, Begin
  <2>2. /\ r.op = "clear" /\ r.pc = "sync" /\ r.scope = sc /\ r.mode = m
        /\ r.about = m /\ r.on = FALSE
    BY DEF Begun
  <2> HIDE DEF r
  <2>3. PICK kept \in {"off", "none"} : file' = [file EXCEPT ![sc][m] = kept]
    BY <1>4 DEF Clear
  <2>4. \A t \in Scope, a \in Mode :
          file'[t][a] = IF t = sc /\ a = m THEN kept ELSE file[t][a]
    BY <1>1, <2>3
  <2>5. copy' = copy
    BY <1>4 DEF Clear
  <2>6. AllFit'
    BY <2>4, <2>5, FilesOff
  <2>7. \A t \in Scope : Backed(copy[Root], t, Due(run[p], t))'
    <3> SUFFICES ASSUME NEW t \in Scope, NEW a \in Mode, ~(t = sc /\ a = m),
                        <<a, t>> \in copy'[Root]
                 PROVE  <<a, t>> \in copy'[t] \/ file'[t][a] = "on"
      BY <2>1, <2>2 DEF Due, Backed, Visible, Listed, FilesOn
    <3> QED BY <2>4, <2>5, BackedHas DEF AllBacked
  <2>8. FileFits(run[p])'
    BY <2>1, <2>2, <2>4 DEF FileFits
  <2>9. Holds(run[p])'
    BY <2>1, <2>2, <2>7, <2>8 DEF Holds
  <2> QED BY <1>3, <2>1, <2>2, <2>6, <2>9 DEF Steady, Fits
<1>5. ASSUME NEW m \in Mode, ClearAll(p, m) PROVE Steady(p)'
  <2> DEFINE r == [[Begun("clearAll", m, Root, FALSE) EXCEPT
                      !.pc = "unlink", !.left = Scope] EXCEPT !.alone = TRUE]
  <2>1. run'[p] = r
    BY <1>2, <1>5 DEF ClearAll, Begin
  <2>2. r.op = "clearAll" /\ r.pc = "unlink" /\ r.left = Scope /\ r.mode = m
    BY DEF Begun
  <2> HIDE DEF r
  <2>3. file' = file /\ copy' = copy
    BY <1>5 DEF ClearAll
  <2>4. AllFit'
    BY <2>3 DEF AllFit, Compatible, Visible, Listed, FilesOn
  <2>5. \A t \in Scope : Backed(copy[Root], t, {run[p].mode})'
    BY <2>3 DEF AllBacked, Backed, Visible, Listed, FilesOn
  <2>6. Holds(run[p])'
    BY <2>1, <2>2, <2>5 DEF Holds
  <2> QED BY <1>3, <2>1, <2>2, <2>4, <2>6 DEF Steady, Fits
<1>6. ASSUME NEW r \in Run, r.pc \in {"complete", "file"}, run'[p] = r,
             file' = file, copy' = copy,
             r.pc = "complete" \/ r.on =>
               Compatible((Visible(r.scope) \ r.todo) \cup {r.mode})
      PROVE  Steady(p)'
  <2>1. AllFit' /\ AllBacked'
    BY <1>6 DEF AllFit, Compatible, Visible, Listed, FilesOn, AllBacked, Backed
  <2>2. Visible(r.scope)' = Visible(r.scope)
    BY <1>6 DEF Visible, Listed, FilesOn
  <2>3. Fits(run[p])'
    BY <1>6, <2>2 DEF Fits, Leaving, Compatible
  <2>4. Holds(run[p])'
    BY <1>6, <2>1 DEF Holds, AllBacked
  <2> QED BY <1>3, <2>1, <2>3, <2>4 DEF Steady
<1>7. ASSUME NEW m \in Mode, NEW sc \in Scope, NEW op \in {"start", "write"},
             Start(p, op, m, sc)
      PROVE  Steady(p)'
  <2>1. Seen(sc) = {copy[sc]}
    BY <1>3 DEF Seen, Rewriting, Alone, Busy, At
  <2>2. PICK todo \in SUBSET Mode :
          /\ todo = Completed(Visible(sc), m)
          /\ Allowed(Visible(sc), m)
          /\ Begin(p, [Begun(op, m, sc, TRUE) EXCEPT
                         !.pc = IF todo = {} THEN "file" ELSE "complete", !.todo = todo])
    <3>1. Completed(Visible(sc), m) \in SUBSET Mode
      BY DEF Completed, Visible, Listed, FilesOn
    <3> QED BY <1>7, <2>1, <3>1 DEF Start, Visible
  <2> DEFINE r == [[Begun(op, m, sc, TRUE) EXCEPT
                      !.pc = IF todo = {} THEN "file" ELSE "complete", !.todo = todo]
                    EXCEPT !.alone = TRUE]
  <2>3. run'[p] = r
    BY <1>2, <2>2 DEF Begin
  <2>4. r \in Run /\ r.pc \in {"complete", "file"} /\ r.scope = sc /\ r.todo = todo
        /\ r.mode = m
    BY DEF Begun, Run
  <2>5. Compatible((Visible(sc) \ todo) \cup {m})
    BY <2>2, ResultFits DEF AllFit, Resulting
  <2>6. file' = file /\ copy' = copy
    BY <1>7 DEF Start
  <2> HIDE DEF r
  <2> QED BY <1>6, <2>3, <2>4, <2>5, <2>6
<1>8. ASSUME NEW m \in Mode, NEW sc \in Scope, NEW keep \in BOOLEAN,
             Deactivate(p, m, sc) \/ Update(p, m, sc, keep)
      PROVE  Steady(p)'
  <2>1. PICK op \in {"write", "update"}, on \in BOOLEAN :
          /\ Begin(p, Begun(op, m, sc, on))
          /\ on => file[sc][m] = "on"
    BY <1>8 DEF Deactivate, Update
  <2> DEFINE r == [Begun(op, m, sc, on) EXCEPT !.alone = TRUE]
  <2>2. run'[p] = r
    BY <1>2, <2>1 DEF Begin
  <2>3. r \in Run /\ r.pc = "file" /\ r.scope = sc /\ r.todo = {} /\ r.mode = m /\ r.on = on
    BY DEF Begun, Run
  <2>4. ASSUME on PROVE Compatible((Visible(sc) \ {}) \cup {m})
    <3>1. (Visible(sc) \ {}) \cup {m} = Visible(sc)
      BY <2>1, <2>4 DEF Visible, FilesOn
    <3> QED BY <3>1 DEF AllFit
  <2>5. file' = file /\ copy' = copy
    BY <1>8 DEF Deactivate, Update
  <2> HIDE DEF r
  <2> QED BY <1>6, <2>2, <2>3, <2>4, <2>5
<1> QED BY <1>4, <1>5, <1>7, <1>8 DEF Call

LEMMA CountedStays == AInv /\ Counted /\ [Next]_vars => Counted'
<1> SUFFICES ASSUME AInv, Counted, [Next]_vars PROVE Counted'
  OBVIOUS
<1>1. CASE UNCHANGED vars
  BY <1>1 DEF Counted, vars
<1>2. ASSUME NEW p \in Caller, Step(p) PROVE Counted'
  <2>1. mishap' \subseteq mishap \cup {"race"} /\ crashes' = crashes
    BY <1>2, StepGoes
  <2> QED BY <2>1 DEF Counted
<1>3. ASSUME NEW p \in Caller, Call(p) PROVE Counted'
  <2>1. mishap' \subseteq mishap \cup {"race", "borrowed"} /\ crashes' = crashes
    BY <1>3, CallKeeps
  <2> QED BY <2>1 DEF Counted
<1>4. ASSUME NEW p \in Caller, Crash(p) PROVE Counted'
  BY <1>4, BoundsAssumption DEF Counted, Crash, AInv, TypeOK
<1> QED BY <1>1, <1>2, <1>3, <1>4 DEF Next

LEMMA RestStays ==
  AInv /\ AInv' /\ Peace /\ Counted /\ Rest /\ [Next]_vars => Rest'
<1> SUFFICES ASSUME AInv, AInv', Peace, Counted, Rest, [Next]_vars,
                    mishap' = {"crash"}, crashes' <= 1
             PROVE  /\ AllFit'
                    /\ (\A p \in Caller : ~Busy(p)') => AllBacked'
                    /\ \A p \in Caller : Solo(p)' => Steady(p)'
  BY DEF Rest
<1>1. CASE UNCHANGED vars
  <2>1. mishap = {"crash"} /\ crashes <= 1
    BY <1>1 DEF vars
  <2>2. AllFit' /\ (AllBacked => AllBacked')
    BY <1>1, <2>1 DEF vars, Rest, AllFit, Compatible, Visible, Listed, FilesOn, AllBacked,
       Backed
  <2>3. \A p \in Caller : Solo(p)' => Steady(p)'
    <3> SUFFICES ASSUME NEW p \in Caller, Solo(p)' PROVE Steady(p)'
      OBVIOUS
    <3>1. /\ Solo(p) /\ Steady(p) /\ run' = run /\ file' = file /\ copy' = copy
          /\ run'[p] = run[p]
      BY <1>1, <2>1 DEF vars, Rest, Solo, Busy
    <3>2. \A sc \in Scope : Visible(sc)' = Visible(sc)
      BY <3>1 DEF Visible, Listed, FilesOn
    <3>3. Holds(run[p])'
      <4>1. Holds(run[p]) /\ run[p].scope \in Scope
        BY <3>1, AloneRun DEF Steady, Solo
      <4>2. KeepsRoot(run[p]) => KeepsRoot(run[p])'
        BY <3>1, <3>2 DEF KeepsRoot, Backed
      <4>3. KeepsSession(run[p], run[p].root) => KeepsSession(run[p], run[p].root)'
        BY <3>1, <3>2, <4>1 DEF KeepsSession, Backed, Covers
      <4>4. KeepsSession(run[p], copy[Root]) => KeepsSession(run[p], copy[Root])'
        BY <3>1, <3>2, <4>1 DEF KeepsSession, Backed, Covers
      <4>5. FileFits(run[p]) => FileFits(run[p])'
        BY <3>1 DEF FileFits
      <4>6. \A sc \in Scope : /\ Backed(copy[Root], sc, {}) => Backed(copy[Root], sc, {})'
                              /\ Backed(copy[Root], sc, {run[p].mode}) => Backed(copy[Root], sc, {run[p].mode})'
                              /\ Backed(copy[Root], sc, Due(run[p], sc)) => Backed(copy[Root], sc, Due(run[p], sc))'
        BY <3>1, <3>2 DEF Backed, Due
      <4> QED BY <3>1, <4>1, <4>2, <4>3, <4>4, <4>5, <4>6 DEF Holds
    <3>4. Fits(run[p])'
      BY <3>1 DEF Solo, Steady, Fits, Compatible, Visible, Listed, FilesOn, Leaving
    <3> QED BY <2>2, <3>1, <3>3, <3>4 DEF Steady, Solo, Busy
  <2>4. \A p \in Caller : Busy(p)' <=> Busy(p)
    BY <1>1 DEF vars, Busy
  <2> QED BY <2>1, <2>2, <2>3, <2>4 DEF Rest
<1>2. ASSUME NEW p \in Caller, Step(p)
      PROVE  /\ AllFit'
             /\ (\A q \in Caller : ~Busy(q)') => AllBacked'
             /\ \A q \in Caller : Solo(q)' => Steady(q)'
  <2>1. Busy(p) /\ mishap = {"crash"} /\ crashes <= 1 /\ run[p].alone
    BY <1>2, StepGoes
  <2>2. Steady(p)
    BY <2>1 DEF Rest, Solo
  <2>3. Steady(p)'
    BY <1>2, <2>1, <2>2, SteadyUnlink, SteadyComplete, SteadyWriteFile, SteadySync,
       SteadyWriteRoot, SteadyWriteOwn, SteadyRefresh DEF Step
  <2>4. \A q \in Caller \ {p} : ~Busy(q)'
    BY <1>2, <2>1, StepGoes DEF AInv, Sole, Solo, Busy
  <2> QED BY <2>3, <2>4 DEF Steady, Solo
<1>3. ASSUME NEW p \in Caller, Call(p)
      PROVE  /\ AllFit'
             /\ (\A q \in Caller : ~Busy(q)') => AllBacked'
             /\ \A q \in Caller : Solo(q)' => Steady(q)'
  <2>1. Alone(p) /\ mishap = {"crash"} /\ crashes <= 1
    <3>1. /\ mishap \subseteq mishap' /\ mishap' \subseteq mishap \cup {"race", "borrowed"}
          /\ crashes' = crashes
          /\ mishap = {} \/ Alone(p)
      BY <1>3, CallKeeps
    <3> QED BY <3>1
  <2>2. Busy(p)' /\ \A q \in Caller \ {p} : ~Solo(q)'
    BY <1>3, BeginDisturbs DEF Solo, Busy
  <2>3. \A q \in Caller : ~Busy(q)
    BY <1>3, <2>1, BeginDisturbs DEF Alone
  <2>4. Steady(p)'
    BY <1>3, <2>1, <2>3, SteadyBegin DEF Rest
  <2> QED BY <2>2, <2>4 DEF Steady
<1>4. ASSUME NEW p \in Caller, Crash(p)
      PROVE  /\ AllFit'
             /\ (\A q \in Caller : ~Busy(q)') => AllBacked'
             /\ \A q \in Caller : Solo(q)' => Steady(q)'
  <2>1. Busy(p) /\ run' = [run EXCEPT ![p] = NoRun] /\ run \in [Caller -> Run \cup {NoRun}]
    BY <1>4 DEF Crash, AInv, TypeOK
  <2>2. crashes = 0 /\ "crash" \notin mishap
    BY <1>4, BoundsAssumption DEF Crash, Counted, AInv, TypeOK
  <2>3. mishap = {} /\ run[p].alone
    BY <1>4, <2>2 DEF Crash
  <2>4. Known(p)
    BY <2>1, <2>3 DEF Peace, Solo
  <2>5. AllFit' /\ AllBacked'
    BY <1>4, <2>4, CrashRests
  <2>6. \A q \in Caller : ~Busy(q)'
    BY <2>1, <2>3, Records DEF AInv, Sole, Solo, Busy
  <2> QED BY <2>5, <2>6 DEF Solo
<1> QED BY <1>1, <1>2, <1>3, <1>4 DEF Next

(* The modes that a reader can see active in a scope, by their files or by   *)
(* the list, are compatible in every state, also in the middle of a start    *)
(* that completes other modes, and after one caller has died anywhere.       *)
THEOREM ModesFit == Spec => []CompatibleModes
<1>1. Init => Counted /\ Rest
  BY DEF Init, Counted, Rest
<1>2. AInv /\ Peace /\ Counted /\ Rest => CompatibleModes
  BY DEF Peace, Rest, Counted, AllFit, CompatibleModes
<1> QED BY <1>1, <1>2, InitTyped, Typed, InitPeace, PeaceStays, CountedStays, RestStays,
           PTL DEF Spec
=============================================================================
