--------------------------- MODULE WorkflowModes ---------------------------
(***************************************************************************)
(* The workflow modes (autopilot, team, ralph, ralplan ...) that are active *)
(* in a project: src/src/modes/base.ts and src/src/state.  A mode has a     *)
(* state file in each scope (the root and every session), and the copies of *)
(* skill-active-state.json, one in the root and one in each session, list   *)
(* the active modes once more.                                              *)
(*                                                                         *)
(* Commands, hooks and the state server start, update, cancel and clear     *)
(* modes.  Each call reads the files, decides, and then writes its files    *)
(* and the copies one after the other, with no lock that another process    *)
(* would respect: calls may overlap anywhere, and a call may die anywhere.  *)
(* A file that is rewritten in place is cut short for a moment, and stays   *)
(* so when its writer dies: a mode file then cannot be parsed, and a copy   *)
(* reads as one that lists nothing.                                         *)
(*                                                                         *)
(* Left out: the phase and the metadata of a mode, the run state, and the   *)
(* writers of keyword-detector.ts and of the launch clean-up.               *)
(***************************************************************************)
EXTENDS Naturals

CONSTANTS
  Caller,     \* processes that may run an operation, one at a time each
  Mode,       \* the modes in use
  Root,       \* the scope of a project without a session
  Session,    \* the sessions
  MaxCalls,   \* bound on the operations that are begun
  MaxCrashes  \* bound on the callers that die in the middle of an operation

Tracked == {"autopilot", "autoresearch", "team", "ralph", "ultrawork",
            "ultraqa", "ralplan", "deep-interview"}

ASSUME ModeAssumption == Mode \subseteq Tracked
ASSUME ScopeAssumption == Root \notin Session
ASSUME BoundsAssumption == MaxCalls \in Nat /\ MaxCrashes \in Nat

Scope == {Root} \cup Session
Entry == Mode \X Scope

(* The rules of workflow-transition.ts. *)
Overlaps(a, b) == "ultrawork" \in {a, b} \/ {a, b} = {"ralph", "team"}

AutoCompletes ==
  {<<"deep-interview", "ralplan">>, <<"deep-interview", "autoresearch">>,
   <<"ralplan", "team">>, <<"ralplan", "ralph">>, <<"ralplan", "autopilot">>,
   <<"ralplan", "autoresearch">>, <<"autopilot", "ralplan">>}

Completed(current, m) ==
  {a \in current : m \notin current /\ <<a, m>> \in AutoCompletes}
Allowed(current, m) ==
  m \in current \/ \A a \in current \ Completed(current, m) : Overlaps(a, m)
Resulting(current, m) == (current \ Completed(current, m)) \cup {m}

VARIABLES
  file,     \* file[sc][m]: the state file of m in scope sc
  copy,     \* copy[sc]: the entries of skill-active-state.json in scope sc
  run,      \* run[p]: the operation p is in
  calls,    \* operations begun
  crashes,  \* callers that have died
  mishap    \* what has happened that the operations do not guard against

vars == <<file, copy, run, calls, crashes, mishap>>

(* about is the mode whose entry is being brought up to date: the mode asked *)
(* for, or one that completes to make room for it.  root and own are what    *)
(* the call is about to write; in the root scope own is the list it read.    *)
(* alone says that no other call has been under way since this one began.    *)
Run == [pc : {"complete", "file", "unlink", "sync", "root", "own", "refresh"},
        op : {"start", "write", "update", "clear", "clearAll"},
        mode : Mode, about : Mode, scope : Scope, on : BOOLEAN,
        todo : SUBSET Mode, root : SUBSET Entry, own : SUBSET Entry,
        left : SUBSET Scope, alone : BOOLEAN]
NoRun == [pc |-> "idle"]
Busy(p) == run[p].pc # "idle"
At(p, step) == run[p].pc = step

Init ==
  /\ file = [sc \in Scope |-> [m \in Mode |-> "none"]]
  /\ copy = [sc \in Scope |-> {}]
  /\ run = [p \in Caller |-> NoRun]
  /\ calls = 0 /\ crashes = 0
  /\ mishap = {}

Alone(p) == \A q \in Caller \ {p} : ~Busy(q)

(* A call begins.  After a mishap calls no longer overlap, and after a race   *)
(* or a borrowed mode only clearing calls begin: that they work is all that  *)
(* is claimed then.                                                          *)
Calm == mishap \subseteq {"crash"}
Begin(p, r) ==
  /\ ~Busy(p) /\ (mishap = {} \/ Alone(p))
  /\ calls < MaxCalls /\ calls' = calls + 1
  /\ run' = [q \in Caller |->
               IF q = p THEN [r EXCEPT !.alone = Alone(p)]
               ELSE IF Busy(q) THEN [run[q] EXCEPT !.alone = FALSE]
               ELSE run[q]]

(* A step of a call that is not alone is a race: the call has no lock, and   *)
(* what it read before may not be true any more.                             *)
Goto(p, r) ==
  /\ run' = [run EXCEPT ![p] = r]
  /\ mishap' = mishap \cup (IF run[p].alone THEN {} ELSE {"race"})

Begun(op, m, sc, on) ==
  [pc |-> "file", op |-> op, mode |-> m, about |-> m, scope |-> sc, on |-> on,
   todo |-> {}, root |-> {}, own |-> {}, left |-> {}, alone |-> TRUE]

(* A copy that is being rewritten may be read as one that lists nothing.     *)
Rewriting(p, c) ==
  \/ At(p, "root") /\ c = Root
  \/ At(p, "own") /\ c = run[p].scope
  \/ At(p, "refresh") /\ c \in {Root} \cup run[p].left
Seen(c) == {copy[c]} \cup {{} : p \in {q \in Caller : Rewriting(q, c)}}

Listed(c, sc) == {m \in Mode : <<m, sc>> \in c}
FilesOn(sc) == {m \in Mode : file[sc][m] = "on"}
Visible(sc) == Listed(copy[sc], sc) \cup FilesOn(sc)

-----------------------------------------------------------------------------
(* startMode, or state_write with active: true.  A request that is denied,   *)
(* or that meets a file it cannot parse, throws before it writes anything.   *)
Start(p, op, m, sc) ==
  /\ Calm
  /\ \A a \in Mode : file[sc][a] # "torn"
  /\ \E c \in Seen(sc) :
       LET current == Listed(c, sc) \cup FilesOn(sc)
           todo == Completed(current, m)
       IN /\ Allowed(current, m)
          /\ Begin(p, [Begun(op, m, sc, TRUE) EXCEPT
                         !.pc = IF todo = {} THEN "file" ELSE "complete",
                         !.todo = todo])
  /\ UNCHANGED <<file, copy, crashes, mishap>>

(* state_write with active: false.  It takes whatever is in the file, even   *)
(* what it cannot parse, for a base.                                         *)
Deactivate(p, m, sc) ==
  /\ Calm
  /\ Begin(p, Begun("write", m, sc, FALSE))
  /\ UNCHANGED <<file, copy, crashes, mishap>>

(* updateModeState, and cancelMode when it does not keep the mode active.    *)
(* The mode is read in the session or, where it has no file, in the root;    *)
(* it is always written in the session.                                      *)
Update(p, m, sc, keep) ==
  LET from == IF file[sc][m] = "none" /\ m # "ralph" THEN Root ELSE sc
      on == keep /\ file[from][m] = "on"
  IN /\ Calm
     /\ file[from][m] \in (IF keep THEN {"on", "off"} ELSE {"on"})
     /\ Begin(p, Begun("update", m, sc, on))
     /\ mishap' = mishap \cup (IF on /\ from # sc THEN {"borrowed"} ELSE {})
     /\ UNCHANGED <<file, copy, crashes>>

(* state_clear: a session keeps a cleared file where it hides the root's.    *)
Clear(p, m, sc) ==
  /\ Begin(p, [Begun("clear", m, sc, FALSE) EXCEPT !.pc = "sync"])
  /\ file' = [file EXCEPT ![sc][m] =
                IF sc # Root /\ file[Root][m] # "none" THEN "off" ELSE "none"]
  /\ mishap' = mishap \cup (IF Alone(p) THEN {} ELSE {"race"})
  /\ UNCHANGED <<copy, crashes>>

(* state_clear with all_sessions. *)
ClearAll(p, m) ==
  /\ Begin(p, [Begun("clearAll", m, Root, FALSE) EXCEPT
                 !.pc = "unlink", !.left = Scope])
  /\ UNCHANGED <<file, copy, crashes, mishap>>

Unlink(p) ==
  /\ At(p, "unlink")
  /\ \E sc \in run[p].left :
       /\ file' = [file EXCEPT ![sc][run[p].mode] = "none"]
       /\ LET left == run[p].left \ {sc}
          IN Goto(p, [run[p] EXCEPT !.left = left,
                         !.pc = IF left = {} THEN "sync" ELSE "unlink"])
  /\ UNCHANGED <<copy, calls, crashes>>

(* Mutation of Complete: only the list learns that the mode is complete. *)
CompleteListOnly(p) ==
  /\ At(p, "complete")
  /\ \E a \in run[p].todo :
       Goto(p, [run[p] EXCEPT !.pc = "sync", !.about = a, !.todo = @ \ {a}])
  /\ UNCHANGED <<file, copy, calls, crashes>>

(* completeSourceModeState: a mode makes room for the one that starts. *)
Complete(p) ==
  /\ At(p, "complete")
  /\ \E a \in run[p].todo :
       /\ file' = [file EXCEPT ![run[p].scope][a] = IF @ = "on" THEN "off" ELSE @]
       /\ Goto(p, [run[p] EXCEPT !.pc = "sync", !.about = a, !.todo = @ \ {a}])
  /\ UNCHANGED <<copy, calls, crashes>>

WriteFile(p) ==
  /\ At(p, "file")
  /\ file' = [file EXCEPT ![run[p].scope][run[p].mode] =
                IF run[p].on THEN "on" ELSE "off"]
  /\ Goto(p, [run[p] EXCEPT !.pc = "sync", !.about = run[p].mode])
  /\ UNCHANGED <<copy, calls, crashes>>

-----------------------------------------------------------------------------
(* syncCanonicalSkillStateForMode. *)
Own(entries, sc) == {e \in entries : e[2] = sc}
Added(m, sc, active) == IF active THEN {<<m, sc>>} ELSE {}

(* Mutation of NextOwn: the modes that only the session lists are lost. *)
NextOwnRootOnly(root, own, m, sc, active) ==
  (Own(root, sc) \ {<<m, sc>>}) \cup Added(m, sc, active)

NextOwn(root, own, m, sc, active) ==
  ((Own(root, sc) \cup own) \ {<<m, sc>>}) \cup Added(m, sc, active)

(* The root keeps what it lists of other modes and sessions; only when that  *)
(* is nothing does it take over the entries of the session.                  *)
NextRoot(root, own, m, sc, active) ==
  LET kept == root \ {<<m, sc>>}
  IN IF sc = Root THEN kept \cup Added(m, Root, active)
     ELSE IF kept # {} \/ ~active THEN kept
     ELSE (own \ root) \cup {<<m, sc>>}

(* Mutation of RootWithout: the mode is removed from the root's entries only. *)
RootWithoutOwn(root, m) == root \ {<<m, Root>>}

RootWithout(root, m) == {e \in root : e[1] # m}

(* The step after the entry of the mode is up to date. *)
After(r) == IF r.about = r.mode THEN NoRun
            ELSE [r EXCEPT !.pc = IF r.todo = {} THEN "file" ELSE "complete"]

(* state_write looks into the file again; the others remember what they did. *)
Active(r) ==
  r.about = r.mode /\ IF r.op = "write" THEN file[r.scope][r.mode] = "on" ELSE r.on

Unreadable(r) ==
  r.op = "write" /\ r.about = r.mode /\ file[r.scope][r.mode] \in {"none", "torn"}

Sync(p) ==
  LET r == run[p]
      sc == r.scope
      m == r.about
      active == Active(r)
  IN /\ At(p, "sync")
     /\ \E root \in Seen(Root), own \in Seen(sc) :
          LET current == Listed(root \cup own, sc)
              threw == Unreadable(r) \/ (active /\ ~Allowed(current, m))
              nothing == root = {} /\ own = {} /\ ~active
          IN \/ threw /\ Goto(p, NoRun)
             \/ ~threw /\ nothing /\ r.op # "clearAll" /\ Goto(p, After(r))
             \/ /\ ~threw
                /\ Goto(p, [r EXCEPT
                     !.pc = "root",
                     !.root = IF r.op = "clearAll" THEN RootWithout(root, m)
                              ELSE NextRoot(root, own, m, sc, active),
                     !.own = IF sc = Root THEN root
                             ELSE NextOwn(root, own, m, sc, active),
                     !.left = IF sc = Root THEN Session ELSE {}])
     /\ UNCHANGED <<file, copy, calls, crashes>>

WriteRoot(p) ==
  /\ At(p, "root")
  /\ copy' = [copy EXCEPT ![Root] = run[p].root]
  /\ Goto(p, IF run[p].scope # Root THEN [run[p] EXCEPT !.pc = "own"]
              ELSE IF run[p].left # {} THEN [run[p] EXCEPT !.pc = "refresh"]
              ELSE After(run[p]))
  /\ UNCHANGED <<file, calls, crashes>>

WriteOwn(p) ==
  /\ At(p, "own")
  /\ copy' = [copy EXCEPT ![run[p].scope] = run[p].own]
  /\ Goto(p, After(run[p]))
  /\ UNCHANGED <<file, calls, crashes>>

(* What a session lists after a call in the root scope: its entries in the   *)
(* new root list, and those that only the session had.                       *)
Refreshed(r, s) ==
  Own(r.root, s) \cup {e \in copy[s] \ r.own : r.op # "clearAll" \/ e[1] # r.mode}

(* A session without a copy is passed over; a copy that would list nothing   *)
(* is removed; with any other one the root's list is written a second time.  *)
Refresh(p) ==
  /\ At(p, "refresh")
  /\ \E s \in run[p].left :
       LET r == run[p]
           left == r.left \ {s}
           then == IF left = {} THEN After(r) ELSE [r EXCEPT !.left = left]
       IN \/ copy[s] = {} /\ UNCHANGED copy /\ Goto(p, then)
          \/ /\ copy' = [copy EXCEPT
                  ![s] = Refreshed(r, s),
                  ![Root] = IF Refreshed(r, s) = {} THEN @ ELSE r.root]
             /\ Goto(p, then)
  /\ UNCHANGED <<file, calls, crashes>>

-----------------------------------------------------------------------------
(* A caller dies.  What it was rewriting in place may stay cut short. *)
Torn(p) ==
  LET sc == run[p].scope
  IN IF At(p, "complete") THEN {a \in run[p].todo : file[sc][a] = "on"}
     ELSE IF At(p, "file") /\ run[p].op # "write" THEN {run[p].mode}
     ELSE {}

Crash(p) ==
  /\ Busy(p) /\ crashes < MaxCrashes
  /\ crashes' = crashes + 1 /\ UNCHANGED calls
  /\ \/ UNCHANGED <<file, copy>>
     \/ /\ \E m \in Torn(p) : file' = [file EXCEPT ![run[p].scope][m] = "torn"]
        /\ UNCHANGED copy
     \/ /\ \E c \in Scope : Rewriting(p, c) /\ copy' = [copy EXCEPT ![c] = {}]
        /\ UNCHANGED file
  /\ run' = [run EXCEPT ![p] = NoRun]
  /\ mishap' = mishap \cup (IF run[p].alone THEN {"crash"} ELSE {"crash", "race"})

Step(p) ==
  \/ Unlink(p) \/ Complete(p) \/ WriteFile(p)
  \/ Sync(p) \/ WriteRoot(p) \/ WriteOwn(p) \/ Refresh(p)

Call(p) ==
  \E m \in Mode :
    \/ ClearAll(p, m)
    \/ \E sc \in Scope :
         \/ \E op \in {"start", "write"} : Start(p, op, m, sc)
         \/ Deactivate(p, m, sc)
         \/ \E keep \in BOOLEAN : Update(p, m, sc, keep)
         \/ Clear(p, m, sc)

Next == \E p \in Caller : Step(p) \/ Call(p) \/ Crash(p)

Spec == Init /\ [][Next]_vars

-----------------------------------------------------------------------------
(* Type invariant.  The list of a session names no other session's modes and *)
(* none of the root's.                                                       *)
TypeOK ==
  /\ file \in [Scope -> [Mode -> {"none", "on", "off", "torn"}]]
  /\ copy \in [Scope -> SUBSET Entry]
  /\ \A s \in Session : copy[s] \subseteq Mode \X {s}
  /\ run \in [Caller -> Run \cup {NoRun}]
  /\ calls \in 0 .. MaxCalls /\ crashes \in 0 .. MaxCrashes
  /\ mishap \subseteq {"race", "crash", "borrowed"}

Compatible(modes) == \A a, b \in modes : a = b \/ Overlaps(a, b)

(* The modes that a reader can see active in a scope, by their files or by   *)
(* the list, may all be active together, also in the middle of a start that  *)
(* completes other modes, as long as no call steps while another is under    *)
(* way and no update borrows a mode of the root.  This survives one caller   *)
(* that dies anywhere, whatever it leaves cut short; it does not survive two *)
(* (the root's list may then bring back a mode that its session has ended).  *)
CompatibleModes ==
  mishap \subseteq {"crash"} /\ crashes <= 1 =>
    \A sc \in Scope : Compatible(Visible(sc))

(* Whenever no call is under way, each list names exactly the modes whose    *)
(* files are active in its scope, and the root's list names no mode that its *)
(* session has ended.  In particular clearing one member of a combined set   *)
(* keeps the others listed, and a call that is refused has not left behind   *)
(* an active file that no list names.                                        *)
QuietListsAgree ==
  (mishap = {} /\ \A p \in Caller : ~Busy(p)) =>
    /\ \A sc \in Scope : Listed(copy[sc], sc) = FilesOn(sc)
    /\ \A s \in Session : Own(copy[Root], s) \subseteq copy[s]

(* Clearing works from every state, as the messages of a refusal promise:    *)
(* whatever races, crashes and torn files came before, a clearing call that  *)
(* runs alone to its end leaves the mode neither listed nor active in its    *)
(* scope, and in no scope when it clears all sessions.                       *)
ClearingWorks ==
  [][\A p \in Caller :
       (/\ Busy(p) /\ run[p].alone /\ run[p].op \in {"clear", "clearAll"}
        /\ run'[p] = NoRun /\ crashes' = crashes) =>
         \A sc \in (IF run[p].op = "clear" THEN {run[p].scope} ELSE Scope) :
           /\ file'[sc][run[p].mode] \in {"none", "off"}
           /\ <<run[p].mode, sc>> \notin copy'[sc]]_vars
=============================================================================
