--------------------------- MODULE DirLockProofs ---------------------------
(* Theorems about the directory lock, for any set of processes and any     *)
(* bound on the faults.                                                    *)
EXTENDS DirLock, TLAPS

\* A live call between its mkdir and its release is the maker of the fresh
\* directory, and from the body on the owner file holds its token.
IInv ==
  /\ TypeOK
  /\ breach = {} =>
       /\ \A p \in Proc : pc[p] \in Holding => maker = p
       /\ maker # NoProc => lockDir = "fresh" /\ pc[maker] \in Holding
       /\ \A p \in Proc : pc[p] \in {"fn", "readOwner", "rm"} => owner = p

-----------------------------------------------------------------------------
LEMMA InitIInv == Init => IInv
  BY ProcAssumption, FaultAssumption
     DEF Init, IInv, TypeOK, Status, Contending, Holding

\* Every step of a call, of the environment and every fault keeps the types.
LEMMA TypeStep == TypeOK /\ [Next]_vars => TypeOK'
<1> SUFFICES ASSUME TypeOK, [Next]_vars PROVE TypeOK'
  OBVIOUS
<1> USE ProcAssumption, FaultAssumption
    DEF TypeOK, Status, Contending, Holding, Goto, RemoveDir, Abandon
<1>1. CASE UNCHANGED vars
  BY <1>1 DEF vars
<1>2. CASE Age
  BY <1>2 DEF Age
<1>3. ASSUME NEW p \in Proc,
             Start(p) \/ PassDeadline(p) \/ ReleaseFails(p) \/ Crash(p)
      PROVE  TypeOK'
  <2>1. CASE Start(p)
    BY <2>1 DEF Start
  <2>2. CASE PassDeadline(p)
    BY <2>2 DEF PassDeadline
  <2>3. CASE ReleaseFails(p) \/ Crash(p)
    <3>1. faults' \in 0 .. MaxFaults
      BY <2>3 DEF ReleaseFails, Crash
    <3>2. maker' \in Proc \cup {NoProc} /\ pc' \in [Proc -> Status]
      BY <2>3 DEF ReleaseFails, Crash
    <3>3. UNCHANGED <<lockDir, owner, expired, breach>>
      BY <2>3 DEF ReleaseFails, Crash
    <3>4. QED
      BY <3>1, <3>2, <3>3
  <2>4. QED
    BY <1>3, <2>1, <2>2, <2>3
<1>4. ASSUME NEW p \in Proc, Mkdir(p) \/ WriteOwner(p) \/ Undo(p)
      PROVE  TypeOK'
  BY <1>4 DEF Mkdir, WriteOwner, Undo
<1>5. ASSUME NEW p \in Proc, Stat(p) \/ Recover(p) \/ CheckDeadline(p)
      PROVE  TypeOK'
  BY <1>5 DEF Stat, Recover, CheckDeadline
<1>6. ASSUME NEW p \in Proc, FinishBody(p) \/ ReadOwner(p) \/ Rm(p)
      PROVE  TypeOK'
  BY <1>6 DEF FinishBody, ReadOwner, Rm
<1>7. ASSUME NEW p \in Proc, Overrun(p)
      PROVE  TypeOK'
  BY <1>7 DEF Overrun
<1>8. QED
  BY <1>1, <1>2, <1>3, <1>4, <1>5, <1>6, <1>7 DEF Next, Step

LEMMA StepIInv == IInv /\ [Next]_vars => IInv'
<1> SUFFICES ASSUME IInv, [Next]_vars PROVE IInv'
  OBVIOUS
<1> USE ProcAssumption DEF Holding
<1>0. TypeOK'
  BY TypeStep DEF IInv
<1>1. SUFFICES ASSUME breach' = {}
               PROVE  /\ \A q \in Proc : pc'[q] \in Holding => maker' = q
                      /\ maker' # NoProc =>
                           lockDir' = "fresh" /\ pc'[maker'] \in Holding
                      /\ \A q \in Proc :
                           pc'[q] \in {"fn", "readOwner", "rm"} => owner' = q
  BY <1>0 DEF IInv
<1> DEFINE Goal == /\ \A q \in Proc : pc'[q] \in Holding => maker' = q
                   /\ maker' # NoProc =>
                        lockDir' = "fresh" /\ pc'[maker'] \in Holding
                   /\ \A q \in Proc :
                        pc'[q] \in {"fn", "readOwner", "rm"} => owner' = q
<1> USE DEF IInv, TypeOK, Status, Contending, Goto
<1>2. CASE UNCHANGED vars
  BY <1>1, <1>2 DEF vars
<1>3. CASE Age
  BY <1>1, <1>3 DEF Age
<1>4. ASSUME NEW p \in Proc, Start(p) \/ PassDeadline(p)
      PROVE  Goal
  BY <1>1, <1>4 DEF Start, PassDeadline
<1>5. ASSUME NEW p \in Proc, Mkdir(p)
      PROVE  Goal
  BY <1>1, <1>5 DEF Mkdir
<1>6. ASSUME NEW p \in Proc, WriteOwner(p)
      PROVE  Goal
  BY <1>1, <1>6 DEF WriteOwner
<1>7. ASSUME NEW p \in Proc, Undo(p) \/ Rm(p)
      PROVE  Goal
  BY <1>1, <1>7 DEF Undo, Rm, RemoveDir
<1>8. ASSUME NEW p \in Proc, Stat(p) \/ CheckDeadline(p) \/ FinishBody(p)
      PROVE  Goal
  BY <1>1, <1>8 DEF Stat, CheckDeadline, FinishBody
<1>9. ASSUME NEW p \in Proc, Recover(p)
      PROVE  Goal
  <2>1. lockDir # "fresh" /\ breach = {}
    BY <1>1, <1>9 DEF Recover
  <2>2. maker = NoProc
    BY <2>1
  <2>3. QED
    BY <1>9, <2>1, <2>2 DEF Recover, RemoveDir
<1>10. ASSUME NEW p \in Proc, ReadOwner(p)
       PROVE  Goal
  BY <1>1, <1>10 DEF ReadOwner, Abandon
<1>11. ASSUME NEW p \in Proc, ReleaseFails(p) \/ Crash(p)
       PROVE  Goal
  BY <1>1, <1>11 DEF ReleaseFails, Crash, Abandon
<1>12. ASSUME NEW p \in Proc, Overrun(p)
       PROVE  Goal
  BY <1>1, <1>12 DEF Overrun
<1>13. QED
  BY <1>2, <1>3, <1>4, <1>5, <1>6, <1>7, <1>8, <1>9, <1>10, <1>11, <1>12
     DEF Next, Step

LEMMA Invariance == Spec => []IInv
  BY InitIInv, StepIInv, PTL DEF Spec

\* The variables of the lock keep their types.
THEOREM TypeCorrect == Spec => []TypeOK
<1>1. IInv => TypeOK
  BY DEF IInv
<1>2. QED
  BY <1>1, Invariance, PTL

\* No two bodies run at once until a recovery races or a body overruns: with
\* any number of crashes and failed releases in between.
THEOREM Exclusion == Spec => []MutualExclusion
<1>1. IInv => MutualExclusion
  BY DEF IInv, MutualExclusion, Holders, Holding
<1>2. QED
  BY <1>1, Invariance, PTL

\* Nobody deletes or overwrites the lock of a live holder before such a breach.
THEOREM HeldIntact == Spec => []HeldLockIsIntact
<1>1. IInv => HeldLockIsIntact
  BY ProcAssumption DEF IInv, HeldLockIsIntact, Holders, Holding
<1>2. QED
  BY <1>1, Invariance, PTL

-----------------------------------------------------------------------------
\* Without crashes, failed releases and overlong bodies a directory never
\* grows stale, so nothing is ever recovered.
NoFaultInv ==
  /\ IInv
  /\ breach = {}
  /\ lockDir # "absent" => lockDir = "fresh" /\ maker # NoProc
  /\ \A p \in Proc : pc[p] # "recover"

\* With no faults at all, two bodies never run at once.
THEOREM FaultFreeExclusion ==
  MaxFaults = 0 => (Spec => [](\A p, q \in Holders : p = q))
<1> SUFFICES ASSUME MaxFaults = 0
             PROVE  Spec => [](\A p, q \in Holders : p = q)
  OBVIOUS
<1>1. Init => NoFaultInv
  BY InitIInv DEF Init, NoFaultInv
<1>2. NoFaultInv /\ [Next]_vars => NoFaultInv'
  <2> SUFFICES ASSUME NoFaultInv, [Next]_vars PROVE NoFaultInv'
    OBVIOUS
  <2>1. IInv'
    BY StepIInv DEF NoFaultInv
  <2>2. faults = 0
    BY FaultAssumption DEF NoFaultInv, IInv, TypeOK
  <2> USE ProcAssumption
      DEF NoFaultInv, IInv, TypeOK, Goto, RemoveDir, Abandon,
          Status, Contending, Holding
  <2>3. CASE UNCHANGED vars
    BY <2>1, <2>3 DEF vars
  <2>4. CASE Age
    BY <2>1, <2>4 DEF Age
  <2>5. ASSUME NEW p \in Proc, Start(p) \/ PassDeadline(p) \/ Mkdir(p)
        PROVE  NoFaultInv'
    BY <2>1, <2>5 DEF Start, PassDeadline, Mkdir
  <2>6. ASSUME NEW p \in Proc, WriteOwner(p) \/ Undo(p) \/ Rm(p)
        PROVE  NoFaultInv'
    BY <2>1, <2>6 DEF WriteOwner, Undo, Rm
  <2>7. ASSUME NEW p \in Proc,
               Stat(p) \/ CheckDeadline(p) \/ FinishBody(p) \/ ReadOwner(p)
        PROVE  NoFaultInv'
    BY <2>1, <2>7 DEF Stat, CheckDeadline, FinishBody, ReadOwner
  <2>8. ASSUME NEW p \in Proc,
               Recover(p) \/ Overrun(p) \/ ReleaseFails(p) \/ Crash(p)
        PROVE  NoFaultInv'
    BY <2>2, <2>8 DEF Recover, Overrun, ReleaseFails, Crash
  <2>9. QED
    BY <2>3, <2>4, <2>5, <2>6, <2>7, <2>8 DEF Next, Step
<1>3. NoFaultInv => \A p, q \in Holders : p = q
  BY DEF NoFaultInv, IInv, Holders, Holding
<1>4. QED
  BY <1>1, <1>2, <1>3, PTL DEF Spec

-----------------------------------------------------------------------------
\* A step that leaves no breach behind starts one body when none runs, ends
\* one, or leaves the set of bodies alone.
LEMMA StepRefines ==
  IInv /\ [Next]_vars => [breach' = {} => Abstract!Next]_Holders
<1> SUFFICES ASSUME IInv, [Next]_vars, breach' = {}, Holders' # Holders
             PROVE  Abstract!Next
  OBVIOUS
<1> USE ProcAssumption DEF Goto
<1>0. breach = {}
  BY DEF Next, Step, Age, Start, Mkdir, WriteOwner, Undo, Stat, Recover,
         CheckDeadline, FinishBody, ReadOwner, Rm, PassDeadline, Overrun,
         ReleaseFails, Crash, vars
<1>1. PICK p \in Proc : WriteOwner(p) \/ FinishBody(p) \/ Crash(p)
  <2>1. ~UNCHANGED pc
    BY DEF Holders
  <2>2. ~Age /\ \A p \in Proc : ~PassDeadline(p) /\ ~Overrun(p)
    BY <2>1 DEF Age, PassDeadline, Overrun
  <2>3. ASSUME NEW p \in Proc, pc[p] # "fn",
               \E w \in Status \ {"fn"} : pc' = [pc EXCEPT ![p] = w]
        PROVE  FALSE
    BY <2>3 DEF Holders, IInv, TypeOK, Status, Contending, Holding
  <2>4. ASSUME NEW p \in Proc
        PROVE  /\ ~Start(p) /\ ~Mkdir(p) /\ ~Undo(p) /\ ~Stat(p)
               /\ ~Recover(p) /\ ~CheckDeadline(p) /\ ~ReadOwner(p)
               /\ ~Rm(p) /\ ~ReleaseFails(p)
    BY <2>3 DEF Start, Mkdir, Undo, Stat, Recover, CheckDeadline, ReadOwner,
                Rm, ReleaseFails, Status, Contending, Holding
  <2>5. ~UNCHANGED vars
    BY <2>1 DEF vars
  <2>6. QED
    BY <2>2, <2>4, <2>5 DEF Next, Step
<1>2. CASE WriteOwner(p)
  <2>1. pc[p] = "writeOwner" /\ maker = p
    BY <1>0, <1>2 DEF WriteOwner, IInv, Holding
  <2>2. Holders = {}
    BY <1>0, <2>1 DEF IInv, Holders, Holding
  <2>3. Holders' = {p}
    BY <1>2, <2>1, <2>2 DEF WriteOwner, Holders, IInv, TypeOK
  <2>4. QED
    BY <2>2, <2>3 DEF Abstract!Next, Abstract!Enter
<1>3. CASE FinishBody(p) \/ Crash(p)
  <2>1. p \in Holders /\ Holders' = Holders \ {p}
    BY <1>3 DEF FinishBody, Crash, Holders, IInv, TypeOK
  <2>2. QED
    BY <2>1 DEF Abstract!Next, Abstract!Leave
<1>4. QED
  BY <1>1, <1>2, <1>3

\* The mkdir and owner-file protocol implements the abstract lock up to the
\* first breach.
THEOREM Refinement == Spec => ImplementsMutex
<1>1. Init => Abstract!Init
  BY DEF Init, Abstract!Init, Holders
<1>2. QED
  BY <1>1, StepRefines, Invariance, PTL DEF Spec, ImplementsMutex

=============================================================================
