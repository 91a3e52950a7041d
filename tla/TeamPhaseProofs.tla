-------------------------- MODULE TeamPhaseProofs --------------------------
(* Theorems about the team phase, for any number of polls and hooks and    *)
(* any limit on the rounds of team-fix.                                     *)
EXTENDS TeamPhase, SequenceTheorems, TLAPS

\* Sequences written out: what Append and \o yield on short tuples.
LEMMA AppendOne ==
  ASSUME NEW x, NEW y
  PROVE  Append(<<x>>, y) = <<x, y>>
<1> DEFINE S == {x, y}
<1>1. <<x>> \in Seq(S) /\ <<x, y>> \in Seq(S) /\ x \in S /\ y \in S
  OBVIOUS
<1> HIDE DEF S
<1>2. Append(<<x>>, y) \in Seq(S) /\ Len(Append(<<x>>, y)) = 2
  BY <1>1
<1>3. \A i \in 1 .. 2 : Append(<<x>>, y)[i] = <<x, y>>[i]
  BY <1>1
<1>4. QED
  BY <1>1, <1>2, <1>3, SeqEqual

LEMMA ConcatTwo ==
  ASSUME NEW w, NEW x, NEW y, NEW z
  PROVE  <<w, x>> \o <<y, z>> = <<w, x, y, z>>
<1> DEFINE S == {w, x, y, z}
<1>1. /\ <<w, x>> \in Seq(S) /\ <<y, z>> \in Seq(S) /\ <<w, x, y, z>> \in Seq(S)
  OBVIOUS
<1> HIDE DEF S
<1>2. <<w, x>> \o <<y, z>> \in Seq(S) /\ Len(<<w, x>> \o <<y, z>>) = 4
  BY <1>1
<1>3. \A i \in 1 .. 4 : (<<w, x>> \o <<y, z>>)[i] = <<w, x, y, z>>[i]
  BY <1>1
<1>4. QED
  BY <1>1, <1>2, <1>3, SeqEqual

LEMMA ConcatOne ==
  ASSUME NEW x, NEW y, NEW z
  PROVE  <<x>> \o <<y, z>> = <<x, y, z>>
<1> DEFINE S == {x, y, z}
<1>1. /\ <<x>> \in Seq(S) /\ <<y, z>> \in Seq(S) /\ <<x, y, z>> \in Seq(S)
  OBVIOUS
<1> HIDE DEF S
<1>2. <<x>> \o <<y, z>> \in Seq(S) /\ Len(<<x>> \o <<y, z>>) = 3
  BY <1>1
<1>3. \A i \in 1 .. 3 : (<<x>> \o <<y, z>>)[i] = <<x, y, z>>[i]
  BY <1>1
<1>4. QED
  BY <1>1, <1>2, <1>3, SeqEqual

LEMMA AppendTwo ==
  ASSUME NEW x, NEW y, NEW z
  PROVE  Append(<<x, y>>, z) = <<x, y, z>>
<1> DEFINE S == {x, y, z}
<1>1. /\ <<x, y>> \in Seq(S) /\ z \in S /\ <<x, y, z>> \in Seq(S)
  OBVIOUS
<1> HIDE DEF S
<1>2. Append(<<x, y>>, z) \in Seq(S) /\ Len(Append(<<x, y>>, z)) = 3
  BY <1>1
<1>3. \A i \in 1 .. 3 : Append(<<x, y>>, z)[i] = <<x, y, z>>[i]
  BY <1>1
<1>4. QED
  BY <1>1, <1>2, <1>3, SeqEqual

LEMMA AppendNone ==
  ASSUME NEW x
  PROVE  Append(<<>>, x) = <<x>>
<1> DEFINE S == {x}
<1>1. /\ <<>> \in Seq(S) /\ x \in S /\ <<x>> \in Seq(S)
  OBVIOUS
<1> HIDE DEF S
<1>2. Append(<<>>, x) \in Seq(S) /\ Len(Append(<<>>, x)) = 1 /\ Append(<<>>, x)[1] = x
  BY <1>1
<1>3. QED
  BY <1>1, <1>2, SeqEqual

LEMMA ConcatNone ==
  ASSUME NEW y, NEW z
  PROVE  <<>> \o <<y, z>> = <<y, z>>
<1> DEFINE S == {y, z}
<1>1. /\ <<y, z>> \in Seq(S)
  OBVIOUS
<1> HIDE DEF S
<1>4. QED
  BY <1>1

\* The steps from each stage to an end, or to team-fix.
LEMMA PathToEnd ==
  ASSUME NEW to \in {"team-fix", "complete", "failed"}
  PROVE  /\ Path("team-plan", to) = <<"team-prd", "team-exec", "team-verify", to>>
         /\ Path("team-prd", to) = <<"team-exec", "team-verify", to>>
         /\ Path("team-exec", to) = <<"team-verify", to>>
         /\ Path("team-verify", to) = <<to>>
         /\ to # "team-fix" => Path("team-fix", to) = <<to>>
         /\ to = "team-fix" => Path("team-fix", to) = <<>>
<1> USE DEF Path, ToExec, TerminalPhase
<1>1. Path("team-plan", to) = <<"team-prd", "team-exec">> \o <<"team-verify", to>>
  OBVIOUS
<1>2. Path("team-prd", to) = <<"team-exec">> \o <<"team-verify", to>>
  OBVIOUS
<1>3. Path("team-exec", to) = <<>> \o <<"team-verify", to>>
  OBVIOUS
<1>4. Path("team-verify", to) = <<to>>
  OBVIOUS
<1>5. /\ to # "team-fix" => Path("team-fix", to) = <<to>>
      /\ to = "team-fix" => Path("team-fix", to) = <<>>
  OBVIOUS
<1> HIDE DEF Path
<1>6. QED
  BY <1>1, <1>2, <1>3, <1>4, <1>5, ConcatTwo, ConcatOne, ConcatNone

\* The steps from each stage to team-verify.
LEMMA PathToVerify ==
  /\ Path("team-plan", "team-verify") = <<"team-prd", "team-exec", "team-verify">>
  /\ Path("team-prd", "team-verify") = <<"team-exec", "team-verify">>
  /\ Path("team-exec", "team-verify") = <<"team-verify">>
  /\ Path("team-verify", "team-verify") = <<>>
  /\ Path("team-fix", "team-verify") = <<"team-exec", "team-verify">>
<1> USE DEF Path, ToExec, TerminalPhase
<1>1. Path("team-plan", "team-verify") = Append(<<"team-prd", "team-exec">>, "team-verify")
  OBVIOUS
<1>2. Path("team-prd", "team-verify") = Append(<<"team-exec">>, "team-verify")
  OBVIOUS
<1>3. Path("team-exec", "team-verify") = Append(<<>>, "team-verify")
  OBVIOUS
<1>4. Path("team-verify", "team-verify") = <<>>
  OBVIOUS
<1>5. Path("team-fix", "team-verify") = Append(<<"team-exec">>, "team-verify")
  OBVIOUS
<1> HIDE DEF Path
<1>6. QED
  BY <1>1, <1>2, <1>3, <1>4, <1>5, AppendTwo, AppendOne, AppendNone

\* The steps from each stage to team-exec.
LEMMA PathToExec ==
  /\ Path("team-plan", "team-exec") = <<"team-prd", "team-exec">>
  /\ Path("team-prd", "team-exec") = <<"team-exec">>
  /\ Path("team-exec", "team-exec") = <<>>
  /\ Path("team-verify", "team-exec") = <<>>
  /\ Path("team-fix", "team-exec") = <<"team-exec">>
  BY DEF Path, ToExec, TerminalPhase

-----------------------------------------------------------------------------
\* A legal step ends where it was meant to, or in failed in place of team-fix,
\* and keeps the count within its limit.
LEMMA TransitionLegal ==
  ASSUME NEW s \in PhaseState, s.phase \in StagePhase, NEW to \in Allowed[s.phase]
  PROVE  /\ Transition(s, to) \in PhaseState
         /\ to # "team-fix" => Transition(s, to).phase = to
<1>1. to \in Phase
  BY DEF Allowed, StagePhase, Phase, TerminalPhase
<1>2. CASE to # "team-fix"
  BY <1>1, <1>2 DEF Transition, PhaseState
<1>3. CASE to = "team-fix" /\ s.attempt + 1 > MaxFixAttempts
  BY <1>3 DEF Transition, PhaseState, Phase, TerminalPhase
<1>4. CASE to = "team-fix" /\ ~(s.attempt + 1 > MaxFixAttempts)
  BY <1>1, <1>4, FixAssumption DEF Transition, PhaseState
<1>5. QED
  BY <1>2, <1>3, <1>4


\* A path p that may be walked from the phase f: every step of it is legal,
\* and before its end it passes through stages other than team-fix.
Middle == {"team-prd", "team-exec", "team-verify"}
LegalPath(f, p) ==
  /\ p \in Seq(Phase)
  /\ Len(p) > 0 => p[1] \in Allowed[f]
  /\ \A i \in 1 .. Len(p) :
       i + 1 \in 1 .. Len(p) => p[i] \in Middle /\ p[i + 1] \in Allowed[p[i]]

\* One step along such a path.
LEMMA AdvanceLegal ==
  ASSUME NEW f \in StagePhase, NEW p, LegalPath(f, p),
         NEW r \in PhaseState, NEW i \in 0 .. 3,
         i < Len(p) => r.phase = IF i = 0 THEN f ELSE p[i]
  PROVE  /\ Advance(r, p, i + 1) \in PhaseState
         /\ i + 1 < Len(p) => Advance(r, p, i + 1).phase = p[i + 1]
<1> DEFINE to == p[i + 1]
<1>0. Len(p) \in Nat
  BY DEF LegalPath
<1>1. CASE i + 1 > Len(p)
  BY <1>0, <1>1 DEF Advance
<1>2. CASE ~(i + 1 > Len(p))
  <2>1. r.phase \in StagePhase /\ to \in Allowed[r.phase]
    <3>1. CASE i = 0
      BY <1>0, <1>2, <3>1 DEF LegalPath
    <3>2. CASE i # 0
      <4>1. i \in 1 .. Len(p) /\ i + 1 \in 1 .. Len(p)
        BY <1>0, <1>2, <3>2
      <4>2. r.phase = p[i]
        BY <1>0, <1>2, <3>2
      <4>3. QED
        BY <4>1, <4>2 DEF LegalPath, Middle, StagePhase
    <3>3. QED
      BY <3>1, <3>2
  <2>2. i + 1 < Len(p) => to # "team-fix"
    BY <1>0 DEF LegalPath, Middle
  <2>3. CASE r.phase = to
    BY <2>3 DEF Advance
  <2>4. CASE r.phase # to
    <3>1. Advance(r, p, i + 1) = Transition(r, to)
      BY <1>2, <2>1, <2>4 DEF Advance, StagePhase, TerminalPhase
    <3>2. QED
      BY <2>1, <2>2, <3>1, TransitionLegal
  <2>5. QED
    BY <2>3, <2>4
<1>3. QED
  BY <1>1, <1>2

LEMMA WalkLegal ==
  ASSUME NEW s \in PhaseState, s.phase \in StagePhase, NEW p, LegalPath(s.phase, p)
  PROVE  Walk(s, p) \in PhaseState
<1> DEFINE r1 == Advance(s, p, 1)
           r2 == Advance(r1, p, 2)
           r3 == Advance(r2, p, 3)
           r4 == Advance(r3, p, 4)
<1>1. r1 \in PhaseState /\ (1 < Len(p) => r1.phase = p[1])
  <2>1. /\ Advance(s, p, 0 + 1) \in PhaseState
        /\ 0 + 1 < Len(p) => Advance(s, p, 0 + 1).phase = p[0 + 1]
    BY AdvanceLegal
  <2>2. QED
    BY <2>1
<1>2. r2 \in PhaseState /\ (2 < Len(p) => r2.phase = p[2])
  <2>1. /\ Advance(r1, p, 1 + 1) \in PhaseState
        /\ 1 + 1 < Len(p) => Advance(r1, p, 1 + 1).phase = p[1 + 1]
    <3> HIDE DEF r1
    <3> QED
      BY <1>1, AdvanceLegal
  <2>2. QED
    BY <2>1
<1>3. r3 \in PhaseState /\ (3 < Len(p) => r3.phase = p[3])
  <2>1. /\ Advance(r2, p, 2 + 1) \in PhaseState
        /\ 2 + 1 < Len(p) => Advance(r2, p, 2 + 1).phase = p[2 + 1]
    <3> HIDE DEF r2
    <3> QED
      BY <1>2, AdvanceLegal
  <2>2. QED
    BY <2>1
<1>4. r4 \in PhaseState
  <2>1. Advance(r3, p, 3 + 1) \in PhaseState
    <3> HIDE DEF r3
    <3> QED
      BY <1>3, AdvanceLegal
  <2>2. QED
    BY <2>1
<1>5. QED
  BY <1>4 DEF Walk

\* The legal steps that paths are made of.
LEMMA LegalSteps ==
  /\ "team-prd" \in Allowed["team-plan"] /\ "team-exec" \in Allowed["team-prd"]
  /\ "team-verify" \in Allowed["team-exec"] /\ "team-exec" \in Allowed["team-fix"]
  /\ {"team-fix", "complete", "failed"} \subseteq Allowed["team-verify"]
  /\ {"complete", "failed"} \subseteq Allowed["team-fix"]
  BY DEF Allowed, StagePhase

\* Paths of up to four steps.
LEMMA NoSteps ==
  ASSUME NEW f \in StagePhase
  PROVE  LegalPath(f, <<>>)
BY DEF LegalPath

LEMMA OneStep ==
  ASSUME NEW f \in StagePhase, NEW d \in Phase, d \in Allowed[f]
  PROVE  LegalPath(f, <<d>>)
BY DEF LegalPath

LEMMA TwoSteps ==
  ASSUME NEW f \in StagePhase, NEW a \in Middle, NEW d \in Phase,
         a \in Allowed[f], d \in Allowed[a]
  PROVE  LegalPath(f, <<a, d>>)
<1>1. a \in Phase
  BY DEF Middle, Phase, StagePhase
<1> QED BY <1>1 DEF LegalPath

LEMMA ThreeSteps ==
  ASSUME NEW f \in StagePhase, NEW a \in Middle, NEW b \in Middle, NEW d \in Phase,
         a \in Allowed[f], b \in Allowed[a], d \in Allowed[b]
  PROVE  LegalPath(f, <<a, b, d>>)
<1>1. a \in Phase /\ b \in Phase
  BY DEF Middle, Phase, StagePhase
<1> QED BY <1>1 DEF LegalPath

LEMMA FourSteps ==
  ASSUME NEW f \in StagePhase, NEW a \in Middle, NEW b \in Middle, NEW c \in Middle,
         NEW d \in Phase,
         a \in Allowed[f], b \in Allowed[a], c \in Allowed[b], d \in Allowed[c]
  PROVE  LegalPath(f, <<a, b, c, d>>)
<1>1. a \in Phase /\ b \in Phase /\ c \in Phase
  BY DEF Middle, Phase, StagePhase
<1> QED BY <1>1 DEF LegalPath

\* The paths of the phase controller are legal ones.
LEMMA PathLegal ==
  ASSUME NEW f \in StagePhase, NEW to \in Target
  PROVE  LegalPath(f, Path(f, to))
<1>0. /\ {"team-prd", "team-exec", "team-verify"} \subseteq Middle
      /\ {"team-prd", "team-exec", "team-verify", "team-fix", "complete", "failed"}
           \subseteq Phase
      /\ f \in {"team-plan", "team-prd", "team-exec", "team-verify", "team-fix"}
  BY DEF Middle, Phase, StagePhase, TerminalPhase
<1>1. CASE to \in {"team-fix", "complete", "failed"}
  <2>0. to \in Phase /\ to \in Allowed["team-verify"]
        /\ (to # "team-fix" => to \in Allowed["team-fix"])
    BY <1>0, <1>1, LegalSteps
  <2>1. LegalPath("team-plan", <<"team-prd", "team-exec", "team-verify", to>>)
    BY <1>0, <2>0, LegalSteps, FourSteps DEF StagePhase
  <2>2. LegalPath("team-prd", <<"team-exec", "team-verify", to>>)
    BY <1>0, <2>0, LegalSteps, ThreeSteps DEF StagePhase
  <2>3. LegalPath("team-exec", <<"team-verify", to>>)
    BY <1>0, <2>0, LegalSteps, TwoSteps DEF StagePhase
  <2>4. LegalPath("team-verify", <<to>>) /\ (to # "team-fix" => LegalPath("team-fix", <<to>>))
    BY <2>0, OneStep DEF StagePhase
  <2>5. LegalPath("team-fix", <<>>)
    BY NoSteps DEF StagePhase
  <2>6. QED
    BY <1>0, <1>1, <2>1, <2>2, <2>3, <2>4, <2>5, PathToEnd
<1>2. CASE to = "team-verify"
  <2>1. LegalPath("team-plan", <<"team-prd", "team-exec", "team-verify">>)
    BY <1>0, LegalSteps, ThreeSteps DEF StagePhase
  <2>2. /\ LegalPath("team-prd", <<"team-exec", "team-verify">>)
        /\ LegalPath("team-fix", <<"team-exec", "team-verify">>)
    BY <1>0, LegalSteps, TwoSteps DEF StagePhase
  <2>3. LegalPath("team-exec", <<"team-verify">>)
    BY <1>0, LegalSteps, OneStep DEF StagePhase
  <2>4. LegalPath("team-verify", <<>>)
    BY NoSteps DEF StagePhase
  <2>5. QED
    BY <1>0, <1>2, <2>1, <2>2, <2>3, <2>4, PathToVerify
<1>3. CASE to = "team-exec"
  <2>1. LegalPath("team-plan", <<"team-prd", "team-exec">>)
    BY <1>0, LegalSteps, TwoSteps DEF StagePhase
  <2>2. LegalPath("team-prd", <<"team-exec">>) /\ LegalPath("team-fix", <<"team-exec">>)
    BY <1>0, LegalSteps, OneStep DEF StagePhase
  <2>3. LegalPath("team-exec", <<>>) /\ LegalPath("team-verify", <<>>)
    BY NoSteps DEF StagePhase
  <2>4. QED
    BY <1>0, <1>3, <2>1, <2>2, <2>3, PathToExec
<1>4. QED
  BY <1>1, <1>2, <1>3 DEF Target

\* A poll that finds a well-formed phase writes a well-formed one: it never
\* asks for a step that transitionPhase rejects, nor passes the limit.
LEMMA ReconcileLegal ==
  ASSUME NEW s \in PhaseState, NEW to \in Target
  PROVE  Reconcile(s, to) \in PhaseState
<1>1. CASE s.phase \in TerminalPhase
  BY <1>1, FixAssumption DEF Reconcile, PhaseState, Phase, Target, StagePhase, TerminalPhase
<1>2. CASE s.phase \notin TerminalPhase
  <2>1. s.phase \in StagePhase
    BY <1>2 DEF PhaseState, Phase
  <2>2. Reconcile(s, to) = Walk(s, Path(s.phase, to))
    BY <1>2 DEF Reconcile
  <2>3. QED
    BY <2>1, <2>2, PathLegal, WalkLegal
<1>3. QED
  BY <1>1, <1>2

-----------------------------------------------------------------------------
\* The variables keep their types and no poll has thrown: as what a poll or a
\* report has read is a well-formed phase, so is what it writes.
IInv == PhaseTypeOK /\ PollsNeverThrow

LEMMA InitIInv == Init => IInv
<1> SUFFICES ASSUME Init PROVE IInv
  OBVIOUS
<1>1. Start \in PhaseState
  BY FixAssumption DEF Start, PhaseState, Phase, StagePhase
<1>2. /\ open \in BOOLEAN /\ failing \in BOOLEAN
      /\ unverified \in BOOLEAN /\ dead \in BOOLEAN
  BY DEF Init
<1>3. /\ phase \in PhaseState /\ base \in [Poller \cup Hook -> PhaseState]
      /\ target \in [Poller -> Target] /\ reports \in 0 .. MaxReports
  BY <1>1, FixAssumption DEF Init, Target
<1>4. /\ at \in [Poller \cup Hook -> {"off", "read", "write", "threw"}]
      /\ \A p \in Poller : at[p] # "threw"
  BY DEF Init
<1>5. QED
  BY <1>2, <1>3, <1>4 DEF IInv, PhaseTypeOK, PollsNeverThrow

LEMMA StepIInv == IInv /\ [Next]_vars => IInv'
<1> SUFFICES ASSUME IInv, [Next]_vars PROVE IInv'
  OBVIOUS
<1> USE DEF IInv, PhaseTypeOK, PollsNeverThrow
<1>0. Start \in PhaseState
  BY FixAssumption DEF Start, PhaseState, Phase, StagePhase
<1>1. CASE UNCHANGED vars
  BY <1>1 DEF vars, work
<1>2. ASSUME NEW p \in Poller, Look(p) \/ ReadPhase(p)
      PROVE  IInv'
  BY <1>2, PollerAssumption DEF Look, ReadPhase, Called, Target, work
<1>3. ASSUME NEW p \in Poller, WritePhase(p)
      PROVE  IInv'
  <2>1. Reconcile(base[p], target[p]) \in PhaseState
    BY ReconcileLegal
  <2>2. Reconcile(base[p], target[p]).phase # "illegal"
    BY <2>1 DEF PhaseState, Phase, StagePhase, TerminalPhase
  <2>3. phase' \in PhaseState /\ Return(p) /\ UNCHANGED <<work, reports>>
        /\ target' = [target EXCEPT ![p] = "team-exec"]
    BY <1>3, <2>1, <2>2 DEF WritePhase
  <2>4. QED
    BY <1>0, <2>3 DEF Return, Target, work
<1>4. ASSUME NEW h \in Hook, BeginReport(h)
      PROVE  IInv'
  BY <1>4, FixAssumption DEF BeginReport, work
<1>5. ASSUME NEW h \in Hook, WriteReport(h)
      PROVE  IInv'
  <2>1. phase' \in PhaseState
    BY <1>5 DEF WriteReport, PhaseState, Phase, TerminalPhase
  <2>2. QED
    BY <1>0, <1>5, <2>1 DEF WriteReport, Return, work
<1>6. CASE WorkChanges
  BY <1>6 DEF WorkChanges, FinishTasks, AddTask, WorkersChange
<1>7. QED
  BY <1>1, <1>2, <1>3, <1>4, <1>5, <1>6 DEF Next, Poll, Report

LEMMA Invariance == Spec => []IInv
  BY InitIInv, StepIInv, PTL DEF Spec

\* The phase in the file, and what polls and reports have read of it, stays
\* well formed; the count of fixes never passes its limit.
THEOREM PhaseTypeCorrect == Spec => []PhaseTypeOK
<1>1. IInv => PhaseTypeOK
  BY DEF IInv
<1>2. QED
  BY <1>1, Invariance, PTL

\* No poll throws, however many polls and reports overlap.
THEOREM NoThrow == Spec => []PollsNeverThrow
<1>1. IInv => PollsNeverThrow
  BY DEF IInv
<1>2. QED
  BY <1>1, Invariance, PTL

=============================================================================
