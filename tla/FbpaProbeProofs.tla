-------------------------- MODULE FbpaProbeProofs --------------------------
(***************************************************************************)
(* Proofs about FbpaProbe and ReportUse for any claims, any number of      *)
(* repeats and every run that pytest may leave behind.                     *)
(***************************************************************************)
EXTENDS ReportUse, FiniteSetTheorems, FunctionTheorems, WellFoundedInduction, TLAPS
-----------------------------------------------------------------------------
(* Reading one run *)

LEMMA LabelMeaning ==
    ASSUME NEW c \in Case
    PROVE  /\ \A side \in Sides : Label(c, side) = "PASS" <=> c.outcome = "pass"
           /\ Label(c, "base") \in {"FAIL_ASSERT", "FAIL_EXC"} <=> Genuine(c)
<1>1. /\ c.outcome \in {"pass", "failure", "error", "skipped"}
      /\ c.outcome = "failure" => c.phase = "call"
  BY DEF Case, PhasesOf
<1>2. \A side \in Sides : Label(c, side) = "PASS" <=> c.outcome = "pass"
  BY <1>1 DEF Label
<1>3. Label(c, "base") \in {"FAIL_ASSERT", "FAIL_EXC"} <=> Genuine(c)
  BY <1>1 DEF Label, Absent, ExistenceCheck, Genuine
<1> QED BY <1>2, <1>3

\* A run that does not count as a fault ran to its end, in its worktree.
LEMMA FaultFree ==
    ASSUME NEW run \in Run, NEW side \in Sides, NEW claim \in Claim,
           RunFault(run, side, claim) = None
    PROVE  /\ ~run.timedOut /\ run.code \notin {137, -9, -15}
           /\ RunKind(run, side, claim) = "CASES" =>
                 /\ ~ConftestFailed(run, side)
                 /\ CollectionFailed(run) => side = "head"
                 /\ ~CollectionFailed(run) =>
                       /\ run.report /\ Matched(run, claim) # {} /\ ~ExitMismatch(run, claim)
BY NoneAssumption DEF RunFault, RunKind, EnvFaults, TestFaults, Sides

LEMMA ReadOfCases ==
    ASSUME NEW run \in Run, NEW side \in Sides, NEW claim \in Claim, NEW limiter,
           Read(run, side, claim, limiter).fault = None,
           \/ side = "head"
           \/ Read(run, side, claim, limiter).verdict \in {"B_FAIL_ASSERT", "B_FAIL_EXC", "B_PASS"}
    PROVE  LET labels == {Label(run.cases[k], side) : k \in Judged(run, claim)}
           IN  /\ RanHere(run) /\ RunKind(run, side, claim) = "CASES"
               /\ RunFault(run, side, claim) = None
               /\ Read(run, side, claim, limiter).verdict =
                     IF side = "base" THEN SynthesizeBase(labels) ELSE SynthesizeHead(labels)
<1> DEFINE kind == RunKind(run, side, claim)
           labels == {Label(run.cases[k], side) : k \in Judged(run, claim)}
<1>1. RunFault(run, side, claim) = None
  BY DEF Read, Fault
<1>2. run.outside # "some" /\ (run.outside = "missing" => kind = "CONFTEST_ERROR")
  BY <1>1, NoneAssumption DEF Read, Fault, EnvFaults
<1>3. side = "head" => kind = "CASES"
  BY DEF RunKind, ConftestFailed, NothingCollected
<1>4. ASSUME kind = "CONFTEST_ERROR" PROVE FALSE
  <2>1. Read(run, side, claim, limiter) = ReadConftest(run.stderr)
    BY <1>1, <1>2, <1>4 DEF Read
  <2> QED BY <1>3, <1>4, <2>1, NoneAssumption DEF ReadConftest, Reading, Fault, EnvFaults
<1>5. ASSUME kind = "COLLECTION_ERROR" PROVE FALSE
  <2>1. Read(run, side, claim, limiter) = ReadCollection(LastTrouble(run), CollectionTroubles(run))
    BY <1>1, <1>2, <1>5 DEF Read
  <2> QED BY <1>3, <1>5, <2>1, NoneAssumption DEF ReadCollection, Reading, Fault, EnvFaults
<1>6. kind = "CASES"
  BY <1>4, <1>5 DEF RunKind
<1>7. RanHere(run)
  BY <1>1, <1>2, <1>6, FaultFree DEF RanHere, Run
<1>8. Read(run, side, claim, limiter) = ReadCases(run, Judged(run, claim), side, limiter)
  BY <1>1, <1>2, <1>6 DEF Read
<1>9. Read(run, side, claim, limiter).verdict =
         IF side = "base" THEN SynthesizeBase(labels) ELSE SynthesizeHead(labels)
  BY <1>8, NoneAssumption DEF ReadCases, Reading, Fault, EnvFaults
<1> QED BY <1>1, <1>6, <1>7, <1>9

\* The cases a claim is about, by their positions.
LEMMA CasesByPosition ==
    ASSUME NEW run \in Run, NEW claim \in Claim
    PROVE  /\ \A k \in DOMAIN run.cases : run.cases[k] \in Case
           /\ \A k \in Matched(run, claim) \cup Collection(run) :
                 k \in DOMAIN run.cases /\ run.cases[k] \in CasesOf(run, claim)
           /\ \A c \in CasesOf(run, claim) :
                 \E k \in Matched(run, claim) \cup Collection(run) : run.cases[k] = c
<1>1. run.cases \in Seq(Case)
  BY DEF Run
<1>2. \A k \in DOMAIN run.cases : run.cases[k] \in Case
  BY <1>1
<1> QED BY <1>2 DEF CasesOf, Matched, Collection, Range

LEMMA BaseReading ==
    ASSUME NEW run \in Run, NEW claim \in Claim, NEW limiter,
           Read(run, "base", claim, limiter).fault = None
    PROVE  /\ Read(run, "base", claim, limiter).verdict \in {"B_FAIL_ASSERT", "B_FAIL_EXC"} =>
                 FailsBefore(run, claim)
           /\ Read(run, "base", claim, limiter).verdict = "B_PASS" =>
                 /\ RanHere(run) /\ ~FailsBefore(run, claim)
                 /\ \E c \in CasesOf(run, claim) : c.outcome = "pass"
<1> DEFINE verdict == Read(run, "base", claim, limiter).verdict
           matched == Matched(run, claim)
           labels == {Label(run.cases[k], "base") : k \in matched}
<1> SUFFICES ASSUME verdict \in {"B_FAIL_ASSERT", "B_FAIL_EXC", "B_PASS"}
             PROVE  /\ verdict \in {"B_FAIL_ASSERT", "B_FAIL_EXC"} => FailsBefore(run, claim)
                    /\ verdict = "B_PASS" =>
                          /\ RanHere(run) /\ ~FailsBefore(run, claim)
                          /\ \E c \in CasesOf(run, claim) : c.outcome = "pass"
  OBVIOUS
<1>1. "base" \in Sides /\ "base" # "head"
  BY DEF Sides
<1>2. RanHere(run) /\ RunKind(run, "base", claim) = "CASES" /\ RunFault(run, "base", claim) = None
  BY <1>1, ReadOfCases
<1>3. ~CollectionFailed(run) /\ run.report
  BY <1>1, <1>2, FaultFree
<1>4. Judged(run, claim) = matched /\ Collection(run) = {}
  BY <1>3 DEF Judged, CollectionFailed
<1>5. verdict = SynthesizeBase(labels)
  BY <1>1, <1>4, ReadOfCases
<1>6. \A k \in matched :
         /\ run.cases[k] \in CasesOf(run, claim)
         /\ Label(run.cases[k], "base") = "PASS" <=> run.cases[k].outcome = "pass"
         /\ Label(run.cases[k], "base") \in {"FAIL_ASSERT", "FAIL_EXC"} <=> Genuine(run.cases[k])
  BY <1>1, CasesByPosition, LabelMeaning
<1>7. \A c \in CasesOf(run, claim) : \E k \in matched : run.cases[k] = c
  BY <1>4, CasesByPosition
<1>8. ASSUME verdict \in {"B_FAIL_ASSERT", "B_FAIL_EXC"} PROVE FailsBefore(run, claim)
  <2>1. PICK l \in labels : l \in {"FAIL_ASSERT", "FAIL_EXC"}
    BY <1>5, <1>8 DEF SynthesizeBase
  <2>2. PICK k \in matched : Label(run.cases[k], "base") = l
    BY <2>1
  <2> QED BY <1>2, <1>6, <2>1, <2>2 DEF FailsBefore
<1>9. ASSUME verdict = "B_PASS"
      PROVE  ~FailsBefore(run, claim) /\ \E c \in CasesOf(run, claim) : c.outcome = "pass"
  <2>1. "PASS" \in labels /\ "FAIL_ASSERT" \notin labels /\ "FAIL_EXC" \notin labels
    BY <1>5, <1>9 DEF SynthesizeBase
  <2>2. PICK k \in matched : Label(run.cases[k], "base") = "PASS"
    BY <2>1
  <2>3. \A j \in matched : ~Genuine(run.cases[j])
    BY <1>6, <2>1
  <2> QED BY <1>6, <1>7, <2>2, <2>3 DEF FailsBefore
<1> QED BY <1>2, <1>8, <1>9

LEMMA HeadReading ==
    ASSUME NEW run \in Run, NEW claim \in Claim, NEW limiter,
           Read(run, "head", claim, limiter).fault = None
    PROVE  /\ RanHere(run)
           /\ Read(run, "head", claim, limiter).verdict = "H_PASS" <=> PassesAfter(run, claim)
<1> DEFINE verdict == Read(run, "head", claim, limiter).verdict
           judged == Judged(run, claim)
           labels == {Label(run.cases[k], "head") : k \in judged}
<1>1. "head" \in Sides /\ "head" # "base"
  BY DEF Sides
<1>2. RanHere(run) /\ RunKind(run, "head", claim) = "CASES" /\ RunFault(run, "head", claim) = None
  BY <1>1, ReadOfCases
<1>3. verdict = SynthesizeHead(labels)
  BY <1>1, ReadOfCases
<1>4. verdict = "H_PASS" <=> labels = {"PASS"}
  BY <1>3 DEF SynthesizeHead
<1>5. \A k \in Matched(run, claim) \cup Collection(run) :
         /\ run.cases[k] \in CasesOf(run, claim) /\ run.cases[k] \in Case
         /\ Label(run.cases[k], "head") = "PASS" <=> run.cases[k].outcome = "pass"
  BY <1>1, CasesByPosition, LabelMeaning
<1>6. CASE CollectionFailed(run)
  <2>1. PICK k : k \in Collection(run)
    BY <1>6 DEF CollectionFailed
  <2>2. run.cases[k].outcome # "pass"
    BY <1>5, <2>1, NoneAssumption DEF Collection, Case, PhasesOf
  <2>3. k \in judged
    BY <1>6, <2>1 DEF Judged
  <2>4. verdict # "H_PASS"
    BY <1>4, <1>5, <2>1, <2>2, <2>3
  <2>5. ~PassesAfter(run, claim)
    BY <1>5, <2>1, <2>2 DEF PassesAfter
  <2> QED BY <1>2, <2>4, <2>5
<1>7. CASE ~CollectionFailed(run)
  <2>1. run.report /\ Matched(run, claim) # {} /\ ~ExitMismatch(run, claim)
    BY <1>1, <1>2, <1>7, FaultFree
  <2>2. judged = Matched(run, claim) /\ Collection(run) = {}
    BY <1>7, <2>1 DEF Judged, CollectionFailed
  <2>3. \A c \in CasesOf(run, claim) : \E k \in judged : run.cases[k] = c
    BY <2>2, CasesByPosition
  <2>4. verdict = "H_PASS" <=> \A k \in judged : run.cases[k].outcome = "pass"
    BY <1>4, <1>5, <2>1, <2>2
  <2>5. (\A k \in judged : run.cases[k].outcome = "pass") <=>
           \A c \in CasesOf(run, claim) : c.outcome = "pass"
    BY <1>5, <2>2, <2>3
  <2>6. CasesOf(run, claim) # {}
    BY <1>5, <2>1
  <2>7. (\A k \in judged : run.cases[k].outcome = "pass") => run.code # 1
    <3> HAVE \A k \in judged : run.cases[k].outcome = "pass"
    <3>1. \A k \in judged : run.cases[k].outcome \notin Fails /\ run.cases[k].trouble.exc # "xpass"
      BY <1>5, <2>2 DEF Fails, Case
    <3> QED BY <2>1, <2>2, <3>1 DEF ExitMismatch
  <2> QED BY <1>2, <2>4, <2>5, <2>6, <2>7 DEF PassesAfter
<1> QED BY <1>6, <1>7

\* A process that was killed, or ran other code in the claimed test.
Unmeasured(run, claim) ==
    \/ run.timedOut \/ run.code \in {137, -9, -15}
    \/ run.outside = "some" /\ Matched(run, claim) # {}

LEMMA UnmeasuredIsFault ==
    ASSUME NEW run \in Run, NEW side \in Sides, NEW claim \in Claim, NEW limiter,
           Unmeasured(run, claim)
    PROVE  Read(run, side, claim, limiter).fault \in EnvFaults
BY NoneAssumption DEF Unmeasured, Read, RunFault, Fault, EnvFaults, TestFaults

LEMMA ReadFaults ==
    ASSUME NEW run \in Run, NEW side \in Sides, NEW claim \in Claim, NEW limiter
    PROVE  Read(run, side, claim, limiter).fault \in EnvFaults \cup TestFaults \cup {None}
<1>1. RunFault(run, side, claim) \in EnvFaults \cup TestFaults \cup {None}
  BY DEF RunFault, EnvFaults, TestFaults
<1>2. \A t, troubles : ReadCollection(t, troubles).fault \in EnvFaults \cup {None}
  BY DEF ReadCollection, Fault, Reading, EnvFaults
<1>3. \A t : ReadConftest(t).fault \in EnvFaults \cup {None}
  BY DEF ReadConftest, Fault, Reading, EnvFaults
<1>4. ReadCases(run, Judged(run, claim), side, limiter).fault \in EnvFaults \cup {None}
  BY DEF ReadCases, Fault, Reading, EnvFaults
<1> QED BY <1>1, <1>2, <1>3, <1>4 DEF Read, Fault, EnvFaults

\* The repeats of one side, all but the last without a fault.
LEMMA OutcomeMeaning ==
    ASSUME NEW side \in Sides, NEW claim \in Claim, NEW limiter,
           NEW rs \in Seq(Run), rs # <<>>,
           \A k \in 1 .. Len(rs) - 1 : Read(rs[k], side, claim, limiter).fault = None
    PROVE  LET outcome == SideOutcome([k \in DOMAIN rs |-> Read(rs[k], side, claim, limiter)])
           IN  /\ outcome.fault \in EnvFaults \cup TestFaults \cup {None}
               /\ outcome.fault = None =>
                     \A k \in DOMAIN rs :
                        /\ Read(rs[k], side, claim, limiter).fault = None
                        /\ Read(rs[k], side, claim, limiter).verdict = outcome.verdict
               /\ (\E k \in DOMAIN rs : Unmeasured(rs[k], claim)) => outcome.fault \in EnvFaults
               /\ Read(rs[Len(rs)], side, claim, limiter).fault # None => outcome.fault # None
<1> DEFINE readings == [k \in DOMAIN rs |-> Read(rs[k], side, claim, limiter)]
           outcome == SideOutcome(readings)
           last == Read(rs[Len(rs)], side, claim, limiter).fault
<1>1. /\ DOMAIN rs = 1 .. Len(rs) /\ Len(rs) \in Nat \ {0} /\ Len(rs) \in DOMAIN rs
      /\ \A k \in DOMAIN rs : rs[k] \in Run
  OBVIOUS
<1>2. /\ DOMAIN readings = 1 .. Len(rs) /\ readings[Len(rs)].fault = last
      /\ readings[1] = Read(rs[1], side, claim, limiter) /\ 1 \in DOMAIN rs
  BY <1>1
<1>3. Len(readings) = Len(rs)
  BY <1>1, <1>2
<1>4. last \in EnvFaults \cup TestFaults \cup {None}
  BY <1>1, ReadFaults
<1>5. outcome.fault \in EnvFaults \cup TestFaults \cup {None}
  BY <1>2, <1>3, <1>4 DEF SideOutcome, TestFaults
<1>6. last # None => outcome.fault = last
  BY <1>2, <1>3 DEF SideOutcome
<1>7. ASSUME outcome.fault = None, NEW k \in DOMAIN rs
      PROVE  /\ Read(rs[k], side, claim, limiter).fault = None
             /\ Read(rs[k], side, claim, limiter).verdict = outcome.verdict
  <2>1. last = None /\ Agree(readings) /\ outcome.verdict = readings[1].verdict
    BY <1>2, <1>3, <1>6, <1>7, NoneAssumption DEF SideOutcome, TestFaults
  <2>2. readings[k].verdict = readings[1].verdict
    BY <1>2, <2>1 DEF Agree
  <2> QED BY <1>1, <1>2, <2>1, <2>2
<1>8. ASSUME NEW k \in DOMAIN rs, Unmeasured(rs[k], claim) PROVE outcome.fault \in EnvFaults
  <2>1. Read(rs[k], side, claim, limiter).fault \in EnvFaults
    BY <1>1, <1>8, UnmeasuredIsFault
  <2>2. k = Len(rs)
    BY <1>1, <2>1, NoneAssumption
  <2> QED BY <1>6, <2>1, <2>2, NoneAssumption
<1> QED BY <1>5, <1>6, <1>7, <1>8
-----------------------------------------------------------------------------
(* The invariant *)

Seqs == \E S : reports \in Seq(S)

TypeInv ==
    /\ claims \in ClaimLists /\ claims \in Seq(Claim)
    /\ canary \in BOOLEAN /\ changed \in BOOLEAN
    /\ Seqs /\ log \in Seq([base: Seq(Run), head: Seq(Run)]) /\ Len(log) = Len(reports)
    /\ Len(reports) <= Len(claims)
    /\ runs \in Seq(Run) /\ Len(runs) <= Repeats

\* The claim at hand: base is done when head is run, and only a last run faults.
JudgeInv ==
    /\ Len(reports) = Len(claims) => base = None /\ runs = <<>>
    /\ Len(reports) < Len(claims) =>
          /\ \A i \in 1 .. Len(runs) - 1 : Read(runs[i], Side, Current, backend).fault = None
          /\ base # None =>
                /\ Current.intent = "fixes"
                /\ base.runs \in Seq(Run) /\ Len(base.runs) = Repeats
                /\ \A i \in DOMAIN base.runs :
                      /\ Read(base.runs[i], "base", Current, backend).fault = None
                      /\ Read(base.runs[i], "base", Current, backend).verdict
                            = base.outcome.verdict

RanAll(rs) == Len(rs) = Repeats /\ \A run \in Range(rs) : RanHere(run)

AllPass(rs, claim) == RanAll(rs) /\ \A run \in Range(rs) : PassesAfter(run, claim)
NonePass(rs, claim) == RanAll(rs) /\ \A run \in Range(rs) : ~PassesAfter(run, claim)
AllFail(rs, claim) == RanAll(rs) /\ \A run \in Range(rs) : FailsBefore(run, claim)

PassAtBase(rs, claim) ==
    /\ RanAll(rs)
    /\ \A run \in Range(rs) :
          ~FailsBefore(run, claim) /\ \E c \in CasesOf(run, claim) : c.outcome = "pass"

\* What a component of a report says of the runs the report was made from.
Meaning(c, components, claim, before, after) ==
    /\ c = Component(c.kind, c.reason)
    /\ c.kind = "demonstrated" =>
          /\ claim.intent = "fixes" /\ components = {Component("demonstrated", None)}
          /\ AllFail(before, claim) /\ AllPass(after, claim)
    /\ c.kind = "no_finding" => claim.intent = "characterizes" /\ AllPass(after, claim)
    /\ c.kind = "head_not_passing" => NonePass(after, claim)
    /\ c.kind = "base_passes" => PassAtBase(before, claim) /\ RanAll(after)
    /\ c.kind = "absence_only" => RanAll(after)
    /\ c.kind = "fault" => c.reason \in EnvFaults \cup TestFaults

SomeUnmeasured(rs, claim) == \E run \in Range(rs) : Unmeasured(run, claim)

Sound(components, claim, before, after) ==
    /\ components # {}
    /\ \A c \in components :
          /\ Meaning(c, components, claim, before, after)
          /\ SomeUnmeasured(before, claim) \/ SomeUnmeasured(after, claim) =>
                c.kind = "fault" /\ c.reason \in EnvFaults

Justified(k) ==
    /\ reports[k] = [claim |-> claims[k], components |-> reports[k].components,
                     symbol |-> reports[k].symbol]
    /\ Sound(reports[k].components, claims[k], log[k].base, log[k].head)
    /\ Unfit => \A c \in reports[k].components : c.kind = "fault" /\ c.reason \in EnvFaults

ReportInv == \A k \in DOMAIN reports : Justified(k)

\* Nothing but a report on every claim leaves the probe.
FinalInv ==
    /\ pc = "reported" =>
          /\ Len(reports) = Len(claims)
          /\ report.findings = ClaimFindings(reports) \cup ExtraFindings(reports)
          /\ \A k \in DOMAIN reports : \A c \in reports[k].components :
                c.kind = "demonstrated" => changed

ProbeInv == TypeInv /\ JudgeInv /\ ReportInv /\ FinalInv
-----------------------------------------------------------------------------
(* The components a claim ends with *)

\* A claim that ends with a fault.
LEMMA FaultIsSound ==
    ASSUME NEW reason \in EnvFaults \cup TestFaults, NEW claim, NEW before, NEW after,
           SomeUnmeasured(before, claim) \/ SomeUnmeasured(after, claim) => reason \in EnvFaults
    PROVE  Sound({Component("fault", reason)}, claim, before, after)
<1> DEFINE c == Component("fault", reason)
<1>1. c.kind = "fault" /\ c.reason = reason
  BY DEF Component
<1>2. Meaning(c, {c}, claim, before, after)
  BY <1>1 DEF Meaning
<1> QED BY <1>1, <1>2 DEF Sound

\* What the repeats of head say of the head outcome.
HeadOutcome(head, claim, after, limiter) ==
    /\ head.fault \in EnvFaults \cup TestFaults \cup {None}
    /\ head.fault = None =>
          /\ Len(after) = Repeats
          /\ \A k \in DOMAIN after :
                /\ Read(after[k], "head", claim, limiter).fault = None
                /\ Read(after[k], "head", claim, limiter).verdict = head.verdict
    /\ SomeUnmeasured(after, claim) => head.fault \in EnvFaults

LEMMA HeadMeaning ==
    ASSUME NEW claim \in Claim, NEW limiter, NEW after \in Seq(Run), NEW head,
           HeadOutcome(head, claim, after, limiter), head.fault = None
    PROVE  /\ RanAll(after) /\ ~SomeUnmeasured(after, claim)
           /\ head.verdict = "H_PASS" => AllPass(after, claim)
           /\ head.verdict # "H_PASS" => NonePass(after, claim)
<1>1. \A k \in DOMAIN after : after[k] \in Run
  OBVIOUS
<1>2. \A k \in DOMAIN after :
         /\ RanHere(after[k])
         /\ head.verdict = "H_PASS" <=> PassesAfter(after[k], claim)
  BY <1>1, HeadReading DEF HeadOutcome
<1>3. ~SomeUnmeasured(after, claim)
  BY NoneAssumption DEF HeadOutcome
<1> QED BY <1>2, <1>3 DEF HeadOutcome, RanAll, AllPass, NonePass, Range

LEMMA ComponentsAreSound ==
    ASSUME NEW claim \in Claim, NEW limiter, NEW before \in Seq(Run), NEW after \in Seq(Run),
           NEW baseSide, NEW head, claim.intent = "fixes", Len(before) = Repeats,
           \A k \in DOMAIN before :
              /\ Read(before[k], "base", claim, limiter).fault = None
              /\ Read(before[k], "base", claim, limiter).verdict = baseSide.verdict,
           HeadOutcome(head, claim, after, limiter)
    PROVE  Sound(Components(baseSide, head), claim, before, after)
<1>1. \A k \in DOMAIN before : before[k] \in Run
  OBVIOUS
<1>2. \A k \in DOMAIN before :
         /\ baseSide.verdict \in {"B_FAIL_ASSERT", "B_FAIL_EXC"} => FailsBefore(before[k], claim)
         /\ baseSide.verdict = "B_PASS" =>
               /\ RanHere(before[k]) /\ ~FailsBefore(before[k], claim)
               /\ \E c \in CasesOf(before[k], claim) : c.outcome = "pass"
  BY <1>1, BaseReading
<1>3. baseSide.verdict \in {"B_FAIL_ASSERT", "B_FAIL_EXC"} => AllFail(before, claim)
  BY <1>2 DEF AllFail, RanAll, FailsBefore, Range
<1>4. baseSide.verdict = "B_PASS" => PassAtBase(before, claim)
  BY <1>2 DEF PassAtBase, RanAll, Range
<1>5. \A k \in DOMAIN before : ~Unmeasured(before[k], claim)
  BY <1>1, UnmeasuredIsFault, NoneAssumption DEF Sides
<1>6. ~SomeUnmeasured(before, claim)
  BY <1>5 DEF SomeUnmeasured, Range
<1>7. CASE head.fault # None
  <2>1. Components(baseSide, head) = {Component("fault", head.fault)}
    BY <1>7 DEF Components
  <2> QED BY <1>6, <1>7, <2>1, FaultIsSound DEF HeadOutcome
<1>8. CASE head.fault = None
  <2>1. /\ RanAll(after) /\ ~SomeUnmeasured(after, claim)
        /\ head.verdict = "H_PASS" => AllPass(after, claim)
        /\ head.verdict # "H_PASS" => NonePass(after, claim)
    BY <1>8, HeadMeaning
  <2>2. Components(baseSide, head) # {}
    BY <1>8 DEF Components
  <2>3. ASSUME NEW c \in Components(baseSide, head)
        PROVE  Meaning(c, Components(baseSide, head), claim, before, after)
    BY <1>3, <1>4, <1>8, <2>1 DEF Components, Meaning, Component
  <2> QED BY <1>6, <2>1, <2>2, <2>3 DEF Sound
<1> QED BY <1>7, <1>8

LEMMA CharacterizesIsSound ==
    ASSUME NEW claim \in Claim, NEW limiter, NEW after \in Seq(Run), NEW head,
           claim.intent = "characterizes", HeadOutcome(head, claim, after, limiter)
    PROVE  Sound(ComponentsCharacterizes(head), claim, <<>>, after)
<1>1. ~SomeUnmeasured(<<>>, claim)
  BY DEF SomeUnmeasured, Range
<1>2. CASE head.fault # None
  <2>1. ComponentsCharacterizes(head) = {Component("fault", head.fault)}
    BY <1>2 DEF ComponentsCharacterizes
  <2> QED BY <1>1, <1>2, <2>1, FaultIsSound DEF HeadOutcome
<1>3. CASE head.fault = None
  <2>1. /\ RanAll(after) /\ ~SomeUnmeasured(after, claim)
        /\ head.verdict = "H_PASS" => AllPass(after, claim)
        /\ head.verdict # "H_PASS" => NonePass(after, claim)
    BY <1>3, HeadMeaning
  <2> DEFINE c == Component(IF head.verdict = "H_PASS" THEN "no_finding"
                            ELSE "head_not_passing", None)
  <2>2. ComponentsCharacterizes(head) = {c}
    BY <1>3 DEF ComponentsCharacterizes
  <2>3. Meaning(c, {c}, claim, <<>>, after)
    BY <2>1 DEF Meaning, Component
  <2> QED BY <1>1, <2>1, <2>2, <2>3 DEF Sound
<1> QED BY <1>2, <1>3
-----------------------------------------------------------------------------
(* The invariant is inductive *)

LEMMA InvInit == Init => ProbeInv
<1> SUFFICES ASSUME Init PROVE ProbeInv
  OBVIOUS
<1>1. claims \in ClaimLists /\ claims \in Seq(Claim)
  BY RunAssumption DEF Init
<1>2. reports = <<>> /\ log = <<>> /\ runs = <<>> /\ base = None /\ pc = "setup"
  BY DEF Init
<1>3. Seqs
  BY <1>2 DEF Seqs
<1>4. log \in Seq([base: Seq(Run), head: Seq(Run)]) /\ runs \in Seq(Run)
  BY <1>2
<1>5. Len(log) = Len(reports) /\ Len(reports) <= Len(claims) /\ Len(runs) <= Repeats
  BY <1>1, <1>2, RunAssumption
<1>6. canary \in BOOLEAN /\ changed \in BOOLEAN
  BY DEF Init
<1>7. TypeInv
  BY <1>1, <1>3, <1>4, <1>5, <1>6 DEF TypeInv
<1>8. JudgeInv
  BY <1>2 DEF JudgeInv
<1>9. ReportInv /\ FinalInv
  BY <1>2 DEF ReportInv, FinalInv
<1> QED BY <1>7, <1>8, <1>9 DEF ProbeInv

\* Closing a claim with sound components keeps everything.
LEMMA CloseKeeps ==
    ASSUME ProbeInv, Judging, NEW components, NEW symbol,
           NEW before \in Seq(Run), NEW after \in Seq(Run),
           Sound(components, Current, before, after),
           Unfit => \A c \in components : c.kind = "fault" /\ c.reason \in EnvFaults,
           Close(components, symbol, before, after)
    PROVE  ProbeInv'
<1> DEFINE new == [claim |-> Current, components |-> components, symbol |-> symbol]
<1>0. PICK n : n = Len(reports) + 1
  OBVIOUS
<1>1. PICK S : reports \in Seq(S)
  BY DEF ProbeInv, TypeInv, Seqs
<1>2. /\ claims \in Seq(Claim) /\ Len(reports) < Len(claims) /\ Len(log) = Len(reports)
      /\ log \in Seq([base: Seq(Run), head: Seq(Run)])
      /\ Repeats \in Nat \ {0} /\ pc = "claims"
  BY RunAssumption DEF ProbeInv, TypeInv, Judging
<1>3. reports \in Seq(S \cup {new}) /\ new \in S \cup {new}
  BY <1>1
<1>4. /\ reports' = Append(reports, new)
      /\ log' = Append(log, [base |-> before, head |-> after])
      /\ base' = None /\ runs' = <<>>
      /\ claims' = claims /\ canary' = canary /\ changed' = changed /\ backend' = backend
      /\ pc' = pc
  BY DEF Close, setup
<1>5. /\ reports' \in Seq(S \cup {new}) /\ Len(reports') = n /\ reports'[n] = new
      /\ \A k \in 1 .. Len(reports) : reports'[k] = reports[k]
  BY <1>0, <1>3, <1>4
<1>6. /\ log' \in Seq([base: Seq(Run), head: Seq(Run)]) /\ Len(log') = n
      /\ log'[n] = [base |-> before, head |-> after]
      /\ \A k \in 1 .. Len(reports) : log'[k] = log[k]
  BY <1>0, <1>2, <1>4
<1>7. /\ DOMAIN reports = 1 .. Len(reports) /\ DOMAIN reports' = 1 .. n
      /\ Len(reports) \in Nat /\ Len(claims) \in Nat
  BY <1>0, <1>1, <1>2, <1>5
<1>8. TypeInv'
  <2>1. Seqs'
    BY <1>5 DEF Seqs
  <2> QED BY <1>0, <1>2, <1>4, <1>5, <1>6, <1>7, <2>1 DEF ProbeInv, TypeInv
<1>9. JudgeInv'
  BY <1>4 DEF JudgeInv
<1>10. ReportInv'
  <2>1. ASSUME NEW k \in 1 .. Len(reports) PROVE Justified(k)'
    <3>1. Justified(k)
      BY <1>7, <2>1 DEF ProbeInv, ReportInv
    <3>2. reports'[k] = reports[k] /\ log'[k] = log[k]
      BY <1>5, <1>6, <2>1
    <3> QED BY <1>4, <3>1, <3>2 DEF Justified, Unfit
  <2>2. Justified(n)'
    <3>1. Current = claims[n]
      BY <1>0 DEF Current
    <3>2. reports'[n].components = components /\ reports'[n].symbol = symbol
      BY <1>5
    <3>3. log'[n].base = before /\ log'[n].head = after
      BY <1>6
    <3> QED BY <1>4, <1>5, <3>1, <3>2, <3>3 DEF Justified, Unfit
  <2> QED BY <1>0, <1>7, <2>1, <2>2 DEF ReportInv
<1>11. FinalInv'
  BY <1>2, <1>4 DEF FinalInv
<1> QED BY <1>8, <1>9, <1>10, <1>11 DEF ProbeInv

\* What the runs of a side come to, once it is done.
LEMMA SideMeaning ==
    ASSUME ProbeInv, Judging, SideDone
    PROVE  LET outcome == SideOutcome(Readings)
           IN  /\ outcome.fault \in EnvFaults \cup TestFaults \cup {None}
               /\ outcome.fault = None =>
                     /\ Len(runs) = Repeats
                     /\ \A k \in DOMAIN runs :
                           /\ Read(runs[k], Side, Current, backend).fault = None
                           /\ Read(runs[k], Side, Current, backend).verdict = outcome.verdict
               /\ SomeUnmeasured(runs, Current) => outcome.fault \in EnvFaults
<1>1. /\ runs \in Seq(Run) /\ runs # <<>> /\ Len(reports) < Len(claims)
      /\ \A i \in 1 .. Len(runs) - 1 : Read(runs[i], Side, Current, backend).fault = None
  BY DEF ProbeInv, TypeInv, JudgeInv, Judging, SideDone
<1>2. Side \in Sides
  BY DEF Side, Sides
<1>3. Current \in Claim
  BY <1>1 DEF ProbeInv, TypeInv, Current, Seqs
<1>4. Len(runs) \in DOMAIN runs /\ Readings[Len(runs)] = Read(runs[Len(runs)], Side, Current, backend)
  BY <1>1 DEF Readings
<1>5. Len(runs) = Repeats \/ Read(runs[Len(runs)], Side, Current, backend).fault # None
  BY <1>4 DEF SideDone
<1> QED BY <1>1, <1>2, <1>3, <1>5, OutcomeMeaning DEF Readings, SomeUnmeasured, Range

LEMMA FaultUnfitKeeps == ASSUME ProbeInv, FaultUnfit PROVE ProbeInv'
<1> DEFINE reason == IF backend = "none" THEN "F_RUNNER" ELSE "F_ENV_IMPORT"
<1>1. reason \in EnvFaults /\ <<>> \in Seq(Run)
  BY DEF EnvFaults
<1>2. /\ Judging
      /\ Close({Component("fault", reason)}, None, <<>>, <<>>)
  BY DEF FaultUnfit
<1>3. Sound({Component("fault", reason)}, Current, <<>>, <<>>)
  BY <1>1, FaultIsSound
<1>4. \A c \in {Component("fault", reason)} : c.kind = "fault" /\ c.reason \in EnvFaults
  BY <1>1 DEF Component
<1> HIDE DEF reason
<1> QED BY <1>1, <1>2, <1>3, <1>4, CloseKeeps

LEMMA JudgeRaisesKeeps == ASSUME ProbeInv, JudgeRaises PROVE ProbeInv'
<1>1. "F_RUNNER" \in EnvFaults
  BY DEF EnvFaults
<1>2. Judging /\ ~Unfit /\ Close({Component("fault", "F_RUNNER")}, None, SoFar("base"), SoFar("head"))
  BY DEF JudgeRaises
<1>3. SoFar("base") \in Seq(Run) /\ SoFar("head") \in Seq(Run)
  BY <1>2 DEF ProbeInv, TypeInv, JudgeInv, SoFar, Judging
<1>4. Sound({Component("fault", "F_RUNNER")}, Current, SoFar("base"), SoFar("head"))
  BY <1>1, FaultIsSound
<1> QED BY <1>2, <1>3, <1>4, CloseKeeps

LEMMA RunPytestKeeps == ASSUME ProbeInv, RunPytest PROVE ProbeInv'
<1>1. PICK run \in Run : runs' = Append(runs, run)
  BY RunAssumption DEF RunPytest, ProbeInv, TypeInv
<1>2. /\ Judging /\ ~Unfit /\ ~SideDone
      /\ UNCHANGED <<claims, backend, canary, changed, pc, base, reports, log, report>>
  BY DEF RunPytest, setup
<1>3. /\ runs \in Seq(Run) /\ Len(runs) <= Repeats /\ Repeats \in Nat \ {0}
      /\ Len(reports) < Len(claims)
      /\ \A i \in 1 .. Len(runs) - 1 : Read(runs[i], Side, Current, backend).fault = None
  BY <1>2, RunAssumption DEF ProbeInv, TypeInv, JudgeInv, Judging
<1>4. ~ (runs = <<>>) => Len(runs) # Repeats /\ Read(runs[Len(runs)], Side, Current, backend).fault = None
  <2> HAVE ~ (runs = <<>>)
  <2>1. Len(runs) \in DOMAIN runs
    BY <1>3
  <2>2. Readings[Len(runs)] = Read(runs[Len(runs)], Side, Current, backend)
    BY <2>1 DEF Readings
  <2> QED BY <1>2, <2>2 DEF SideDone
<1>5. /\ runs' \in Seq(Run) /\ Len(runs') = Len(runs) + 1 /\ Len(runs) \in Nat
      /\ \A i \in 1 .. Len(runs) : runs'[i] = runs[i]
  BY <1>1, <1>3
<1>6. Len(runs') <= Repeats
  BY <1>3, <1>4, <1>5
<1>7. \A i \in 1 .. Len(runs) : Read(runs[i], Side, Current, backend).fault = None
  BY <1>3, <1>4
<1>8. Side' = Side /\ Current' = Current
  BY <1>2 DEF Side, Current
<1>9. TypeInv'
  BY <1>2, <1>5, <1>6 DEF ProbeInv, TypeInv, Seqs
<1>10. JudgeInv'
  <2>1. \A i \in 1 .. Len(runs') - 1 : Read(runs'[i], Side', Current', backend').fault = None
    BY <1>2, <1>5, <1>7, <1>8
  <2> QED BY <1>2, <1>3, <1>8, <2>1 DEF ProbeInv, JudgeInv
<1>11. ReportInv' /\ FinalInv'
  BY <1>2 DEF ProbeInv, ReportInv, Justified, Unfit, FinalInv
<1> QED BY <1>9, <1>10, <1>11 DEF ProbeInv

LEMMA EndBaseKeeps == ASSUME ProbeInv, EndBase PROVE ProbeInv'
<1> DEFINE outcome == SideOutcome(Readings)
<1>1. /\ Judging /\ ~Unfit /\ SideDone /\ Side = "base" /\ Current.intent # "characterizes"
      /\ Len(reports) < Len(claims) /\ runs \in Seq(Run)
  BY DEF EndBase, Side, Judging, ProbeInv, TypeInv
<1>2. /\ outcome.fault \in EnvFaults \cup TestFaults \cup {None}
      /\ outcome.fault = None =>
            /\ Len(runs) = Repeats
            /\ \A k \in DOMAIN runs :
                  /\ Read(runs[k], "base", Current, backend).fault = None
                  /\ Read(runs[k], "base", Current, backend).verdict = outcome.verdict
      /\ SomeUnmeasured(runs, Current) => outcome.fault \in EnvFaults
  BY <1>1, SideMeaning
<1>3. CASE outcome.fault # None
  <2>1. Close({Component("fault", outcome.fault)}, None, runs, <<>>)
    BY <1>3 DEF EndBase
  <2>2. ~SomeUnmeasured(<<>>, Current)
    BY DEF SomeUnmeasured, Range
  <2>3. Sound({Component("fault", outcome.fault)}, Current, runs, <<>>)
    BY <1>2, <1>3, <2>2, FaultIsSound
  <2>4. <<>> \in Seq(Run)
    OBVIOUS
  <2> HIDE DEF outcome
  <2> QED BY <1>1, <2>1, <2>3, <2>4, CloseKeeps
<1>4. CASE outcome.fault = None
  <2> HIDE DEF outcome
  <2>1. /\ base' = [outcome |-> outcome, runs |-> runs] /\ runs' = <<>>
        /\ UNCHANGED <<claims, backend, canary, changed, pc, reports, log, report>>
    BY <1>4 DEF EndBase, setup, outcome
  <2>2. base'.runs = runs /\ base'.outcome = outcome /\ Current' = Current
    BY <2>1 DEF Current
  <2>3. Current \in Claim
    BY <1>1 DEF ProbeInv, TypeInv, Current, Seqs
  <2>4. Current.intent = "fixes"
    BY <1>1, <2>3 DEF Claim
  <2>5. TypeInv'
    BY <2>1, RunAssumption DEF ProbeInv, TypeInv, Seqs
  <2>6. JudgeInv'
    BY <1>1, <1>2, <1>4, <2>1, <2>2, <2>4 DEF ProbeInv, TypeInv, JudgeInv
  <2>7. ReportInv' /\ FinalInv'
    BY <2>1 DEF ProbeInv, ReportInv, Justified, Unfit, FinalInv
  <2> QED BY <2>5, <2>6, <2>7 DEF ProbeInv
<1> QED BY <1>3, <1>4

LEMMA EndHeadKeeps == ASSUME ProbeInv, EndHead PROVE ProbeInv'
<1> DEFINE outcome == SideOutcome(Readings)
<1>1. /\ Judging /\ ~Unfit /\ SideDone /\ Side = "head"
      /\ Len(reports) < Len(claims) /\ runs \in Seq(Run)
  BY DEF EndHead, Judging, ProbeInv, TypeInv
<1>2. HeadOutcome(outcome, Current, runs, backend)
  BY <1>1, SideMeaning DEF HeadOutcome
<1>3. Current \in Claim
  BY <1>1 DEF ProbeInv, TypeInv, Current, Seqs
<1>4. CASE Current.intent = "characterizes"
  <2>1. Close(ComponentsCharacterizes(outcome), None, <<>>, runs)
    BY <1>4 DEF EndHead
  <2>2. Sound(ComponentsCharacterizes(outcome), Current, <<>>, runs)
    BY <1>1, <1>2, <1>3, <1>4, CharacterizesIsSound
  <2>3. <<>> \in Seq(Run)
    OBVIOUS
  <2> QED BY <1>1, <2>1, <2>2, <2>3, CloseKeeps
<1>5. CASE Current.intent # "characterizes"
  <2>1. Close(Components(base.outcome, outcome), base.outcome.symbol, base.runs, runs)
    BY <1>5 DEF EndHead
  <2>2. /\ base.runs \in Seq(Run) /\ Len(base.runs) = Repeats /\ Current.intent = "fixes"
        /\ \A i \in DOMAIN base.runs :
              /\ Read(base.runs[i], "base", Current, backend).fault = None
              /\ Read(base.runs[i], "base", Current, backend).verdict = base.outcome.verdict
    BY <1>1, <1>5 DEF ProbeInv, JudgeInv, Side
  <2>3. Sound(Components(base.outcome, outcome), Current, base.runs, runs)
    BY <1>1, <1>2, <1>3, <2>2, ComponentsAreSound
  <2> QED BY <1>1, <2>1, <2>2, <2>3, CloseKeeps
<1> QED BY <1>4, <1>5

\* Steps that leave the claims and their reports alone.
LEMMA OutsideKeeps ==
    ASSUME ProbeInv, UNCHANGED <<setup, judging>>, FinalInv'
    PROVE  ProbeInv'
<1>1. /\ claims' = claims /\ backend' = backend /\ canary' = canary /\ changed' = changed
      /\ base' = base /\ runs' = runs /\ reports' = reports /\ log' = log
  BY DEF setup, judging
<1>2. TypeInv'
  BY <1>1 DEF ProbeInv, TypeInv, Seqs
<1>3. JudgeInv'
  <2>1. Side' = Side /\ Current' = Current
    BY <1>1 DEF Side, Current
  <2> QED BY <1>1, <2>1 DEF ProbeInv, JudgeInv
<1>4. ReportInv'
  BY <1>1 DEF ProbeInv, ReportInv, Justified, Unfit
<1> QED BY <1>2, <1>3, <1>4 DEF ProbeInv

LEMMA AssembleKeeps == ASSUME ProbeInv, AssembleReport PROVE ProbeInv'
<1> DEFINE final == IF changed THEN reports
                    ELSE [k \in DOMAIN reports |-> WithoutChange(reports[k])]
<1>0. PICK S : reports \in Seq(S)
  BY DEF ProbeInv, TypeInv, Seqs
<1>1. /\ Len(reports) = Len(claims) /\ reports' = final
      /\ UNCHANGED <<claims, backend, canary, changed, base, runs, log>>
      /\ pc' = "raised" \/ (pc' = "reported" /\ report' = Assemble(final))
  BY DEF AssembleReport, setup
<1>2. /\ Len(reports) = Len(claims) /\ Len(claims) \in Nat
      /\ DOMAIN reports = 1 .. Len(reports)
  BY <1>0, <1>1 DEF ProbeInv, TypeInv
<1>3. DOMAIN final = DOMAIN reports
  OBVIOUS
<1>4. \E T : final \in Seq(T) /\ Len(final) = Len(reports)
  <2>1. CASE changed
    BY <1>0, <2>1
  <2>2. CASE ~changed
    <3> DEFINE T == {WithoutChange(reports[k]) : k \in DOMAIN reports}
    <3>1. final = [k \in 1 .. Len(reports) |-> WithoutChange(reports[k])]
      BY <1>2, <2>2
    <3>2. \A k \in 1 .. Len(reports) : WithoutChange(reports[k]) \in T
      BY <1>2
    <3>3. Len(reports) \in Nat
      BY <1>0
    <3> HIDE DEF T
    <3>4. [k \in 1 .. Len(reports) |-> WithoutChange(reports[k])] \in Seq(T)
      BY <3>2, <3>3
    <3>5. Len([k \in 1 .. Len(reports) |-> WithoutChange(reports[k])]) = Len(reports)
      BY <3>3
    <3> QED BY <3>1, <3>4, <3>5
  <2> QED BY <2>1, <2>2 DEF ProbeInv, TypeInv
<1>5. \A k \in DOMAIN reports : final[k] = IF changed THEN reports[k] ELSE WithoutChange(reports[k])
  OBVIOUS
<1> HIDE DEF final
<1>6. TypeInv'
  <2>1. Seqs'
    BY <1>1, <1>4 DEF Seqs
  <2>2. Len(reports') = Len(reports)
    BY <1>1, <1>4
  <2> QED BY <1>1, <2>1, <2>2 DEF ProbeInv, TypeInv
<1>7. JudgeInv'
  <2>1. Len(reports') = Len(claims')
    BY <1>1, <1>2, <1>4
  <2> QED BY <1>1, <1>2, <2>1 DEF ProbeInv, JudgeInv
<1>8. ASSUME NEW k \in DOMAIN reports
      PROVE  /\ Justified(k)'
             /\ \A c \in final[k].components : c.kind = "demonstrated" => changed
  <2>1. Justified(k)
    BY DEF ProbeInv, ReportInv
  <2>2. CASE final[k] = reports[k] /\ (changed \/ \A c \in reports[k].components : c.kind # "demonstrated")
    BY <1>1, <2>1, <2>2 DEF Justified, Unfit
  <2>3. CASE ~changed /\ reports[k].claim.intent = "fixes"
             /\ reports[k].components = {Component("demonstrated", None)}
    <3> DEFINE c == Component("inconclusive", "no_impl_change")
    <3>1. final[k] = [reports[k] EXCEPT !.components = {c}]
      BY <1>5, <2>3 DEF WithoutChange
    <3>2. final[k] = [claim |-> claims[k], components |-> {c}, symbol |-> reports[k].symbol]
      BY <2>1, <3>1 DEF Justified
    <3>3. Component("demonstrated", None).kind = "demonstrated"
      BY DEF Component
    <3>4. /\ ~Unfit
          /\ ~SomeUnmeasured(log[k].base, claims[k]) /\ ~SomeUnmeasured(log[k].head, claims[k])
      BY <2>1, <2>3, <3>3 DEF Justified, Sound
    <3>5. Sound({c}, claims[k], log[k].base, log[k].head)
      BY <3>4 DEF Sound, Meaning, Component
    <3>6. \A d \in final[k].components : d.kind # "demonstrated"
      BY <3>2 DEF Component
    <3> HIDE DEF c
    <3>7. final[k].components = {c} /\ final[k].symbol = reports[k].symbol
      BY <3>2
    <3>8. ~Unfit'
      BY <1>1, <3>4 DEF Unfit
    <3>9. Justified(k)'
      BY <1>1, <3>2, <3>5, <3>7, <3>8 DEF Justified
    <3> QED BY <3>6, <3>9
  <2>4. ASSUME NEW c \in reports[k].components, c.kind = "demonstrated"
        PROVE  /\ reports[k].claim.intent = "fixes"
               /\ reports[k].components = {Component("demonstrated", None)}
    BY <2>1, <2>4 DEF Justified, Sound, Meaning
  <2> QED BY <1>5, <2>2, <2>3, <2>4 DEF WithoutChange
<1>9. ReportInv'
  BY <1>1, <1>3, <1>8 DEF ReportInv
<1>10. FinalInv'
  BY <1>1, <1>2, <1>3, <1>4, <1>8 DEF FinalInv, Assemble
<1> QED BY <1>6, <1>7, <1>9, <1>10 DEF ProbeInv

LEMMA InvNext == ProbeInv /\ [Next]_vars => ProbeInv'
<1> SUFFICES ASSUME ProbeInv, [Next]_vars PROVE ProbeInv'
  OBVIOUS
<1>1. ASSUME UNCHANGED vars PROVE ProbeInv'
  <2>1. FinalInv'
    BY <1>1 DEF vars, setup, judging, ProbeInv, FinalInv
  <2> QED BY <1>1, <2>1, OutsideKeeps DEF vars, ProbeInv, TypeInv
<1>2. ASSUME SetUp PROVE ProbeInv'
  <2>1. FinalInv'
    BY <1>2 DEF SetUp, FinalInv
  <2> QED BY <1>2, <2>1, OutsideKeeps DEF SetUp
<1> QED BY <1>1, <1>2, FaultUnfitKeeps, RunPytestKeeps, EndBaseKeeps, EndHeadKeeps,
           JudgeRaisesKeeps, AssembleKeeps DEF Next

LEMMA InvHolds == Spec => []ProbeInv
<1>1. ProbeInv /\ [Next]_vars => ProbeInv'
  BY InvNext
<1> QED BY <1>1, InvInit, PTL DEF Spec
-----------------------------------------------------------------------------
(* What the report promises *)

\* The findings about a claim, from its report.
LEMMA FindingsAboutClaim ==
    ASSUME ProbeInv, pc = "reported", NEW k \in DOMAIN claims
    PROVE  /\ k \in DOMAIN reports
           /\ \A c \in Reportable(reports[k]) : FindingFor(k, reports[k], c) \in FindingsAbout(k)
<1>1. /\ Len(reports) = Len(claims) /\ claims \in Seq(Claim) /\ Seqs
      /\ report.findings = ClaimFindings(reports) \cup ExtraFindings(reports)
  BY DEF ProbeInv, TypeInv, FinalInv
<1>2. k \in DOMAIN reports
  BY <1>1 DEF Seqs
<1>3. ASSUME NEW c \in Reportable(reports[k])
      PROVE  FindingFor(k, reports[k], c) \in FindingsAbout(k)
  <2>1. FindingFor(k, reports[k], c) \in report.findings
    BY <1>1, <1>2 DEF ClaimFindings, FindingsOf
  <2>2. FindingFor(k, reports[k], c).claim = k
    BY DEF FindingFor, Advice, Charge
  <2> QED BY <2>1, <2>2 DEF FindingsAbout
<1> QED BY <1>2, <1>3

\* A claim the report says nothing against was shown by every repeat: a call that
\* really failed at base, every case passing at head, an implementation change in
\* between; whatever the processes left behind and however often they were run.
THEOREM CleanClaimsAreEarned == Spec => []CleanIsEarned
<1>1. ASSUME ProbeInv, pc = "reported", NEW k \in DOMAIN claims, FindingsAbout(k) = {}
      PROVE  Demonstrated(k) \/ Pinned(k)
  <2>1. k \in DOMAIN reports /\ Reportable(reports[k]) = {}
    BY <1>1, FindingsAboutClaim
  <2>2. Sound(reports[k].components, claims[k], log[k].base, log[k].head)
    BY <1>1, <2>1 DEF ProbeInv, ReportInv, Justified
  <2>3. PICK c \in reports[k].components :
           c.kind \in Clean /\ Meaning(c, reports[k].components, claims[k], log[k].base, log[k].head)
    BY <2>1, <2>2 DEF Sound, Reportable
  <2>4. CASE c.kind = "demonstrated"
    <3>1. changed
      BY <1>1, <2>1, <2>3, <2>4 DEF ProbeInv, FinalInv
    <3> QED BY <2>3, <2>4, <3>1 DEF Meaning, Demonstrated, AllFail, AllPass, RanAll
  <2>5. CASE c.kind = "no_finding"
    BY <2>3, <2>5 DEF Meaning, Pinned, AllPass, RanAll
  <2> QED BY <2>3, <2>4, <2>5 DEF Clean
<1>2. ProbeInv => CleanIsEarned
  BY <1>1 DEF CleanIsEarned
<1> QED BY <1>2, InvHolds, PTL

\* A reproduced material finding is about a test the author claimed and rests on
\* complete measurements that say what the finding says.
THEOREM ConvictionsAreMeasured == Spec => []ConvictionIsMeasured
<1>1. ASSUME ProbeInv, pc = "reported", NEW f \in report.findings,
             f.class = "material_requirement_miss", f.reproduction = "reproduced"
      PROVE  LET claim == claims[f.claim]
                 before == log[f.claim].base
                 after == log[f.claim].head
             IN  /\ ~claim.auto /\ RanAll(after)
                 /\ f.type = "head_not_passing" => NonePass(after, claim)
                 /\ f.type = "base_passes" => PassAtBase(before, claim)
  <2>1. f # NothingJudged
    BY <1>1 DEF NothingJudged
  <2>2. f \in ClaimFindings(reports)
    BY <1>1, <2>1 DEF ProbeInv, FinalInv, ExtraFindings
  <2>3. PICK k \in DOMAIN reports : f \in FindingsOf(k, reports[k])
    BY <2>2 DEF ClaimFindings
  <2>4. PICK c \in Reportable(reports[k]) : f = FindingFor(k, reports[k], c)
    BY <2>3 DEF FindingsOf
  <2>5. ~Advised(reports[k], c) /\ f = Charge(k, c.kind)
    BY <1>1, <2>4 DEF FindingFor, Advice
  <2>6. f.claim = k /\ f.type = c.kind /\ c.kind \in {"base_passes", "head_not_passing"}
    BY <1>1, <2>5 DEF Charge, Measured
  <2>7. reports[k].claim = claims[k]
    BY <2>3, <1>1 DEF ProbeInv, ReportInv, Justified
  <2>8. ~claims[k].auto
    BY <2>5, <2>6, <2>7 DEF Advised, Downgrades
  <2>9. Meaning(c, reports[k].components, claims[k], log[k].base, log[k].head)
    BY <1>1, <2>3, <2>4 DEF ProbeInv, ReportInv, Justified, Sound, Reportable
  <2> QED BY <2>6, <2>8, <2>9 DEF Meaning, NonePass
<1>2. ProbeInv => ConvictionIsMeasured
  BY <1>1 DEF ConvictionIsMeasured, RanAll, NonePass, PassAtBase
<1> QED BY <1>2, InvHolds, PTL

\* A claim whose test could not be run in its environment always gets a finding of
\* high severity that is not reproduced: never mere advice, never silence.
THEOREM EnvironmentAlwaysCounts == Spec => []EnvironmentIsNeverAdvice
<1>1. ASSUME ProbeInv, pc = "reported", NEW k \in DOMAIN claims,
             \/ Unfit
             \/ SomeUnmeasured(log[k].base, claims[k]) \/ SomeUnmeasured(log[k].head, claims[k])
      PROVE  \E f \in FindingsAbout(k) : Unsettling(f)
  <2>1. k \in DOMAIN reports
    BY <1>1, FindingsAboutClaim
  <2>2. PICK c \in reports[k].components : c.kind = "fault" /\ c.reason \in EnvFaults
    BY <1>1, <2>1 DEF ProbeInv, ReportInv, Justified, Sound
  <2>3. c \in Reportable(reports[k]) /\ ~Advised(reports[k], c)
    BY <2>2 DEF Reportable, Clean, Advised, Downgrades
  <2>4. FindingFor(k, reports[k], c) \in FindingsAbout(k)
    BY <1>1, <2>3, FindingsAboutClaim
  <2>5. Unsettling(FindingFor(k, reports[k], c))
    BY <2>2, <2>3 DEF FindingFor, Charge, Unsettling, Measured
  <2> QED BY <2>4, <2>5
<1>2. ProbeInv => EnvironmentIsNeverAdvice
  BY <1>1 DEF EnvironmentIsNeverAdvice, SomeUnmeasured, Unmeasured
<1> QED BY <1>2, InvHolds, PTL
-----------------------------------------------------------------------------
(* The absent name *)

LEMMA NatMin ==
    ASSUME NEW T, T \subseteq Nat, T # {}
    PROVE  \E x \in T : \A y \in T : x <= y
<1>1. PICK x \in T : \A y \in T : ~(<<y, x>> \in OpToRel(<, Nat))
  BY WFMin, NatLessThanWellFounded, Zenon
<1>2. \A y \in T : ~(y < x)
  BY <1>1 DEF OpToRel
<1> QED BY <1>2

\* The last of some positions of a sequence is one of them.
LEMMA MaxIn ==
    ASSUME NEW n \in Nat, NEW T, T \subseteq 1 .. n, T # {}
    PROVE  Max(T) \in T
<1> DEFINE U == {n - x : x \in T}
<1>1. U \subseteq Nat /\ U # {}
  <2>1. \A x \in T : x \in 1 .. n /\ n - x \in Nat
    OBVIOUS
  <2> QED BY <2>1
<1>2. PICK u \in U : \A v \in U : u <= v
  <2> HIDE DEF U
  <2> QED BY <1>1, NatMin
<1>3. PICK m \in T : u = n - m
  BY <1>2
<1>4. \A y \in T : m >= y
  <2> TAKE y \in T
  <2>1. n - y \in U
    OBVIOUS
  <2> HIDE DEF U
  <2> QED BY <1>2, <1>3, <2>1
<1> QED BY <1>3, <1>4 DEF Max

Names == Symbols \cup {None}

\* A run contributes a name a message may miss, or none.
LEMMA ReadName ==
    ASSUME NEW run \in Run, NEW side \in Sides, NEW claim \in Claim, NEW limiter
    PROVE  Read(run, side, claim, limiter).symbol \in Names
<1>1. run.cases \in Seq(Case) /\ run.stderr \in Trouble
  BY DEF Run
<1>2. \A k \in DOMAIN run.cases : run.cases[k].trouble \in Trouble
  BY <1>1 DEF Case
<1>3. \A t \in Trouble : t.target \in Names
  BY DEF Trouble, Names
<1>4. ASSUME NEW T, T \subseteq DOMAIN run.cases, T # {}
      PROVE  run.cases[Max(T)].trouble \in Trouble
  <2>1. Max(T) \in T
    BY <1>1, <1>4, MaxIn
  <2> QED BY <1>2, <1>4, <2>1
<1>5. LastTrouble(run) \in Trouble
  <2>1. Collection(run) \subseteq DOMAIN run.cases
    BY DEF Collection
  <2> QED BY <1>1, <1>4, <2>1 DEF LastTrouble, CollectionFailed
<1>6. \A t \in Trouble : \A ts : ReadCollection(t, ts).symbol \in Names
  BY <1>3 DEF ReadCollection, Fault, Reading, Names
<1>7. ReadConftest(run.stderr).symbol \in Names
  BY <1>1, <1>3 DEF ReadConftest, Fault, Reading, Names
<1>8. ReadCases(run, Judged(run, claim), side, limiter).symbol \in Names
  <2> DEFINE absent == AbsentIn(run, Judged(run, claim), side)
  <2>1. absent \subseteq DOMAIN run.cases
    BY DEF AbsentIn, Judged, Collection, Matched
  <2>2. absent # {} => run.cases[Max(absent)].trouble.target \in Names
    BY <1>3, <1>4, <2>1
  <2> HIDE DEF absent
  <2>3. ReadCases(run, Judged(run, claim), side, limiter).symbol \in
           {None, IF absent = {} THEN None ELSE run.cases[Max(absent)].trouble.target}
    BY DEF ReadCases, Fault, Reading, absent
  <2> QED BY <2>2, <2>3 DEF Names
<1>9. \A code : Fault(code).symbol \in Names
  BY DEF Fault, Names
<1> QED BY <1>5, <1>6, <1>7, <1>8, <1>9 DEF Read
-----------------------------------------------------------------------------
(* The repeats of a side *)

\* No repeat faulted, and all left the same fingerprint.
Steady(rs, side, claim, limiter) ==
    \A i, j \in DOMAIN rs :
        /\ Read(rs[i], side, claim, limiter).fault = None
        /\ Read(rs[i], side, claim, limiter).fingerprint
              = Read(rs[j], side, claim, limiter).fingerprint

LEMMA SideRepeats ==
    ASSUME ProbeInv, Judging, SideDone
    PROVE  LET outcome == SideOutcome(Readings)
           IN  /\ outcome.symbol \in Names
               /\ outcome.fault = None => Steady(runs, Side, Current, backend)
<1> DEFINE outcome == SideOutcome(Readings)
<1>1. /\ runs \in Seq(Run) /\ runs # <<>> /\ Len(reports) < Len(claims)
  BY DEF ProbeInv, TypeInv, Judging, SideDone
<1>2. Side \in Sides /\ Current \in Claim
  BY <1>1 DEF Side, Sides, ProbeInv, TypeInv, Current, Seqs
<1>3. /\ DOMAIN Readings = DOMAIN runs /\ DOMAIN runs = 1 .. Len(runs) /\ Len(runs) \in Nat
      /\ \A k \in DOMAIN runs :
            /\ Readings[k] = Read(runs[k], Side, Current, backend)
            /\ Readings[k].symbol \in Names
  <2>1. \A k \in DOMAIN runs : runs[k] \in Run
    BY <1>1
  <2> QED BY <1>1, <1>2, <2>1, ReadName DEF Readings
<1>4. LastSymbol(Readings) \in Names
  <2> DEFINE naming == {k \in DOMAIN Readings : Readings[k].symbol # None}
  <2>1. naming # {} => Max(naming) \in naming
    BY <1>3, MaxIn
  <2>2. LastSymbol(Readings) = IF naming = {} THEN None ELSE Readings[Max(naming)].symbol
    BY DEF LastSymbol
  <2>3. naming \subseteq DOMAIN runs
    BY <1>3
  <2> HIDE DEF naming
  <2> QED BY <1>3, <2>1, <2>2, <2>3 DEF Names
<1>5. outcome.symbol \in Names
  BY <1>4 DEF SideOutcome, Names
<1>6. ASSUME outcome.fault = None PROVE Steady(runs, Side, Current, backend)
  <2>1. \A k \in DOMAIN runs : Read(runs[k], Side, Current, backend).fault = None
    BY <1>6, SideMeaning
  <2>2. Agree(Readings)
    BY <1>6, NoneAssumption DEF SideOutcome, TestFaults
  <2> QED BY <1>3, <2>1, <2>2 DEF Agree, Steady
<1> QED BY <1>5, <1>6

\* What a fault-free run with a report and without collection errors is known by.
LEMMA FingerprintMeaning ==
    ASSUME NEW run \in Run, NEW side \in Sides, NEW claim \in Claim, NEW limiter,
           Read(run, side, claim, limiter).fault = None,
           run.report, Collection(run) = {}, side = "base" => ~run.conftest
    PROVE  LET print == Read(run, side, claim, limiter).fingerprint
               signature == Signature(run, Matched(run, claim))
           IN  \/ print[1] = "COLLECTION_ERROR" /\ ResultsOf(run, claim) = {}
               \/ /\ print[1] = "CASES" /\ print[2] = signature
                  /\ ResultsOf(run, claim) = {<<e[1], e[2], e[4]>> : e \in DOMAIN signature}
<1> DEFINE matched == Matched(run, claim)
           signature == Signature(run, matched)
           reading == Read(run, side, claim, limiter)
<1>1. RunFault(run, side, claim) = None /\ ~ConftestFailed(run, side) /\ ~CollectionFailed(run)
  BY DEF Read, Fault, ConftestFailed, CollectionFailed
<1>2. run.outside # "some" /\ run.outside # "missing"
  BY <1>1, NoneAssumption DEF Read, Fault, EnvFaults, RunKind
<1>3. \A c : c \in CasesOf(run, claim) <=> \E k \in matched : run.cases[k] = c
  BY CasesByPosition
<1>4. CASE NothingCollected(run, side, claim)
  <2>1. RunKind(run, side, claim) = "COLLECTION_ERROR"
    BY <1>1, <1>4 DEF RunKind
  <2>2. reading = ReadCollection(LastTrouble(run), CollectionTroubles(run))
    BY <1>1, <1>2, <2>1 DEF Read
  <2>3. reading.fingerprint[1] = "COLLECTION_ERROR"
    BY <2>2, NoneAssumption DEF ReadCollection, Fault, Reading, EnvFaults
  <2>4. ResultsOf(run, claim) = {}
    BY <1>3, <1>4 DEF NothingCollected, ResultsOf
  <2> QED BY <2>3, <2>4
<1>5. CASE ~NothingCollected(run, side, claim)
  <2>1. RunKind(run, side, claim) = "CASES" /\ Judged(run, claim) = matched
    BY <1>1, <1>5 DEF RunKind, Judged
  <2>2. reading = ReadCases(run, matched, side, limiter)
    BY <1>1, <1>2, <2>1 DEF Read
  <2>3. reading.fingerprint = <<"CASES", signature>>
    <3> HIDE DEF matched
    <3> QED BY <2>2, NoneAssumption DEF ReadCases, Fault, Reading, EnvFaults, signature
  <2>4. DOMAIN signature = {Entry(run.cases[k]) : k \in matched}
    BY DEF Signature
  <2>5. \A c : Entry(c)[1] = c.name /\ Entry(c)[2] = c.outcome /\ Entry(c)[4] = c.trouble.exc
    BY DEF Entry
  <2>6. ResultsOf(run, claim) = {<<e[1], e[2], e[4]>> : e \in DOMAIN signature}
    <3> HIDE DEF signature, matched
    <3>1. \A c \in CasesOf(run, claim) : Entry(c) \in DOMAIN signature
      BY <1>3, <2>4
    <3>2. \A e \in DOMAIN signature : \E c \in CasesOf(run, claim) : e = Entry(c)
      BY <1>3, <2>4
    <3>3. \A c : <<Entry(c)[1], Entry(c)[2], Entry(c)[4]>> = <<c.name, c.outcome, c.trouble.exc>>
      BY <2>5
    <3>4. ASSUME NEW r \in ResultsOf(run, claim)
          PROVE  r \in {<<e[1], e[2], e[4]>> : e \in DOMAIN signature}
      <4>1. PICK c \in CasesOf(run, claim) : r = <<c.name, c.outcome, c.trouble.exc>>
        BY DEF ResultsOf
      <4> QED BY <3>1, <3>3, <4>1
    <3>5. ASSUME NEW e \in DOMAIN signature PROVE <<e[1], e[2], e[4]>> \in ResultsOf(run, claim)
      <4>1. PICK c \in CasesOf(run, claim) : e = Entry(c)
        BY <3>2
      <4>2. <<e[1], e[2], e[4]>> = <<c.name, c.outcome, c.trouble.exc>>
        BY <3>3, <4>1
      <4> QED BY <4>1, <4>2 DEF ResultsOf
    <3> QED BY <3>4, <3>5
  <2> QED BY <2>3, <2>6
<1> QED BY <1>4, <1>5

LEMMA SameFingerprintSameResults ==
    ASSUME NEW one \in Run, NEW two \in Run,
           NEW side \in Sides, NEW claim \in Claim, NEW limiter,
           Read(one, side, claim, limiter).fault = None,
           Read(two, side, claim, limiter).fault = None,
           Read(one, side, claim, limiter).fingerprint
              = Read(two, side, claim, limiter).fingerprint,
           one.report, two.report, Collection(one) \cup Collection(two) = {},
           side = "base" => ~one.conftest /\ ~two.conftest
    PROVE  ResultsOf(one, claim) = ResultsOf(two, claim)
BY FingerprintMeaning
-----------------------------------------------------------------------------
(* What the invariant leaves out: types, and the repeats behind a judgement *)

Kinds == Clean \cup {"base_passes", "head_not_passing", "absence_only", "inconclusive", "fault"}

\* A report that judges its claim stands on repeats that agree.
Repeated(k) ==
    /\ reports[k].symbol \in Names
    /\ \A c \in reports[k].components : c.kind \in Kinds
    /\ \/ \A c \in reports[k].components : c.kind = "fault"
       \/ /\ Steady(log[k].base, "base", claims[k], backend)
          /\ Steady(log[k].head, "head", claims[k], backend)
    /\ Range(log[k].base) \subseteq BaseRuns(claims)

RepeatInv ==
    /\ \A k \in DOMAIN reports : Repeated(k)
    /\ Len(reports) < Len(claims) =>
          /\ Side = "base" => Range(runs) \subseteq BaseRuns(claims)
          /\ base # None =>
                /\ Steady(base.runs, "base", Current, backend)
                /\ Range(base.runs) \subseteq BaseRuns(claims)
                /\ base.outcome.fault = None /\ base.outcome.symbol \in Names

StageTypes ==
    /\ pc \in {"setup", "claims", "reported", "raised"}
    /\ report # None => pc = "reported"

LEMMA StageInit == Init => StageTypes
BY DEF Init, StageTypes

LEMMA StageStep == StageTypes /\ [Next]_vars => StageTypes'
<1> SUFFICES ASSUME StageTypes, [Next]_vars PROVE StageTypes'
  OBVIOUS
<1>1. CASE UNCHANGED vars
  BY <1>1 DEF vars, StageTypes
<1>2. CASE SetUp
  BY <1>2 DEF SetUp, StageTypes
<1>3. CASE FaultUnfit \/ RunPytest \/ EndBase \/ EndHead \/ JudgeRaises
  <2>1. UNCHANGED <<pc, report>>
    BY <1>3 DEF FaultUnfit, RunPytest, EndBase, EndHead, JudgeRaises, Close
  <2> QED BY <2>1 DEF StageTypes
<1>4. CASE AssembleReport
  <2>1. /\ pc = "claims"
        /\ pc' = "reported" \/ (pc' = "raised" /\ report' = report)
    BY <1>4 DEF AssembleReport
  <2> QED BY <2>1 DEF StageTypes
<1> QED BY <1>1, <1>2, <1>3, <1>4 DEF Next

LEMMA RepeatInit == Init => RepeatInv
<1> SUFFICES ASSUME Init PROVE RepeatInv
  OBVIOUS
<1>1. reports = <<>> /\ runs = <<>> /\ base = None
  BY DEF Init
<1>2. Range(runs) = {}
  BY <1>1 DEF Range
<1> QED BY <1>1, <1>2 DEF RepeatInv

\* Closing a claim with a fault, or on repeats that agree.
LEMMA CloseRepeats ==
    ASSUME ProbeInv, RepeatInv, Judging, NEW components, NEW symbol \in Names,
           NEW before \in Seq(Run), NEW after \in Seq(Run),
           Close(components, symbol, before, after),
           \A c \in components : c.kind \in Kinds,
           \/ \A c \in components : c.kind = "fault"
           \/ /\ Steady(before, "base", Current, backend)
              /\ Steady(after, "head", Current, backend),
           Range(before) \subseteq BaseRuns(claims)
    PROVE  RepeatInv'
<1> DEFINE new == [claim |-> Current, components |-> components, symbol |-> symbol]
<1>0. PICK n : n = Len(reports) + 1
  OBVIOUS
<1>1. PICK S : reports \in Seq(S)
  BY DEF ProbeInv, TypeInv, Seqs
<1>2. Len(log) = Len(reports) /\ log \in Seq([base: Seq(Run), head: Seq(Run)])
  BY DEF ProbeInv, TypeInv
<1>3. /\ reports' = Append(reports, new)
      /\ log' = Append(log, [base |-> before, head |-> after])
      /\ base' = None /\ runs' = <<>> /\ claims' = claims /\ backend' = backend
  BY DEF Close, setup
<1>4. /\ DOMAIN reports = 1 .. Len(reports) /\ DOMAIN reports' = 1 .. n /\ Len(reports) \in Nat
      /\ reports'[n] = new /\ \A k \in 1 .. Len(reports) : reports'[k] = reports[k]
  BY <1>0, <1>1, <1>3
<1>5. /\ log'[n] = [base |-> before, head |-> after]
      /\ \A k \in 1 .. Len(reports) : log'[k] = log[k]
  BY <1>0, <1>2, <1>3
<1>6. ASSUME NEW k \in 1 .. Len(reports) PROVE Repeated(k)'
  <2>1. Repeated(k)
    BY <1>4 DEF RepeatInv
  <2> QED BY <1>3, <1>4, <1>5, <2>1 DEF Repeated
<1>7. Repeated(n)'
  <2>1. Current = claims[n]
    BY <1>0 DEF Current
  <2>2. reports'[n].components = components /\ reports'[n].symbol = symbol
    BY <1>4
  <2>3. log'[n].base = before /\ log'[n].head = after
    BY <1>5
  <2> HIDE DEF new
  <2> QED BY <1>3, <2>1, <2>2, <2>3 DEF Repeated
<1>8. Range(runs') = {}
  BY <1>3 DEF Range
<1>9. \A k \in DOMAIN reports' : Repeated(k)'
  BY <1>0, <1>4, <1>6, <1>7
<1> QED BY <1>3, <1>8, <1>9 DEF RepeatInv

\* A claim that ends with a fault.
LEMMA CloseWithFault ==
    ASSUME ProbeInv, RepeatInv, Judging, NEW reason,
           NEW before \in Seq(Run), NEW after \in Seq(Run), Range(before) \subseteq BaseRuns(claims),
           Close({Component("fault", reason)}, None, before, after)
    PROVE  RepeatInv'
<1>1. \A c \in {Component("fault", reason)} : c.kind = "fault" /\ c.kind \in Kinds
  BY DEF Component, Kinds
<1>2. None \in Names
  BY DEF Names
<1> QED BY <1>1, <1>2, CloseRepeats

LEMMA NoRunsYet == <<>> \in Seq(Run) /\ Range(<<>>) \subseteq BaseRuns(claims)
BY DEF Range

LEMMA SoFarRuns ==
    ASSUME ProbeInv, RepeatInv, Judging
    PROVE  /\ SoFar("base") \in Seq(Run) /\ SoFar("head") \in Seq(Run)
           /\ Range(SoFar("base")) \subseteq BaseRuns(claims)
<1>1. Len(reports) < Len(claims) /\ runs \in Seq(Run)
  BY DEF ProbeInv, TypeInv, Judging
<1>2. base # None => base.runs \in Seq(Run) /\ Range(base.runs) \subseteq BaseRuns(claims)
  BY <1>1 DEF ProbeInv, JudgeInv, RepeatInv
<1>3. Side = "base" => Range(runs) \subseteq BaseRuns(claims)
  BY <1>1 DEF RepeatInv
<1> QED BY <1>1, <1>2, <1>3, NoRunsYet DEF SoFar

LEMMA RunPytestRepeats == ASSUME ProbeInv, RepeatInv, RunPytest PROVE RepeatInv'
<1>1. PICK run \in IF Side = "base" THEN BaseRuns(claims) ELSE HeadRuns(claims) :
        runs' = Append(runs, run)
  BY DEF RunPytest
<1>2. UNCHANGED <<claims, backend, base, reports, log>> /\ runs \in Seq(Run) /\ Judging
  BY DEF RunPytest, setup, ProbeInv, TypeInv
<1>3. Side' = Side /\ Current' = Current
  BY <1>2 DEF Side, Current
<1>4. run \in Run
  BY RunAssumption DEF ProbeInv, TypeInv
<1>5. Range(runs') = Range(runs) \cup {run}
  BY <1>1, <1>2, <1>4 DEF Range
<1>6. Side = "base" => Range(runs') \subseteq BaseRuns(claims)
  BY <1>1, <1>2, <1>5 DEF RepeatInv, Judging
<1>7. \A k \in DOMAIN reports : Repeated(k)'
  BY <1>2 DEF RepeatInv, Repeated
<1> QED BY <1>2, <1>3, <1>6, <1>7 DEF RepeatInv

LEMMA EndBaseRepeats == ASSUME ProbeInv, RepeatInv, EndBase PROVE RepeatInv'
<1> DEFINE outcome == SideOutcome(Readings)
<1>1. /\ Judging /\ SideDone /\ Side = "base" /\ runs \in Seq(Run)
      /\ Len(reports) < Len(claims) /\ Range(runs) \subseteq BaseRuns(claims)
  BY DEF EndBase, Judging, ProbeInv, TypeInv, RepeatInv
<1>2. /\ outcome.symbol \in Names
      /\ outcome.fault = None => Steady(runs, "base", Current, backend)
  BY <1>1, SideRepeats
<1>3. CASE outcome.fault # None
  <2>1. Close({Component("fault", outcome.fault)}, None, runs, <<>>)
    BY <1>3 DEF EndBase
  <2> HIDE DEF outcome
  <2> QED BY <1>1, <2>1, NoRunsYet, CloseWithFault
<1>4. CASE outcome.fault = None
  <2> HIDE DEF outcome
  <2>1. /\ base' = [outcome |-> outcome, runs |-> runs] /\ runs' = <<>>
        /\ UNCHANGED <<claims, backend, reports, log>>
    BY <1>4 DEF EndBase, setup, outcome
  <2>2. base'.runs = runs /\ base'.outcome = outcome /\ Current' = Current
    BY <2>1 DEF Current
  <2>3. Range(runs') \subseteq BaseRuns(claims)
    BY <2>1, NoRunsYet
  <2>4. \A k \in DOMAIN reports : Repeated(k)'
    BY <2>1 DEF RepeatInv, Repeated
  <2> QED BY <1>1, <1>2, <1>4, <2>1, <2>2, <2>3, <2>4 DEF RepeatInv
<1> QED BY <1>3, <1>4

LEMMA ComponentKinds ==
    ASSUME NEW baseSide, NEW head
    PROVE  /\ \A c \in Components(baseSide, head) \cup ComponentsCharacterizes(head) :
                 c.kind \in Kinds
           /\ head.fault # None =>
                 \A c \in Components(baseSide, head) \cup ComponentsCharacterizes(head) :
                    c.kind = "fault"
BY DEF Components, ComponentsCharacterizes, Component, Kinds, Clean

LEMMA EndHeadRepeats == ASSUME ProbeInv, RepeatInv, EndHead PROVE RepeatInv'
<1> DEFINE outcome == SideOutcome(Readings)
<1>1. /\ Judging /\ SideDone /\ Side = "head" /\ runs \in Seq(Run)
      /\ Len(reports) < Len(claims)
  BY DEF EndHead, Judging, ProbeInv, TypeInv, RepeatInv
<1>2. outcome.fault = None => Steady(runs, "head", Current, backend)
  BY <1>1, SideRepeats
<1>3. CASE Current.intent = "characterizes"
  <2>1. Close(ComponentsCharacterizes(outcome), None, <<>>, runs)
    BY <1>3 DEF EndHead
  <2>2. Steady(<<>>, "base", Current, backend)
    BY DEF Steady
  <2>3. None \in Names
    BY DEF Names
  <2> HIDE DEF outcome
  <2>4. \A c \in ComponentsCharacterizes(outcome) :
           c.kind \in Kinds /\ (outcome.fault # None => c.kind = "fault")
    BY ComponentKinds
  <2>5. CASE outcome.fault # None
    BY <1>1, <2>1, <2>3, <2>4, <2>5, NoRunsYet, CloseRepeats
  <2>6. CASE outcome.fault = None
    BY <1>1, <1>2, <2>1, <2>2, <2>3, <2>4, <2>6, NoRunsYet, CloseRepeats
  <2> QED BY <2>5, <2>6
<1>4. CASE Current.intent # "characterizes"
  <2>1. Close(Components(base.outcome, outcome), base.outcome.symbol, base.runs, runs)
    BY <1>4 DEF EndHead
  <2>2. base # None
    BY <1>1, <1>4 DEF Side
  <2>3. /\ base.runs \in Seq(Run) /\ Range(base.runs) \subseteq BaseRuns(claims)
        /\ Steady(base.runs, "base", Current, backend) /\ base.outcome.symbol \in Names
    BY <1>1, <2>2 DEF ProbeInv, JudgeInv, RepeatInv
  <2> HIDE DEF outcome
  <2>4. \A c \in Components(base.outcome, outcome) :
           c.kind \in Kinds /\ (outcome.fault # None => c.kind = "fault")
    BY ComponentKinds
  <2>5. CASE outcome.fault # None
    BY <1>1, <2>1, <2>3, <2>4, <2>5, CloseRepeats
  <2>6. CASE outcome.fault = None
    BY <1>1, <1>2, <2>1, <2>3, <2>4, <2>6, CloseRepeats
  <2> QED BY <2>5, <2>6
<1> QED BY <1>3, <1>4

LEMMA AssembleRepeats == ASSUME ProbeInv, RepeatInv, AssembleReport PROVE RepeatInv'
<1>1. /\ reports' = IF changed THEN reports
                    ELSE [k \in DOMAIN reports |-> WithoutChange(reports[k])]
      /\ UNCHANGED <<claims, backend, base, runs, log>>
      /\ Len(reports) = Len(claims)
  BY DEF AssembleReport, setup
<1>2. DOMAIN reports' = DOMAIN reports
  BY <1>1
<1>3. \E T : reports' \in Seq(T) /\ Len(reports') = Len(reports)
  <2>1. ProbeInv'
    BY AssembleKeeps
  <2>2. PICK T : reports' \in Seq(T)
    BY <2>1 DEF ProbeInv, TypeInv, Seqs
  <2>3. DOMAIN reports = 1 .. Len(reports) /\ Len(reports) \in Nat
    BY DEF ProbeInv, TypeInv, Seqs
  <2> QED BY <1>2, <2>2, <2>3
<1>4. ASSUME NEW k \in DOMAIN reports PROVE Repeated(k)'
  <2>1. Repeated(k) /\ Justified(k)
    BY DEF ProbeInv, ReportInv, RepeatInv
  <2>2. CASE reports'[k] = reports[k]
    BY <1>1, <2>1, <2>2 DEF Repeated
  <2>3. CASE /\ reports[k].components = {Component("demonstrated", None)}
             /\ reports'[k] = [reports[k] EXCEPT
                                  !.components = {Component("inconclusive", "no_impl_change")}]
    <3>1. reports[k] = [claim |-> claims[k], components |-> reports[k].components,
                        symbol |-> reports[k].symbol]
      BY <2>1 DEF Justified
    <3>2. /\ reports'[k].components = {Component("inconclusive", "no_impl_change")}
          /\ reports'[k].symbol = reports[k].symbol
      BY <2>3, <3>1
    <3>3. /\ Steady(log[k].base, "base", claims[k], backend)
          /\ Steady(log[k].head, "head", claims[k], backend)
      BY <2>1, <2>3 DEF Repeated, Component
    <3> QED BY <1>1, <2>1, <3>2, <3>3 DEF Repeated, Component, Kinds
  <2> QED BY <1>1, <2>2, <2>3 DEF WithoutChange
<1> QED BY <1>1, <1>2, <1>3, <1>4 DEF RepeatInv, ProbeInv, FinalInv

LEMMA RepeatStep == ProbeInv /\ RepeatInv /\ [Next]_vars => RepeatInv'
<1> SUFFICES ASSUME ProbeInv, RepeatInv, [Next]_vars PROVE RepeatInv'
  OBVIOUS
<1>1. ASSUME UNCHANGED <<setup, judging>> PROVE RepeatInv'
  <2>1. UNCHANGED <<claims, backend, base, runs, reports, log>>
    BY <1>1 DEF setup, judging
  <2>2. Side' = Side /\ Current' = Current
    BY <2>1 DEF Side, Current
  <2>3. \A k \in DOMAIN reports : Repeated(k)'
    BY <2>1 DEF RepeatInv, Repeated
  <2> QED BY <2>1, <2>2, <2>3 DEF RepeatInv
<1>2. CASE UNCHANGED vars
  BY <1>1, <1>2 DEF vars
<1>3. CASE SetUp
  BY <1>1, <1>3 DEF SetUp
<1>4. CASE FaultUnfit
  BY <1>4, NoRunsYet, CloseWithFault DEF FaultUnfit
<1>5. CASE JudgeRaises
  BY <1>5, SoFarRuns, CloseWithFault DEF JudgeRaises
<1> QED
  BY <1>2, <1>3, <1>4, <1>5, RunPytestRepeats, EndBaseRepeats, EndHeadRepeats, AssembleRepeats
     DEF Next

LEMMA RepeatsHold == Spec => [](ProbeInv /\ RepeatInv /\ StageTypes)
<1>1. ProbeInv /\ RepeatInv /\ StageTypes /\ [Next]_vars => RepeatInv' /\ StageTypes'
  BY RepeatStep, StageStep
<1>2. Init => RepeatInv /\ StageTypes
  BY RepeatInit, StageInit
<1> QED BY <1>1, <1>2, InvHolds, PTL DEF Spec

LEMMA FindingTyped ==
    ASSUME NEW k \in Nat, NEW r, NEW c \in Reportable(r), c.kind \in Kinds
    PROVE  FindingFor(k, r, c) \in Finding
<1>1. c.kind \in {"base_passes", "head_not_passing", "absence_only", "inconclusive", "fault"}
  BY DEF Reportable, Kinds
<1> QED BY <1>1 DEF FindingFor, Charge, Advice, Finding

\* Every state of a probe is well typed, whatever the processes leave behind: a
\* claim's report is about that claim and has a component, base is only compared
\* with head when all its repeats were read, and every finding of a report is one
\* the schema knows.
THEOREM ProbeTypeCorrect == Spec => []TypeOK
<1>1. ASSUME ProbeInv, RepeatInv, StageTypes PROVE TypeOK
  <2>1. ASSUME NEW k \in DOMAIN reports
        PROVE  /\ reports[k].claim = claims[k] /\ reports[k].components # {}
               /\ reports[k].symbol \in Symbols \cup {None}
               /\ \A c \in reports[k].components :
                     c.kind = "fault" => c.reason \in EnvFaults \cup TestFaults
    <3>1. Justified(k) /\ Repeated(k)
      BY <1>1 DEF ProbeInv, ReportInv, RepeatInv
    <3>2. reports[k].claim = claims[k]
      BY <3>1 DEF Justified
    <3> QED BY <3>1, <3>2 DEF Justified, Sound, Meaning, Repeated, Names
  <2>2. base # None => base.outcome.fault = None /\ Len(base.runs) = Repeats
    <3>1. base # None => Len(reports) < Len(claims)
      <4>1. Len(reports) <= Len(claims) /\ Len(reports) \in Nat /\ Len(claims) \in Nat
        BY <1>1 DEF ProbeInv, TypeInv, Seqs
      <4> QED BY <1>1, <4>1 DEF ProbeInv, JudgeInv
    <3> QED BY <1>1, <3>1 DEF ProbeInv, JudgeInv, RepeatInv
  <2>3. report # None => report.findings \subseteq Finding
    <3> SUFFICES ASSUME report # None, NEW f \in report.findings PROVE f \in Finding
      OBVIOUS
    <3>1. f \in ClaimFindings(reports) \cup ExtraFindings(reports)
      BY <1>1 DEF StageTypes, ProbeInv, FinalInv
    <3>2. CASE f \in ExtraFindings(reports)
      BY <3>2 DEF ExtraFindings, NothingJudged, Finding
    <3>3. CASE f \in ClaimFindings(reports)
      <4>1. PICK k \in DOMAIN reports : f \in FindingsOf(k, reports[k])
        BY <3>3 DEF ClaimFindings
      <4>2. PICK c \in Reportable(reports[k]) : f = FindingFor(k, reports[k], c)
        BY <4>1 DEF FindingsOf
      <4>3. k \in Nat
        BY <1>1 DEF ProbeInv, TypeInv, Seqs
      <4>4. c.kind \in Kinds
        BY <1>1 DEF RepeatInv, Repeated, Reportable
      <4> QED BY <4>2, <4>3, <4>4, FindingTyped
    <3> QED BY <3>1, <3>2, <3>3
  <2> QED BY <1>1, <2>1, <2>2, <2>3 DEF TypeOK, StageTypes, ProbeInv, TypeInv
<1> QED BY <1>1, RepeatsHold, PTL

LEMMA ElementOf ==
    ASSUME NEW S, NEW s \in Seq(S), NEW k \in 1 .. Len(s)
    PROVE  s[k] \in S
OBVIOUS

\* Repeats that give a case different results are never judged, on either side
\* and however many repeats there are, whatever verdict each of them has, if
\* pytest writes no report when it cannot load a conftest.py: it then stops
\* before any test is collected.
THEOREM FlakyIsAlwaysCaught ==
    ASSUME \A list \in ClaimLists : \A run \in BaseRuns(list) : run.conftest => ~run.report
    PROVE  Spec => []FlakyIsCaught
<1>1. ASSUME ProbeInv, RepeatInv, NEW k \in DOMAIN reports, NEW side \in Sides,
             NEW i \in DOMAIN log[k][side], NEW j \in DOMAIN log[k][side],
             log[k][side][i].report, log[k][side][j].report,
             Collection(log[k][side][i]) \cup Collection(log[k][side][j]) = {},
             ResultsOf(log[k][side][i], claims[k]) # ResultsOf(log[k][side][j], claims[k]),
             ~ \A c \in reports[k].components : c.kind = "fault"
      PROVE  FALSE
  <2> DEFINE rs == log[k][side]
  <2>1. /\ log \in Seq([base: Seq(Run), head: Seq(Run)]) /\ Len(log) = Len(reports)
        /\ DOMAIN reports = 1 .. Len(reports) /\ claims \in Seq(Claim)
        /\ Len(reports) <= Len(claims) /\ Len(reports) \in Nat
    BY <1>1 DEF ProbeInv, TypeInv, Seqs
  <2>2. log[k] \in [base: Seq(Run), head: Seq(Run)] /\ claims[k] \in Claim
    <3>1. k \in 1 .. Len(log) /\ k \in 1 .. Len(claims)
      BY <1>1, <2>1
    <3> QED BY <2>1, <3>1, ElementOf
  <2>3. rs \in Seq(Run)
    BY <2>2 DEF Sides
  <2>4. rs[i] \in Run /\ rs[j] \in Run
    BY <1>1, <2>3
  <2>5. Repeated(k)
    BY <1>1 DEF RepeatInv
  <2>6. Steady(rs, side, claims[k], backend)
    BY <1>1, <2>5 DEF Repeated, Sides
  <2>7. side = "base" => ~rs[i].conftest /\ ~rs[j].conftest
    BY <1>1, <2>5 DEF ProbeInv, TypeInv, Repeated, Range
  <2>8. /\ rs[i].report /\ rs[j].report /\ Collection(rs[i]) \cup Collection(rs[j]) = {}
        /\ ResultsOf(rs[i], claims[k]) # ResultsOf(rs[j], claims[k])
        /\ i \in DOMAIN rs /\ j \in DOMAIN rs
    BY <1>1
  <2> HIDE DEF rs
  <2>9. /\ Read(rs[i], side, claims[k], backend).fault = None
        /\ Read(rs[j], side, claims[k], backend).fault = None
        /\ Read(rs[i], side, claims[k], backend).fingerprint
              = Read(rs[j], side, claims[k], backend).fingerprint
    BY <2>6, <2>8 DEF Steady
  <2> QED BY <2>2, <2>4, <2>7, <2>8, <2>9, SameFingerprintSameResults
<1>2. ProbeInv /\ RepeatInv => FlakyIsCaught
  BY <1>1 DEF FlakyIsCaught
<1> QED BY <1>2, RepeatsHold, PTL
-----------------------------------------------------------------------------
(* The components of a claim, and the report *)

\* A claim ends with one component, or passes at base and does not at head.
Shape(components) ==
    \/ \E c : components = {c}
    \/ components = {Component("base_passes", None), Component("head_not_passing", None)}

ShapeInv == \A k \in DOMAIN reports : Shape(reports[k].components)

AssembledInv == pc = "reported" => report = Assemble(reports) /\ ~InvariantBroken(reports)

LEMMA ComponentsShape ==
    ASSUME NEW baseSide, NEW head
    PROVE  Shape(Components(baseSide, head)) /\ Shape(ComponentsCharacterizes(head))
BY DEF Components, ComponentsCharacterizes, Shape

LEMMA CloseShapes ==
    ASSUME ProbeInv, ShapeInv, NEW components, NEW symbol, NEW before, NEW after,
           Shape(components), Close(components, symbol, before, after)
    PROVE  ShapeInv'
<1> DEFINE new == [claim |-> Current, components |-> components, symbol |-> symbol]
<1>1. PICK S : reports \in Seq(S)
  BY DEF ProbeInv, TypeInv, Seqs
<1>2. reports' = Append(reports, new)
  BY DEF Close
<1>3. new.components = components
  OBVIOUS
<1> HIDE DEF new
<1>4. \A k \in DOMAIN reports' : reports'[k] = new \/ (k \in DOMAIN reports /\ reports'[k] = reports[k])
  <2>1. reports \in Seq(S \cup {new})
    BY <1>1
  <2> QED BY <1>2, <2>1
<1> QED BY <1>3, <1>4 DEF ShapeInv

LEMMA ShapeStep == ProbeInv /\ ShapeInv /\ [Next]_vars => ShapeInv'
<1> SUFFICES ASSUME ProbeInv, ShapeInv, [Next]_vars PROVE ShapeInv'
  OBVIOUS
<1>1. ASSUME UNCHANGED reports PROVE ShapeInv'
  BY <1>1 DEF ShapeInv
<1>2. CASE UNCHANGED vars
  BY <1>1, <1>2 DEF vars, judging
<1>3. CASE SetUp \/ RunPytest
  BY <1>1, <1>3 DEF SetUp, RunPytest, judging
<1>4. \A reason : Shape({Component("fault", reason)})
  BY DEF Shape
<1>5. CASE FaultUnfit
  BY <1>4, <1>5, CloseShapes DEF FaultUnfit
<1>6. CASE JudgeRaises
  BY <1>4, <1>6, CloseShapes DEF JudgeRaises
<1>7. CASE EndBase
  <2> DEFINE outcome == SideOutcome(Readings)
  <2>1. \/ Close({Component("fault", outcome.fault)}, None, runs, <<>>)
        \/ UNCHANGED reports
    BY <1>7 DEF EndBase
  <2> HIDE DEF outcome
  <2> QED BY <1>1, <1>4, <2>1, CloseShapes
<1>8. CASE EndHead
  <2> DEFINE outcome == SideOutcome(Readings)
  <2>1. \/ Close(ComponentsCharacterizes(outcome), None, <<>>, runs)
        \/ Close(Components(base.outcome, outcome), base.outcome.symbol, base.runs, runs)
    BY <1>8 DEF EndHead
  <2> HIDE DEF outcome
  <2> QED BY <2>1, ComponentsShape, CloseShapes
<1>9. CASE AssembleReport
  <2>1. reports' = IF changed THEN reports
                   ELSE [k \in DOMAIN reports |-> WithoutChange(reports[k])]
    BY <1>9 DEF AssembleReport
  <2>2. ASSUME NEW k \in DOMAIN reports
        PROVE  \/ reports'[k] = reports[k]
               \/ reports'[k].components = {Component("inconclusive", "no_impl_change")}
    <3>1. Justified(k)
      BY DEF ProbeInv, ReportInv
    <3> DEFINE symbol == reports[k].symbol
               components == reports[k].components
    <3>2. reports[k] = [claim |-> claims[k], components |-> components, symbol |-> symbol]
      BY <3>1 DEF Justified
    <3> HIDE DEF symbol, components
    <3> QED BY <2>1, <3>2 DEF WithoutChange
  <2>3. DOMAIN reports' = DOMAIN reports
    BY <2>1
  <2> QED BY <2>2, <2>3 DEF ShapeInv, Shape
<1> QED BY <1>2, <1>3, <1>5, <1>6, <1>7, <1>8, <1>9 DEF Next

LEMMA AssembledStep == AssembledInv /\ [Next]_vars => AssembledInv'
<1> SUFFICES ASSUME AssembledInv, [Next]_vars PROVE AssembledInv'
  OBVIOUS
<1>1. CASE UNCHANGED vars
  BY <1>1 DEF vars, judging, AssembledInv
<1>2. CASE AssembleReport
  BY <1>2 DEF AssembleReport, AssembledInv
<1>3. CASE SetUp
  <2>1. pc' # "reported"
    BY <1>3 DEF SetUp
  <2> QED BY <2>1 DEF AssembledInv
<1>4. CASE FaultUnfit \/ RunPytest \/ EndBase \/ EndHead \/ JudgeRaises
  <2>1. pc = "claims" /\ pc' = pc
    BY <1>4 DEF FaultUnfit, RunPytest, EndBase, EndHead, JudgeRaises, Close, Judging
  <2> QED BY <2>1 DEF AssembledInv
<1> QED BY <1>1, <1>2, <1>3, <1>4 DEF Next

LEMMA ReportsHold == Spec => [](ProbeInv /\ ShapeInv /\ AssembledInv)
<1>1. Init => ShapeInv /\ AssembledInv
  BY DEF Init, ShapeInv, AssembledInv
<1>2. ProbeInv /\ ShapeInv /\ AssembledInv /\ [Next]_vars => ShapeInv' /\ AssembledInv'
  BY ShapeStep, AssembledStep
<1> QED BY <1>1, <1>2, InvHolds, PTL DEF Spec
-----------------------------------------------------------------------------
(* The sum of the counts: the buckets of all claims, counted by bucket and by *)
(* claim.                                                                     *)

\* The claims and buckets that belong together, for some of the buckets.
Pairs(B, s) == {p \in (DOMAIN B) \X s : p[2] \in B[p[1]]}

CountsOf(B) == [b \in UNION {B[k] : k \in DOMAIN B} |-> Cardinality({k \in DOMAIN B : b \in B[k]})]

SumBody(counts, sum) ==
    [s \in SUBSET DOMAIN counts |->
        IF s = {} THEN 0 ELSE LET x == CHOOSE x \in s : TRUE IN counts[x] + sum[s \ {x}]]

LEMMA FoldIsChosen ==
    ASSUME NEW counts
    PROVE  FoldFunction(LAMBDA m, n : m + n, 0, counts) =
               (CHOOSE sum : sum = SumBody(counts, sum))[DOMAIN counts]
BY DEF FoldFunction, FoldFunctionOnSet, MapThenFoldSet, SumBody

LEMMA PairsStep ==
    ASSUME NEW B, IsFiniteSet(DOMAIN B), NEW s, IsFiniteSet(s), NEW x \in s
    PROVE  /\ IsFiniteSet(Pairs(B, s)) /\ Cardinality(Pairs(B, s)) \in Nat
           /\ Cardinality(Pairs(B, s)) =
                 Cardinality({k \in DOMAIN B : x \in B[k]}) + Cardinality(Pairs(B, s \ {x}))
<1> DEFINE K == {k \in DOMAIN B : x \in B[k]}
           rest == Pairs(B, s \ {x})
<1>1. IsFiniteSet(K) /\ IsFiniteSet({x}) /\ Cardinality({x}) = 1
  BY FS_Subset, FS_Singleton
<1>2. IsFiniteSet(K \X {x}) /\ Cardinality(K \X {x}) = Cardinality(K) * 1
  BY <1>1, FS_Product
<1>3. IsFiniteSet((DOMAIN B) \X s)
  BY FS_Product
<1>4. Pairs(B, s) \subseteq (DOMAIN B) \X s /\ rest \subseteq (DOMAIN B) \X s
  BY DEF Pairs
<1>5. IsFiniteSet(Pairs(B, s)) /\ IsFiniteSet(rest)
  BY <1>3, <1>4, FS_Subset
<1>6. Pairs(B, s) = (K \X {x}) \cup rest /\ (K \X {x}) \cap rest = {}
  BY DEF Pairs
<1>7. /\ Cardinality(K) \in Nat /\ Cardinality(rest) \in Nat
      /\ Cardinality(Pairs(B, s)) \in Nat
  BY <1>1, <1>5, FS_CardinalityType
<1> HIDE DEF K, rest
<1>8. Cardinality(Pairs(B, s)) = Cardinality(K \X {x}) + Cardinality(rest) - Cardinality({})
  BY <1>2, <1>5, <1>6, FS_Union
<1>9. Cardinality({}) = 0
  BY FS_EmptySet
<1> QED BY <1>2, <1>5, <1>7, <1>8, <1>9 DEF K, rest

\* The counts add up to the number of pairs.
LEMMA SumIsPairs ==
    ASSUME NEW B, IsFiniteSet(DOMAIN B), IsFiniteSet(UNION {B[k] : k \in DOMAIN B})
    PROVE  FoldFunction(LAMBDA m, n : m + n, 0, CountsOf(B)) =
               Cardinality(Pairs(B, UNION {B[k] : k \in DOMAIN B}))
<1> DEFINE U == UNION {B[k] : k \in DOMAIN B}
           counts == CountsOf(B)
           size == [s \in SUBSET U |-> Cardinality(Pairs(B, s))]
           sum == CHOOSE sum : sum = SumBody(counts, sum)
           Bad == {n \in Nat : \E s \in SUBSET U : Cardinality(s) = n /\ sum[s] # size[s]}
<1>1. DOMAIN counts = U /\ \A x \in U : counts[x] = Cardinality({k \in DOMAIN B : x \in B[k]})
  BY DEF CountsOf
<1>2. ASSUME NEW s \in SUBSET U, s # {}
      PROVE  LET x == CHOOSE x \in s : TRUE
             IN  /\ x \in s /\ s \ {x} \in SUBSET U /\ size[s] = counts[x] + size[s \ {x}]
                 /\ Cardinality(s \ {x}) = Cardinality(s) - 1
                 /\ Cardinality(s) \in Nat /\ Cardinality(s \ {x}) \in Nat
  <2> DEFINE x == CHOOSE x \in s : TRUE
  <2>1. x \in s
    BY <1>2
  <2> HIDE DEF x
  <2>2. IsFiniteSet(s)
    BY FS_Subset
  <2>3. Cardinality(Pairs(B, s)) =
            Cardinality({k \in DOMAIN B : x \in B[k]}) + Cardinality(Pairs(B, s \ {x}))
    BY <2>1, <2>2, PairsStep
  <2>4. Cardinality(s \ {x}) = Cardinality(s) - 1 /\ IsFiniteSet(s \ {x})
    BY <2>1, <2>2, FS_RemoveElement
  <2>5. Cardinality(s) \in Nat /\ Cardinality(s \ {x}) \in Nat
    BY <2>2, <2>4, FS_CardinalityType
  <2>6. s \ {x} \in SUBSET U
    OBVIOUS
  <2>7. size[s] = counts[x] + size[s \ {x}]
    BY <1>1, <2>1, <2>3, <2>6
  <2> HIDE DEF size, U, counts
  <2> QED BY <2>1, <2>4, <2>5, <2>6, <2>7 DEF x
<1>3. size[{}] = 0
  <2>1. Pairs(B, {}) = {}
    BY DEF Pairs
  <2> QED BY <2>1, FS_EmptySet
<1>4. size = SumBody(counts, size)
  <2>1. \A s \in SUBSET U : size[s] =
            IF s = {} THEN 0 ELSE LET x == CHOOSE x \in s : TRUE IN counts[x] + size[s \ {x}]
    <3> HIDE DEF size, U, counts
    <3> QED BY <1>2, <1>3
  <2>2. size = [s \in SUBSET U |-> size[s]]
    OBVIOUS
  <2> HIDE DEF size, U, counts
  <2> QED BY <1>1, <2>1, <2>2 DEF SumBody
<1>5. sum = SumBody(counts, sum)
  <2> HIDE DEF size, U, counts
  <2> QED BY <1>4
<1> HIDE DEF sum
<1>6. \A s \in SUBSET U : sum[s] =
          IF s = {} THEN 0 ELSE LET x == CHOOSE x \in s : TRUE IN counts[x] + sum[s \ {x}]
  <2> HIDE DEF U, counts
  <2> QED BY <1>1, <1>5 DEF SumBody
<1>7. Bad = {}
  <2> SUFFICES ASSUME Bad # {} PROVE FALSE
    OBVIOUS
  <2>1. PICK n \in Bad : \A m \in Bad : n <= m
    <3>1. Bad \subseteq Nat
      OBVIOUS
    <3> HIDE DEF Bad
    <3> QED BY <3>1, NatMin
  <2>2. PICK s \in SUBSET U : Cardinality(s) = n /\ sum[s] # size[s]
    BY <2>1
  <2> HIDE DEF U, counts, size
  <2>3. s # {}
    BY <1>3, <1>6, <2>2
  <2> DEFINE x == CHOOSE x \in s : TRUE
             r == s \ {x}
  <2>4. /\ r \in SUBSET U /\ size[s] = counts[x] + size[r]
        /\ Cardinality(r) = n - 1 /\ n \in Nat /\ Cardinality(r) \in Nat
    BY <1>2, <2>2, <2>3
  <2>5. sum[s] = counts[x] + sum[r]
    BY <1>6, <2>3
  <2> HIDE DEF x, r
  <2>6. sum[r] # size[r]
    BY <2>2, <2>4, <2>5
  <2>7. Cardinality(r) \in Bad
    BY <2>4, <2>6
  <2> HIDE DEF Bad
  <2> QED BY <2>1, <2>4, <2>7
<1>8. FoldFunction(LAMBDA m, n : m + n, 0, counts) = sum[U]
  BY <1>1, FoldIsChosen DEF sum
<1>9. sum[U] = size[U]
  <2>1. IsFiniteSet(U) /\ Cardinality(U) \in Nat
    BY FS_CardinalityType
  <2>2. Cardinality(U) \notin Bad
    BY <1>7
  <2> QED BY <2>1, <2>2
<1> QED BY <1>8, <1>9

Two == {"base_passes", "head_not_passing"}

Shaped(B) == \A k \in DOMAIN B : (\E x : B[k] = {x}) \/ B[k] = Two

\* The image of an initial segment is finite.
LEMMA ImageIsFinite ==
    ASSUME NEW n \in Nat, NEW f, DOMAIN f = 1..n
    PROVE  IsFiniteSet({f[k] : k \in DOMAIN f})
<1> DEFINE T == {f[k] : k \in 1..n}
           g == [k \in 1..n |-> f[k]]
<1>1. IsFiniteSet(1..n)
  BY FS_Interval
<1>2. g \in [1..n -> T] /\ \A t \in T : \E k \in 1..n : g[k] = t
  OBVIOUS
<1>3. T = {f[k] : k \in DOMAIN f}
  OBVIOUS
<1> HIDE DEF T, g
<1>4. g \in Surjection(1..n, T)
  BY <1>2, Fun_IsSurj
<1> QED BY <1>1, <1>3, <1>4, FS_Surjection

LEMMA TwoHasTwo == IsFiniteSet(Two) /\ Cardinality(Two) = 2
<1>1. Two = {"base_passes"} \cup {"head_not_passing"}
  BY DEF Two
<1>2. IsFiniteSet({"base_passes"}) /\ Cardinality({"base_passes"}) = 1
  BY FS_Singleton
<1>3. "head_not_passing" \notin {"base_passes"}
  OBVIOUS
<1> QED BY <1>1, <1>2, <1>3, FS_AddElement

LEMMA PairsCount ==
    ASSUME NEW B, NEW n \in Nat, DOMAIN B = 1..n, Shaped(B)
    PROVE  LET several == {k \in DOMAIN B : Cardinality(B[k]) > 1}
               U == UNION {B[k] : k \in DOMAIN B}
           IN  /\ several = {k \in DOMAIN B : B[k] = Two}
               /\ IsFiniteSet(U)
               /\ Cardinality(Pairs(B, U)) = n + Cardinality(several)
<1> DEFINE several == {k \in 1..n : B[k] = Two}
           U == UNION {B[k] : k \in DOMAIN B}
           first == [k \in 1..n |-> IF B[k] = Two THEN "base_passes" ELSE CHOOSE x : B[k] = {x}]
           h == [k \in 1..n |-> <<k, first[k]>>]
           one == {<<k, first[k]>> : k \in 1..n}
           more == several \X {"head_not_passing"}
<1>1. \A k \in DOMAIN B : IsFiniteSet(B[k]) /\ (Cardinality(B[k]) > 1 <=> B[k] = Two)
  <2> TAKE k \in DOMAIN B
  <2>1. CASE B[k] = Two
    BY <2>1, TwoHasTwo
  <2>2. CASE B[k] # Two
    <3>1. IsFiniteSet(B[k]) /\ Cardinality(B[k]) = 1
      BY <2>2, FS_Singleton DEF Shaped
    <3> QED BY <2>2, <3>1
  <2> QED BY <2>1, <2>2
<1>2. {k \in DOMAIN B : Cardinality(B[k]) > 1} = several
  BY <1>1
<1>3. IsFiniteSet(U)
  <2>1. IsFiniteSet({B[k] : k \in DOMAIN B})
    BY ImageIsFinite
  <2> QED BY <1>1, <2>1, FS_UNION
<1>4. \A k \in 1..n : /\ B[k] = Two => first[k] = "base_passes"
                      /\ B[k] # Two => B[k] = {first[k]}
  BY DEF Shaped
<1>5. IsFiniteSet(1..n) /\ Cardinality(1..n) = n
  BY FS_Interval
<1>6. IsFiniteSet(one) /\ Cardinality(one) = n
  <2> HIDE DEF first
  <2>1. h \in [1..n -> one] /\ \A a, b \in 1..n : h[a] = h[b] => a = b
    OBVIOUS
  <2>2. \A t \in one : \E k \in 1..n : h[k] = t
    OBVIOUS
  <2> HIDE DEF h, one
  <2>3. h \in Bijection(1..n, one)
    BY <2>1, <2>2, Fun_IsSurj, Fun_IsBij
  <2>4. ExistsBijection(1..n, one)
    BY <2>3 DEF ExistsBijection
  <2> QED BY <1>5, <2>4, FS_Bijection
<1>7. IsFiniteSet(several) /\ Cardinality(several) \in Nat
  BY <1>5, FS_Subset, FS_CardinalityType
<1>8. IsFiniteSet(more) /\ Cardinality(more) = Cardinality(several)
  <2>1. IsFiniteSet({"head_not_passing"}) /\ Cardinality({"head_not_passing"}) = 1
    BY FS_Singleton
  <2> HIDE DEF several
  <2> QED BY <1>7, <2>1, FS_Product
<1>9. Pairs(B, U) = one \cup more
  <2> HIDE DEF first
  <2>1. ASSUME NEW p \in Pairs(B, U) PROVE p \in one \cup more
    <3>1. PICK k \in 1..n : \E b \in B[k] : p = <<k, b>>
      BY DEF Pairs
    <3>2. PICK b \in B[k] : p = <<k, b>>
      BY <3>1
    <3>3. CASE B[k] = Two
      <4>1. b = first[k] \/ b = "head_not_passing"
        BY <1>4, <3>3 DEF Two
      <4> QED BY <3>2, <3>3, <4>1
    <3>4. CASE B[k] # Two
      <4>1. b = first[k]
        BY <1>4, <3>4
      <4> QED BY <3>2, <4>1
    <3> QED BY <3>3, <3>4
  <2>2. ASSUME NEW k \in 1..n PROVE <<k, first[k]>> \in Pairs(B, U)
    <3>1. first[k] \in B[k]
      BY <1>4 DEF Two
    <3> QED BY <3>1 DEF Pairs
  <2>3. ASSUME NEW k \in several PROVE <<k, "head_not_passing">> \in Pairs(B, U)
    BY DEF Pairs, Two
  <2> QED BY <2>1, <2>2, <2>3
<1>10. one \cap more = {}
  <2> SUFFICES ASSUME NEW k \in 1..n, NEW j \in several, <<k, first[k]>> = <<j, "head_not_passing">>
               PROVE  FALSE
    OBVIOUS
  <2> HIDE DEF first
  <2>1. first[j] = "head_not_passing" /\ first[j] = "base_passes"
    BY <1>4
  <2> QED BY <2>1
<1> HIDE DEF one, more, several, U
<1>11. Cardinality(one \cup more) = n + Cardinality(several)
  <2>1. Cardinality(one \cap more) = 0
    BY <1>10, FS_EmptySet
  <2>2. Cardinality(one \cup more) =
            Cardinality(one) + Cardinality(more) - Cardinality(one \cap more)
    BY <1>6, <1>8, FS_Union
  <2> QED BY <1>6, <1>7, <1>8, <2>1, <2>2
<1>12. several = {k \in DOMAIN B : B[k] = Two}
  BY DEF several
<1> QED BY <1>2, <1>3, <1>9, <1>11, <1>12 DEF U

\* What the report keeps of a claim's components.
LEMMA BucketsShaped ==
    ASSUME ShapeInv
    PROVE  Shaped([k \in DOMAIN reports |-> Buckets(reports[k])])
<1>1. ASSUME NEW k \in DOMAIN reports
      PROVE  (\E x : Buckets(reports[k]) = {x}) \/ Buckets(reports[k]) = Two
  <2> DEFINE components == reports[k].components
  <2>1. Shape(components) /\ Buckets(reports[k]) = {c.kind : c \in components}
    BY DEF ShapeInv, Buckets
  <2> HIDE DEF components
  <2>2. ASSUME NEW c, components = {c} PROVE Buckets(reports[k]) = {c.kind}
    BY <2>1, <2>2
  <2>3. CASE components = {Component("base_passes", None), Component("head_not_passing", None)}
    BY <2>1, <2>3 DEF Component, Two
  <2> QED BY <2>1, <2>2, <2>3 DEF Shape
<1> QED BY <1>1 DEF Shaped

LEMMA NoProblems ==
    ASSUME ProbeInv, ShapeInv, AssembledInv, pc = "reported"
    PROVE  Problems = {}
<1> DEFINE B == report.verdicts
           several == {k \in DOMAIN B : Cardinality(B[k]) > 1}
           n == Len(reports)
<1>1. report = Assemble(reports) /\ DOMAIN reports = 1..n /\ n \in Nat
  BY DEF AssembledInv, ProbeInv, TypeInv, Seqs
<1>2. B = [k \in DOMAIN reports |-> Buckets(reports[k])] /\ report.in_scope = n
  BY <1>1 DEF Assemble
<1>3. Shaped(B) /\ DOMAIN B = 1..n /\ Len(B) = n
  BY <1>1, <1>2, BucketsShaped
<1>4. report.counts = CountsOf(B)
  <2>1. \A k \in DOMAIN reports : B[k] = Buckets(reports[k])
    BY <1>2
  <2>2. DOMAIN B = DOMAIN reports
    BY <1>1, <1>3
  <2>3. UNION {B[k] : k \in DOMAIN B} = UNION {Buckets(reports[k]) : k \in DOMAIN reports}
    BY <2>1, <2>2
  <2>4. \A b : {k \in DOMAIN B : b \in B[k]} = {k \in DOMAIN reports : b \in Buckets(reports[k])}
    BY <2>1, <2>2
  <2>5. report.counts = [b \in UNION {Buckets(reports[k]) : k \in DOMAIN reports} |->
                            Cardinality({k \in DOMAIN reports : b \in Buckets(reports[k])})]
    BY <1>1 DEF Assemble
  <2> HIDE DEF B
  <2> QED BY <2>3, <2>4, <2>5 DEF CountsOf
<1> HIDE DEF B
<1>5. IsFiniteSet(DOMAIN B)
  BY <1>1, <1>3, FS_Interval
<1>6. /\ several = {k \in DOMAIN B : B[k] = Two}
      /\ FoldFunction(LAMBDA m, j : m + j, 0, report.counts) = n + Cardinality(several)
  <2> DEFINE U == UNION {B[k] : k \in DOMAIN B}
  <2>1. n \in Nat
    BY <1>1
  <2> HIDE DEF n
  <2>2. /\ several = {k \in DOMAIN B : B[k] = Two} /\ IsFiniteSet(U)
        /\ Cardinality(Pairs(B, U)) = n + Cardinality(several)
    BY <1>3, <2>1, PairsCount
  <2>3. FoldFunction(LAMBDA m, j : m + j, 0, CountsOf(B)) = Cardinality(Pairs(B, U))
    BY <1>5, <2>2, SumIsPairs
  <2> HIDE DEF U, several
  <2> QED BY <1>4, <2>2, <2>3
<1>7. {"checks" : c \in {report.in_scope} \ {Len(B)}} = {}
  BY <1>2, <1>3
<1>8. {"buckets" : k \in {k \in several : B[k] # {"base_passes", "head_not_passing"}}} = {}
  BY <1>6 DEF Two
<1>9. {"counts" : c \in {report.in_scope + Cardinality(several)}
          \ {FoldFunction(LAMBDA m, j : m + j, 0, report.counts)}} = {}
  BY <1>2, <1>6
<1> QED BY <1>7, <1>8, <1>9 DEF Problems, B

-----------------------------------------------------------------------------
(* The findings of a report and what they say of the claims *)

LEMMA Reported ==
    ASSUME ProbeInv, AssembledInv, pc = "reported"
    PROVE  /\ report = Assemble(reports) /\ ~InvariantBroken(reports)
           /\ Len(reports) = Len(claims) /\ Len(claims) \in Nat
           /\ DOMAIN reports = 1..Len(claims) /\ DOMAIN claims = 1..Len(claims)
           /\ report.findings = ClaimFindings(reports) \cup ExtraFindings(reports)
           /\ \A k \in DOMAIN claims : reports[k].claim = claims[k]
<1>1. Len(reports) = Len(claims) /\ claims \in Seq(Claim) /\ Seqs
  BY DEF ProbeInv, TypeInv, FinalInv
<1>2. /\ Len(claims) \in Nat /\ DOMAIN claims = 1..Len(claims)
      /\ DOMAIN reports = 1..Len(claims)
  BY <1>1 DEF Seqs
<1>3. \A k \in DOMAIN reports : reports[k].claim = claims[k]
  BY DEF ProbeInv, ReportInv, Justified
<1>4. report = Assemble(reports) /\ ~InvariantBroken(reports)
  BY DEF AssembledInv
<1> QED BY <1>1, <1>2, <1>3, <1>4 DEF Assemble

\* The findings about a claim are those of its reportable components.
LEMMA AboutClaim ==
    ASSUME ProbeInv, AssembledInv, pc = "reported", NEW k \in DOMAIN claims
    PROVE  FindingsAbout(k) = FindingsOf(k, reports[k])
<1>1. /\ report.findings = ClaimFindings(reports) \cup ExtraFindings(reports)
      /\ DOMAIN reports = DOMAIN claims /\ k # 0
  BY Reported
<1>2. \A j : \A f \in FindingsOf(j, reports[j]) : f.claim = j
  BY DEF FindingsOf, FindingFor, Advice, Charge
<1>3. \A f \in ExtraFindings(reports) : f.claim # k
  BY <1>1 DEF ExtraFindings, NothingJudged
<1>4. \A f \in FindingsAbout(k) : f \in FindingsOf(k, reports[k])
  BY <1>1, <1>2, <1>3 DEF FindingsAbout, ClaimFindings
<1>5. \A f \in FindingsOf(k, reports[k]) : f \in FindingsAbout(k)
  BY <1>1, <1>2 DEF FindingsAbout, ClaimFindings
<1> QED BY <1>4, <1>5

\* What the two kinds of findings say.
LEMMA FindingMeaning ==
    ASSUME NEW k, NEW r, NEW c \in Reportable(r)
    PROVE  LET f == FindingFor(k, r, c)
           IN  /\ f.type = c.kind /\ f.class \in {"material_requirement_miss", "fitness"}
               /\ f.reproduction = "reproduced" <=> c.kind \in Measured
               /\ f.reproduction = "not_reproducible" <=> c.kind \notin JudgedBuckets
               /\ f.class = "material_requirement_miss" => f.severity = "high"
               /\ ~r.claim.auto => (f.class = "fitness" <=> c.kind = "absence_only")
               /\ r.claim.auto /\ f.class = "material_requirement_miss" =>
                     f.reproduction = "not_reproducible"
<1>1. c.kind \notin Clean
  BY DEF Reportable
<1>2. CASE Advised(r, c)
  BY <1>1, <1>2 DEF FindingFor, Advised, Advice, JudgedBuckets
<1>3. CASE ~Advised(r, c)
  <2>1. r.claim.auto => c.kind = "fault"
    BY <1>3 DEF Advised, Downgrades
  <2>2. FindingFor(k, r, c) = Charge(k, c.kind)
    BY <1>3 DEF FindingFor
  <2>3. "fault" \notin Measured
    BY DEF Measured
  <2> QED BY <1>1, <2>1, <2>2, <2>3 DEF Charge, JudgedBuckets, Measured
<1> QED BY <1>2, <1>3

\* A claim was not judged exactly when a finding about it was not reproduced.
LEMMA JudgedMeaning ==
    ASSUME ProbeInv, AssembledInv, pc = "reported", NEW k \in DOMAIN claims
    PROVE  ~ReportJudged(reports[k]) <=>
               \E f \in FindingsAbout(k) : f.reproduction = "not_reproducible"
<1>1. FindingsAbout(k) = {FindingFor(k, reports[k], c) : c \in Reportable(reports[k])}
  BY AboutClaim DEF FindingsOf
<1>2. ~ReportJudged(reports[k]) <=>
          \E c \in reports[k].components : c.kind \notin JudgedBuckets
  BY DEF ReportJudged, Buckets
<1>3. \A c \in reports[k].components : c.kind \notin JudgedBuckets => c \in Reportable(reports[k])
  BY DEF Reportable, JudgedBuckets
<1>4. \A c \in Reportable(reports[k]) :
          /\ c \in reports[k].components
          /\ FindingFor(k, reports[k], c).reproduction = "not_reproducible" <=>
                c.kind \notin JudgedBuckets
  BY FindingMeaning DEF Reportable
<1> QED BY <1>1, <1>2, <1>3, <1>4

\* The report accounts for every claim: judged and not judged add up to the claims
\* in scope, the claims not judged are those with a finding nobody reproduced, and
\* the counts by bucket add up as the history table (_check_consistency) demands.
THEOREM AccountingAlwaysAddsUp == Spec => []AccountingAddsUp
<1>1. ASSUME ProbeInv, ShapeInv, AssembledInv, pc = "reported"
      PROVE  /\ report.in_scope = Len(claims)
             /\ report.in_scope = report.judged + Cardinality(report.skipped)
             /\ \A k \in DOMAIN claims :
                   k \in report.skipped <=>
                       \E f \in FindingsAbout(k) : f.reproduction = "not_reproducible"
             /\ Problems = {}
  <2> DEFINE judged == JudgedClaims(reports)
             n == Len(claims)
  <2>1. /\ report = Assemble(reports) /\ Len(reports) = n /\ n \in Nat
        /\ DOMAIN reports = 1..n /\ DOMAIN claims = 1..n
    BY <1>1, Reported
  <2>2. /\ report.in_scope = n /\ report.judged = Cardinality(judged)
        /\ report.skipped = 1..n \ judged
    BY <2>1 DEF Assemble
  <2>3. judged \subseteq 1..n
    BY <2>1 DEF JudgedClaims
  <2> HIDE DEF judged, n
  <2>4. IsFiniteSet(1..n) /\ Cardinality(1..n) = n
    BY <2>1, FS_Interval
  <2>5. Cardinality(1..n \ judged) = n - Cardinality(1..n \cap judged)
    BY <2>4, FS_Difference
  <2>6. 1..n \cap judged = judged /\ Cardinality(judged) \in Nat
    BY <2>3, <2>4, FS_Subset, FS_CardinalityType
  <2>7. ASSUME NEW k \in DOMAIN claims
        PROVE  k \in report.skipped <=>
                   \E f \in FindingsAbout(k) : f.reproduction = "not_reproducible"
    <3>1. k \in report.skipped <=> ~ReportJudged(reports[k])
      BY <2>1, <2>2 DEF judged, JudgedClaims
    <3> QED BY <1>1, <3>1, JudgedMeaning
  <2>8. report.in_scope = report.judged + Cardinality(report.skipped)
    <3>1. Cardinality(report.skipped) = n - Cardinality(judged)
      BY <2>2, <2>5, <2>6
    <3> QED BY <2>1, <2>2, <2>6, <3>1
  <2> QED BY <1>1, <2>2, <2>7, <2>8, NoProblems DEF n
<1>2. ProbeInv /\ ShapeInv /\ AssembledInv => AccountingAddsUp
  BY <1>1 DEF AccountingAddsUp
<1> QED BY <1>2, ReportsHold, PTL

-----------------------------------------------------------------------------
(* What the policy makes of the findings *)

LEMMA SetToSeqLists ==
    ASSUME NEW S, IsFiniteSet(S)
    PROVE  /\ SetToSeq(S) \in [1..Cardinality(S) -> S] /\ Cardinality(S) \in Nat
           /\ Range(SetToSeq(S)) = S
<1> DEFINE n == Cardinality(S)
           f == SetToSeq(S)
<1>1. n \in Nat /\ ExistsBijection(1..n, S)
  BY FS_CardinalityType
<1>2. PICK g : g \in Bijection(1..n, S)
  BY <1>1 DEF ExistsBijection
<1>3. g \in [1..n -> S] /\ IsInjective(g)
  BY <1>2 DEF Bijection, Injection
<1>4. f \in [1..n -> S] /\ IsInjective(f)
  BY <1>3 DEF SetToSeq
<1>5. IsFiniteSet(1..n) /\ Cardinality(1..n) = n
  BY <1>1, FS_Interval
<1> HIDE DEF f
<1>6. f \in Injection(1..n, S)
  BY <1>4 DEF Injection
<1>7. f \in Surjection(1..n, S)
  BY <1>5, <1>6, FS_Injection
<1>8. Range(f) = S
  BY <1>4, <1>7 DEF Surjection, Range
<1> QED BY <1>1, <1>4, <1>8 DEF f

LEMMA FindingsAreFinite ==
    ASSUME ProbeInv, ShapeInv, AssembledInv, pc = "reported"
    PROVE  IsFiniteSet(report.findings)
<1> DEFINE of == [k \in DOMAIN reports |-> FindingsOf(k, reports[k])]
           n == Len(claims)
<1>1. /\ report.findings = ClaimFindings(reports) \cup ExtraFindings(reports)
      /\ DOMAIN reports = 1..n /\ n \in Nat
  BY Reported
<1>2. ASSUME NEW k \in DOMAIN reports PROVE IsFiniteSet(of[k])
  <2> DEFINE components == reports[k].components
             F(c) == FindingFor(k, reports[k], c)
  <2>1. Shape(components) /\ Reportable(reports[k]) \subseteq components
    BY DEF ShapeInv, Reportable
  <2>2. PICK c, d : components = {c, d}
    BY <2>1 DEF Shape
  <2>3. of[k] \subseteq {F(c), F(d)}
    BY <2>1, <2>2 DEF FindingsOf
  <2>4. IsFiniteSet({F(c), F(d)})
    <3>1. {F(c), F(d)} = {F(c)} \cup {F(d)}
      OBVIOUS
    <3>2. IsFiniteSet({F(c)})
      BY FS_Singleton
    <3> HIDE DEF F
    <3> QED BY <3>1, <3>2, FS_AddElement
  <2> HIDE DEF F, of
  <2> QED BY <2>3, <2>4, FS_Subset
<1>3. DOMAIN of = 1..n /\ ClaimFindings(reports) = UNION {of[k] : k \in DOMAIN of}
  BY <1>1 DEF ClaimFindings
<1> HIDE DEF n, of
<1>4. IsFiniteSet({of[k] : k \in DOMAIN of})
  BY <1>1, <1>3, ImageIsFinite
<1>5. IsFiniteSet(ClaimFindings(reports))
  BY <1>1, <1>2, <1>3, <1>4, FS_UNION
<1>6. IsFiniteSet(ExtraFindings(reports))
  BY FS_Singleton, FS_EmptySet DEF ExtraFindings
<1> QED BY <1>1, <1>5, <1>6, FS_Union

\* The policy sees the findings of the report, each under an id of its own.
Listed ==
    /\ \E n \in Nat : Numbered \in [1..n -> report.findings]
    /\ Range(Numbered) = report.findings

LEMMA FindingsAreListed ==
    ASSUME ProbeInv, ShapeInv, AssembledInv, pc = "reported"
    PROVE  Listed
BY FindingsAreFinite, SetToSeqLists DEF Numbered, Listed

\* A finding as the policy sees it.
Same(f, g) ==
    f.class = g.class /\ f.severity = g.severity /\ f.reproduction = g.reproduction

LEMMA PolicySees ==
    ASSUME NEW overrides, NEW waivers, Listed
    PROVE  LET all == D(ContractWith(overrides), Agreeing(waivers), ProbeFindings)!AllFindings
           IN  /\ all = {AsPolicyFinding(k) : k \in DOMAIN Numbered}
               /\ \A f \in all : /\ \E g \in report.findings : Same(f, g)
                                 /\ ~f.absence
               /\ \A g \in report.findings : \E f \in all : Same(f, g)
<1> DEFINE all == D(ContractWith(overrides), Agreeing(waivers), ProbeFindings)!AllFindings
<1>1. all = Range(ProbeFindings) \cup Range(<<>>)
  BY DEF D!AllFindings, D!Range, Range, Agreeing
<1>2. Range(<<>>) = {} /\ Range(ProbeFindings) = {AsPolicyFinding(k) : k \in DOMAIN Numbered}
  BY DEF Range, ProbeFindings
<1>3. \A k \in DOMAIN Numbered :
          Same(AsPolicyFinding(k), Numbered[k]) /\ ~AsPolicyFinding(k).absence
  BY DEF AsPolicyFinding, Same
<1>4. report.findings = {Numbered[k] : k \in DOMAIN Numbered}
  BY DEF Listed, Range
<1> HIDE DEF all
<1> QED BY <1>1, <1>2, <1>3, <1>4 DEF all

\* A review that passes leaves no grave finding that was not reproduced.
LEMMA PassMeaning ==
    ASSUME NEW overrides, NEW waivers, Listed,
           Disposition(overrides, waivers) \in {"pass", "pass_with_waiver"}
    PROVE  \A g \in report.findings : g.severity = "high" => g.reproduction = "reproduced"
<1> DEFINE contract == ContractWith(overrides)
           output == Agreeing(waivers)
<1>1. \A f \in D(contract, output, ProbeFindings)!AllFindings :
          ~D(contract, output, ProbeFindings)!Unsettling(f)
  BY DEF Disposition, D!Verdict
<1>2. \A f \in D(contract, output, ProbeFindings)!AllFindings :
          f.severity = "high" => f.reproduction = "reproduced"
  BY <1>1 DEF D!Unsettling, D!Proven
<1> QED BY <1>2, PolicySees DEF Same

\* With neither overrides nor waivers the review is accepted, and fails exactly on a
\* material finding that was reproduced.
LEMMA DefaultMeaning ==
    ASSUME Listed,
           \A g \in report.findings : g.class \in {"material_requirement_miss", "fitness"}
    PROVE  /\ Disposition(<<>>, <<>>) = "fail" <=>
                  \E g \in report.findings :
                      g.class = "material_requirement_miss" /\ g.reproduction = "reproduced"
           /\ Disposition(<<>>, <<>>) = "pass" =>
                  \A g \in report.findings : g.class # "material_requirement_miss"
<1> DEFINE contract == ContractWith(<<>>)
           output == Agreeing(<<>>)
           probes == ProbeFindings
           all == D(contract, output, probes)!AllFindings
           result == [claim |-> "claim", outcome |-> "supported", findings |-> {},
                      evidence |-> {Note}]
<1>1. /\ contract.overrides = <<>> /\ contract.version = "0.3.0" /\ contract.claims = {"claim"}
      /\ output.findings = <<>> /\ output.waivers = <<>> /\ output.version = "0.3.0"
      /\ output.results = <<result>>
  BY DEF ContractWith, Agreeing
<1>2. /\ D(contract, output, probes)!Waivers = {}
      /\ D(contract, output, probes)!Results = {result}
  <2>1. Range(<<>>) = {} /\ Range(<<result>>) = {result}
    <3> HIDE DEF result
    <3> QED BY DEF Range
  <2> QED BY <1>1, <2>1 DEF D!Waivers, D!Results, D!Range, Range
<1> HIDE DEF contract, output
<1>3. \A class : D(contract, output, probes)!Deciding(class) = {}
  BY <1>1 DEF D!Deciding
<1>4. \A class : /\ D(contract, output, probes)!HasEffect(class, "fail") <=>
                       class = "material_requirement_miss"
                 /\ D(contract, output, probes)!HasEffect(class, "advisory") <=>
                       class = "fitness"
  BY <1>3 DEF D!HasEffect
<1>5. \A f \in all : D(contract, output, probes)!FailClass(f) <=>
                         f.class = "material_requirement_miss"
  BY <1>2, <1>4 DEF D!FailClass, D!CitedByRefutation
<1>6. \A f \in all : /\ D(contract, output, probes)!Proven(f) <=> f.reproduction = "reproduced"
                     /\ f.class \in {"material_requirement_miss", "fitness"}
  BY PolicySees DEF D!Proven, contract, output, Same
<1>7. D(contract, output, probes)!Acceptable
  <2>1. D(contract, output, probes)!AcceptableResults
    BY <1>1, <1>2 DEF D!AcceptableResults, D!UniqueBy
  <2>2. D(contract, output, probes)!AcceptableEvidence
    BY <1>1 DEF D!AcceptableEvidence
  <2>3. D(contract, output, probes)!AcceptableFindings
    <3>1. probes \o <<>> = probes /\ \A i \in DOMAIN probes : probes[i].id = i
      BY DEF ProbeFindings, AsPolicyFinding, Listed
    <3> QED BY <1>1, <1>4, <1>6, <3>1 DEF D!AcceptableFindings, D!UniqueBy
  <2>4. D(contract, output, probes)!AcceptableWaivers
    BY <1>1, <1>2 DEF D!AcceptableWaivers, D!UniqueBy
  <2> QED BY <2>1, <2>2, <2>3, <2>4 DEF D!Acceptable
<1>8. \A f \in all : /\ D(contract, output, probes)!Fails(f) <=>
                            /\ f.class = "material_requirement_miss"
                            /\ f.reproduction = "reproduced"
                     /\ f.class = "material_requirement_miss" =>
                            \/ D(contract, output, probes)!Fails(f)
                            \/ D(contract, output, probes)!Unsettling(f)
  BY <1>2, <1>5, <1>6 DEF D!Fails, D!Unsettling, D!Waived
<1> HIDE DEF all
<1>9. /\ Disposition(<<>>, <<>>) = "fail" <=>
             \E f \in all : f.class = "material_requirement_miss" /\ f.reproduction = "reproduced"
      /\ Disposition(<<>>, <<>>) = "pass" =>
             \A f \in all : f.class # "material_requirement_miss"
  BY <1>7, <1>8 DEF Disposition, D!Verdict, contract, output, all
<1>10. /\ \A f \in all : \E g \in report.findings : Same(f, g)
       /\ \A g \in report.findings : \E f \in all : Same(f, g)
  BY PolicySees DEF all, contract, output
<1> QED BY <1>9, <1>10 DEF Same

LEMMA FindingClasses ==
    ASSUME ProbeInv, AssembledInv, pc = "reported"
    PROVE  \A g \in report.findings : g.class \in {"material_requirement_miss", "fitness"}
<1>1. \A k : \A g \in FindingsOf(k, reports[k]) :
          g.class \in {"material_requirement_miss", "fitness"}
  BY FindingMeaning DEF FindingsOf
<1>2. \A g \in ExtraFindings(reports) : g.class = "material_requirement_miss"
  BY DEF ExtraFindings, NothingJudged
<1> QED BY <1>1, <1>2, Reported DEF ClaimFindings

\* A report that settles every grave finding has judged a claim.
LEMMA SomethingWasJudged ==
    ASSUME ProbeInv, AssembledInv, pc = "reported",
           \A g \in report.findings : g.severity = "high" => g.reproduction = "reproduced"
    PROVE  report.judged > 0
<1> DEFINE judged == JudgedClaims(reports)
           n == Len(claims)
<1>1. /\ report.findings = ClaimFindings(reports) \cup ExtraFindings(reports)
      /\ report.judged = Cardinality(judged) /\ DOMAIN reports = 1..n /\ n \in Nat
      /\ DOMAIN claims = 1..n
  BY Reported DEF Assemble
<1>2. judged # {}
  <2> SUFFICES ASSUME judged = {} PROVE FALSE
    OBVIOUS
  <2>1. NothingJudged \notin report.findings
    BY DEF NothingJudged
  <2>2. PICK g \in ClaimFindings(reports) : g.class # "fitness"
    BY <1>1, <2>1 DEF ExtraFindings
  <2>3. PICK k \in DOMAIN reports : g \in FindingsOf(k, reports[k])
    BY <2>2 DEF ClaimFindings
  <2>4. PICK c \in Reportable(reports[k]) : g = FindingFor(k, reports[k], c)
    BY <2>3 DEF FindingsOf
  <2>5. ~reports[k].claim.auto
    <3>1. g.reproduction = "reproduced"
      BY <1>1, <2>2, <2>4, FindingMeaning
    <3> QED BY <2>2, <2>4, <3>1, FindingMeaning
  <2>6. ~ReportJudged(reports[k])
    BY <2>3 DEF JudgedClaims
  <2>7. PICK f \in FindingsAbout(k) : f.reproduction = "not_reproducible"
    BY <1>1, <2>6, JudgedMeaning
  <2>8. PICK d \in Reportable(reports[k]) : f = FindingFor(k, reports[k], d)
    BY <1>1, <2>7, AboutClaim DEF FindingsOf
  <2>9. f.class = "material_requirement_miss" /\ f.severity = "high"
    BY <2>5, <2>7, <2>8, FindingMeaning DEF JudgedBuckets, Measured
  <2> QED BY <2>7, <2>9 DEF FindingsAbout
<1>3. judged \subseteq 1..n
  BY <1>1 DEF JudgedClaims
<1>4. IsFiniteSet(judged) /\ Cardinality(judged) \in Nat /\ Cardinality(judged) # 0
  <2>1. IsFiniteSet(1..n)
    BY <1>1, FS_Interval
  <2> HIDE DEF judged, n
  <2>2. IsFiniteSet(judged)
    BY <1>3, <2>1, FS_Subset
  <2> QED BY <1>2, <2>2, FS_CardinalityType, FS_EmptySet
<1> QED BY <1>1, <1>4

\* What the findings about an author's own claim say.
LEMMA OwnClaim ==
    ASSUME ProbeInv, AssembledInv, pc = "reported", NEW k \in DOMAIN claims, ~claims[k].auto,
           NEW f \in FindingsAbout(k)
    PROVE  /\ f.reproduction \in {"reproduced", "not_reproducible"}
           /\ f.class = "fitness" <=> f.type = "absence_only"
           /\ f.class = "fitness" => f.reproduction = "reproduced"
           /\ f.class = "material_requirement_miss" => f.severity = "high"
           /\ f.class \in {"material_requirement_miss", "fitness"}
           /\ f.class = "material_requirement_miss" /\ f.reproduction = "reproduced" <=>
                 f.type \in {"base_passes", "head_not_passing"}
<1>1. reports[k].claim = claims[k]
  BY Reported
<1>2. PICK c \in Reportable(reports[k]) : f = FindingFor(k, reports[k], c)
  BY AboutClaim DEF FindingsOf
<1>3. c.kind \notin Clean
  BY DEF Reportable
<1>4. /\ f.type = c.kind /\ f.class \in {"material_requirement_miss", "fitness"}
      /\ f.reproduction = "reproduced" <=> c.kind \in Measured
      /\ f.reproduction = "not_reproducible" <=> c.kind \notin JudgedBuckets
      /\ f.class = "material_requirement_miss" => f.severity = "high"
      /\ f.class = "fitness" <=> c.kind = "absence_only"
  BY <1>1, <1>2, FindingMeaning
<1> QED BY <1>3, <1>4 DEF JudgedBuckets, Measured

\* A material finding that was reproduced is about a claim of the author's.
LEMMA FailingFinding ==
    ASSUME ProbeInv, AssembledInv, pc = "reported", NEW g \in report.findings,
           g.class = "material_requirement_miss", g.reproduction = "reproduced"
    PROVE  \E k \in DOMAIN claims : ~claims[k].auto /\ g \in FindingsAbout(k)
<1>1. /\ report.findings = ClaimFindings(reports) \cup ExtraFindings(reports)
      /\ DOMAIN reports = DOMAIN claims
      /\ \A k \in DOMAIN claims : reports[k].claim = claims[k]
  BY Reported
<1>2. g \in ClaimFindings(reports)
  BY <1>1 DEF ExtraFindings, NothingJudged
<1>3. PICK k \in DOMAIN claims : g \in FindingsOf(k, reports[k])
  BY <1>1, <1>2 DEF ClaimFindings
<1>4. PICK c \in Reportable(reports[k]) : g = FindingFor(k, reports[k], c)
  BY <1>3 DEF FindingsOf
<1>5. ~claims[k].auto
  BY <1>1, <1>4, FindingMeaning
<1> QED BY <1>3, <1>5, AboutClaim

\* From the runs of the tests to the verdict of the policy: a pass needs a judged
\* claim and nothing left open about the author's claims, whatever is overridden or
\* waived; by default it needs every one of them shown or missing no more than a
\* name, and a fail comes from exactly the measured failures.
THEOREM DispositionIsAlwaysEarned == Spec => []DispositionIsEarned
<1>1. ASSUME ProbeInv, ShapeInv, AssembledInv, pc = "reported",
             NEW overrides, NEW waivers,
             Disposition(overrides, waivers) \in {"pass", "pass_with_waiver"}
      PROVE  /\ report.judged > 0
             /\ \A k \in DOMAIN claims : ~claims[k].auto => Settled(k)
  <2>1. \A g \in report.findings : g.severity = "high" => g.reproduction = "reproduced"
    BY <1>1, FindingsAreListed, PassMeaning
  <2>2. report.judged > 0
    BY <1>1, <2>1, SomethingWasJudged
  <2>3. ASSUME NEW k \in DOMAIN claims, ~claims[k].auto, NEW f \in FindingsAbout(k)
        PROVE  f.reproduction = "reproduced"
    <3>1. f \in report.findings
      BY DEF FindingsAbout
    <3> QED BY <1>1, <2>1, <2>3, <3>1, OwnClaim
  <2> QED BY <2>2, <2>3 DEF Settled
<1>2. ASSUME ProbeInv, ShapeInv, AssembledInv, CleanIsEarned, pc = "reported",
             Disposition(<<>>, <<>>) = "pass", NEW k \in DOMAIN claims, ~claims[k].auto
      PROVE  \/ Shown(k)
             \/ FindingsAbout(k) # {} /\ \A f \in FindingsAbout(k) : f.type = "absence_only"
  <2>1. \A g \in report.findings : g.class # "material_requirement_miss"
    BY <1>2, FindingsAreListed, FindingClasses, DefaultMeaning
  <2>2. \A f \in FindingsAbout(k) : f.type = "absence_only"
    <3> TAKE f \in FindingsAbout(k)
    <3>1. f \in report.findings
      BY DEF FindingsAbout
    <3> QED BY <1>2, <2>1, <3>1, OwnClaim
  <2> QED BY <1>2, <2>2 DEF CleanIsEarned, Shown
<1>3. ASSUME ProbeInv, ShapeInv, AssembledInv, pc = "reported"
      PROVE  Disposition(<<>>, <<>>) = "fail" <=>
                 \E k \in DOMAIN claims : ~claims[k].auto /\ \E f \in FindingsAbout(k) :
                     f.type \in {"base_passes", "head_not_passing"}
  <2>1. Disposition(<<>>, <<>>) = "fail" <=>
            \E g \in report.findings :
                g.class = "material_requirement_miss" /\ g.reproduction = "reproduced"
    BY <1>3, FindingsAreListed, FindingClasses, DefaultMeaning
  <2>2. ASSUME NEW g \in report.findings,
               g.class = "material_requirement_miss", g.reproduction = "reproduced"
        PROVE  \E k \in DOMAIN claims : ~claims[k].auto /\ \E f \in FindingsAbout(k) :
                   f.type \in {"base_passes", "head_not_passing"}
    <3>1. PICK k \in DOMAIN claims : ~claims[k].auto /\ g \in FindingsAbout(k)
      BY <1>3, <2>2, FailingFinding
    <3> QED BY <1>3, <2>2, <3>1, OwnClaim
  <2>3. ASSUME NEW k \in DOMAIN claims, ~claims[k].auto, NEW f \in FindingsAbout(k),
               f.type \in {"base_passes", "head_not_passing"}
        PROVE  \E g \in report.findings :
                   g.class = "material_requirement_miss" /\ g.reproduction = "reproduced"
    <3>1. f \in report.findings
      BY DEF FindingsAbout
    <3> QED BY <1>3, <2>3, <3>1, OwnClaim
  <2> QED BY <2>1, <2>2, <2>3
<1>4. ProbeInv /\ ShapeInv /\ AssembledInv /\ CleanIsEarned => DispositionIsEarned
  BY <1>1, <1>2, <1>3 DEF DispositionIsEarned
<1> QED BY <1>4, ReportsHold, CleanClaimsAreEarned, PTL
=============================================================================
