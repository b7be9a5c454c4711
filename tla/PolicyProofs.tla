---------------------------- MODULE PolicyProofs ----------------------------
(***************************************************************************)
(* Proofs about Policy for every review, contract and set of probe         *)
(* findings: type correctness, an inductive invariant of its loops, the    *)
(* safety properties that follow from it at the end of a run, and that the *)
(* loops decide what PolicyDecision decides.                               *)
(***************************************************************************)
EXTENDS Policy, SequenceTheorems, TLAPS
-----------------------------------------------------------------------------
(* Types *)

\* What the type invariant needs of the inputs, without the evidence types.
LEMMA InputTypes ==
    ASSUME NEW in \in Inputs
    PROVE  /\ in.contract \in Contract /\ in.output \in ReviewerOutput
           /\ in.probes \in Seq(Finding)
BY InputAssumption

\* The findings of a run form a sequence of findings.
LEMMA FindingsType == TypeOK => Findings \in Seq(Finding) /\ Len(Findings) \in Nat
<1> SUFFICES ASSUME TypeOK PROVE Findings \in Seq(Finding)
  OBVIOUS
<1>1. probes \in Seq(Finding) /\ output.findings \in Seq(Finding)
  BY DEF TypeOK, ReviewerOutput
<1> QED BY <1>1 DEF Findings

\* The gate never invents an outcome.
LEMMA GatedOutcomeType ==
    ASSUME NEW c, NEW r, NEW e, r.outcome \in Outcomes
    PROVE  GatedOutcome(c, r, e) \in Outcomes
BY DEF GatedOutcome, Outcomes

\* A finding whose class is mapped gets a gate effect and known pending flags.
LEMMA GateType ==
    ASSUME TypeOK, NEW f, f.class \in DOMAIN effects
    PROVE  /\ GateOf(f) \in GateEffects
           /\ PendingFor(f) \subseteq {"blocking_class", "high_severity"}
<1>1. ConfiguredEffect(f) \in Effects
  BY DEF ConfiguredEffect, TypeOK, Effects
<1>2. OriginalEffect(f) \in Effects
  BY <1>1 DEF OriginalEffect, Effects
<1> QED BY <1>2 DEF GateOf, GateEffects, PendingFor, Effects

\* Once the loop over findings runs, every finding's class is mapped.
ClassesMapped ==
    pc \in {"findings", "done"} =>
        \A k \in 1 .. Len(Findings) : Findings[k].class \in DOMAIN effects

LEMMA TypeInit == Init => TypeOK /\ ClassesMapped
<1> SUFFICES ASSUME Init PROVE TypeOK /\ ClassesMapped
  OBVIOUS
<1>1. contract \in Contract /\ output \in ReviewerOutput /\ probes \in Seq(Finding)
  BY InputTypes DEF Init
<1>2. Len(contract.overrides) \in Nat /\ Len(output.results) \in Nat
  BY <1>1 DEF Contract, ReviewerOutput
<1>3. Len(Findings) \in Nat
  BY <1>1 DEF Findings, ReviewerOutput
<1>4. \A c \in DOMAIN DefaultEffects : DefaultEffects[c] \in Effects
  BY DEF DefaultEffects, Effects
<1> QED BY <1>1, <1>2, <1>3, <1>4 DEF Init, TypeOK, ClassesMapped

\* The inputs of a run never change.
LEMMA InputsFixed == [Next]_vars => UNCHANGED inputs
BY DEF Next, vars, inputs, ImportReview, RefuseReview, GateClaim, RefuseClaim,
       ApplyOverride, AcceptPolicyInput, RefusePolicyInput, GateFinding, RefuseWaiver,
       Decide, Refuse, EffectsReady

LEMMA TypeStep == TypeOK /\ ClassesMapped /\ [Next]_vars => TypeOK' /\ ClassesMapped'
<1> SUFFICES ASSUME TypeOK, ClassesMapped, [Next]_vars PROVE TypeOK' /\ ClassesMapped'
  OBVIOUS
<1> USE DEF Statuses
<1>0. UNCHANGED inputs /\ Findings' = Findings
  BY InputsFixed DEF Findings, inputs
<1>1. Findings \in Seq(Finding) /\ Len(Findings) \in Nat
  BY FindingsType
<1>2. Len(output.results) \in Nat /\ Len(contract.overrides) \in Nat
  BY DEF TypeOK, ReviewerOutput, Contract
<1>3. CASE Refuse
  BY <1>0, <1>3 DEF Refuse, TypeOK, ClassesMapped, inputs
<1>4. CASE ImportReview
  BY <1>0, <1>4 DEF ImportReview, TypeOK, ClassesMapped, inputs
<1>5. CASE GateClaim
  <2>1. NextResult.outcome \in Outcomes
    <3>1. Len(outcomes) + 1 \in 1 .. Len(output.results)
      BY <1>2, <1>5 DEF GateClaim, TypeOK
    <3>2. output.results \in Seq(ClaimResult)
      BY DEF TypeOK, ReviewerOutput
    <3>3. NextResult \in ClaimResult
      BY <3>1, <3>2 DEF NextResult
    <3> QED BY <3>3 DEF ClaimResult
  <2>2. GatedOutcome(contract, NextResult, BindingEnforced(output)) \in Outcomes
    BY <2>1, GatedOutcomeType
  <2>3. outcomes' \in Seq(Outcomes) /\ Len(outcomes') <= Len(output.results)
    BY <1>2, <1>5, <2>2 DEF GateClaim, TypeOK
  <2> QED BY <1>0, <1>5, <2>3 DEF GateClaim, TypeOK, ClassesMapped, inputs
<1>6. CASE ApplyOverride
  <2>1. contract.overrides[applied + 1] \in Override
    <3>1. applied + 1 \in 1 .. Len(contract.overrides)
      BY <1>2, <1>6 DEF ApplyOverride, TypeOK
    <3>2. contract.overrides \in Seq(Override)
      BY DEF TypeOK, Contract
    <3> QED BY <3>1, <3>2
  <2>2. /\ DOMAIN DefaultEffects \subseteq DOMAIN effects'
        /\ \A c \in DOMAIN effects' : effects'[c] \in Effects
    BY <1>6, <2>1 DEF ApplyOverride, TypeOK, Override
  <2>3. applied' \in 0 .. Len(contract.overrides)
    BY <1>2, <1>6 DEF ApplyOverride, TypeOK
  <2> QED BY <1>0, <1>6, <2>2, <2>3 DEF ApplyOverride, TypeOK, ClassesMapped, inputs
<1>7. CASE AcceptPolicyInput
  <2>1. \A k \in 1 .. Len(Findings) : Findings[k] \in Range(Findings)
    BY <1>1 DEF Range
  <2>2. \A k \in 1 .. Len(Findings) : Findings[k].class \in DOMAIN effects
    BY <1>7, <2>1 DEF AcceptPolicyInput, PolicyInputRefused
  <2> QED BY <1>0, <1>7, <2>2 DEF AcceptPolicyInput, TypeOK, ClassesMapped, inputs
<1>8. CASE GateFinding
  <2>1. NextFinding.class \in DOMAIN effects
    <3>1. Len(gates) + 1 \in 1 .. Len(Findings)
      BY <1>1, <1>8 DEF GateFinding, TypeOK
    <3> QED BY <3>1, <1>8 DEF GateFinding, ClassesMapped, NextFinding
  <2>2. GateOf(NextFinding) \in GateEffects
    BY <2>1, GateType
  <2>3. PendingFor(NextFinding) \subseteq {"blocking_class", "high_severity"}
    BY <2>1, GateType
  <2>4. gates' \in Seq(GateEffects) /\ Len(gates') <= Len(Findings)
    BY <1>1, <1>8, <2>2 DEF GateFinding, TypeOK
  <2>5. /\ pending' \subseteq {"blocking_class", "high_severity"}
        /\ waiting' \subseteq Range(output.waivers)
    BY <1>8, <2>3 DEF GateFinding, TypeOK
  <2> QED BY <1>0, <1>8, <2>4, <2>5 DEF GateFinding, TypeOK, ClassesMapped, inputs
<1>9. CASE Decide
  BY <1>0, <1>9 DEF Decide, TypeOK, ClassesMapped, inputs, Disposition
<1>10. CASE UNCHANGED vars
  BY <1>0, <1>10 DEF vars, TypeOK, ClassesMapped, inputs
<1> QED
  BY <1>3, <1>4, <1>5, <1>6, <1>7, <1>8, <1>9, <1>10
     DEF Next, RefuseReview, RefuseClaim, RefusePolicyInput, RefuseWaiver

\* Every state of an import is well typed, whatever review and contract it is
\* given: no loop reads past its list and no finding gets an unknown effect.
THEOREM TypeCorrect == Spec => []TypeOK
<1>1. Init => TypeOK /\ ClassesMapped
  BY TypeInit
<1>2. TypeOK /\ ClassesMapped /\ [Next]_vars => TypeOK' /\ ClassesMapped'
  BY TypeStep
<1> QED BY <1>1, <1>2, PTL DEF Spec
-----------------------------------------------------------------------------
(* The inductive invariant *)

\* The loop over claim results: each outcome so far is the gated one, of a result
\* that passed its checks.
ClaimsGated ==
    \A k \in 1 .. Len(outcomes) :
        /\ outcomes[k] =
              GatedOutcome(contract, output.results[k], BindingEnforced(output))
        /\ ~ResultRefused(output.results[k])

\* The loop over overrides: the last one applied to a class decides it, and a
\* class none was applied to has its default effect.
LastApplied(c, k) ==
    /\ contract.overrides[k].class = c
    /\ \A j \in 1 .. applied : j > k => contract.overrides[j].class # c

EffectsDecided ==
    \A c \in DOMAIN effects :
        \/ \E k \in 1 .. applied :
              LastApplied(c, k) /\ effects[c] = contract.overrides[k].effect
        \/ /\ \A j \in 1 .. applied : contract.overrides[j].class # c
           /\ c \in DOMAIN DefaultEffects /\ effects[c] = DefaultEffects[c]

Evaluating == pc \in {"findings", "done"}

\* What the checks before each loop established.
ChecksHeld ==
    /\ pc \in {"claims", "findings", "done"} => ~DuplicateFindingIds /\ ~ResultsRefused
    /\ pc \in {"import", "claims"} => gates = <<>>
    /\ Evaluating =>
          Len(outcomes) = Len(output.results) /\ applied = Len(contract.overrides)

\* The loop over findings: the requests left are those no finding so far answers to.
WaitingLeft ==
    Evaluating =>
        waiting = {w \in Range(output.waivers) :
                      \A j \in 1 .. Len(gates) : Findings[j].id # w.finding}

\* What a gate says of its finding, and which suspicions it leaves pending.
GateSound(f, gate) ==
    /\ gate = "waiver" <=> D!Waived(f)
    /\ gate \in {"fail", "waiver"} => ConfiguredEffect(f) = "fail" /\ ~Unreproduced(f)
    /\ gate \notin {"fail", "waiver"} /\ ConfiguredEffect(f) = "fail" => Unreproduced(f)
    /\ gate \notin {"fail", "waiver"} /\ Unreproduced(f)
          /\ (ConfiguredEffect(f) = "fail" \/ f.severity = "high") => pending # {}

GatesSound == Evaluating => \A k \in 1 .. Len(gates) : GateSound(Findings[k], gates[k])

Decided ==
    /\ pc = "done" => Len(gates) = Len(Findings) /\ waiting = {} /\ status = Disposition
    /\ pc # "done" => status = "none"

IInv ==
    /\ TypeOK /\ ClassesMapped
    /\ ClaimsGated /\ EffectsDecided /\ ChecksHeld
    /\ WaitingLeft /\ GatesSound /\ Decided
-----------------------------------------------------------------------------
\* The inductive invariant, initially and one conjunct at a time.

LEMMA SameInputs ==
    [Next]_vars => contract' = contract /\ output' = output /\ probes' = probes
                   /\ Findings' = Findings
BY InputsFixed DEF inputs, Findings

LEMMA SafetyInit == Init => IInv
<1> SUFFICES ASSUME Init PROVE IInv
  OBVIOUS
<1>1. TypeOK /\ ClassesMapped
  BY TypeInit
<1>2. Len(outcomes) = 0 /\ ClaimsGated
  BY DEF Init, ClaimsGated
<1>3. EffectsDecided
  BY DEF Init, EffectsDecided
<1> QED
  BY <1>1, <1>2, <1>3
     DEF Init, IInv, ChecksHeld, WaitingLeft, GatesSound, Decided, Evaluating

LEMMA ClaimsStep == IInv /\ [Next]_vars => ClaimsGated'
<1> SUFFICES ASSUME IInv, [Next]_vars PROVE ClaimsGated'
  OBVIOUS
<1>1. contract' = contract /\ output' = output /\ Findings' = Findings
  BY SameInputs
<1>2. ASSUME NEW r PROVE ResultRefused(r)' = ResultRefused(r)
  BY <1>1 DEF ResultRefused
<1>3. CASE GateClaim
  <2> SUFFICES ASSUME NEW k \in 1 .. Len(outcomes')
               PROVE  /\ outcomes'[k] = GatedOutcome(contract, output.results[k],
                                                     BindingEnforced(output))
                      /\ ~ResultRefused(output.results[k])
    BY <1>1, <1>2 DEF ClaimsGated
  <2>1. outcomes \in Seq(Outcomes)
    BY DEF IInv, TypeOK
  <2>2. CASE k <= Len(outcomes)
    BY <1>3, <2>1, <2>2 DEF GateClaim, IInv, ClaimsGated
  <2>3. CASE k = Len(outcomes) + 1
    BY <1>3, <2>1, <2>3 DEF GateClaim, NextResult
  <2> QED BY <1>3, <2>1, <2>2, <2>3 DEF GateClaim
<1>4. CASE outcomes' = outcomes
  BY <1>1, <1>2, <1>4 DEF IInv, ClaimsGated
<1> QED
  BY <1>3, <1>4
     DEF Next, vars, ImportReview, RefuseReview, RefuseClaim, ApplyOverride,
         AcceptPolicyInput, RefusePolicyInput, GateFinding, RefuseWaiver, Decide, Refuse

LEMMA EffectsStep == IInv /\ [Next]_vars => EffectsDecided'
<1> SUFFICES ASSUME IInv, [Next]_vars PROVE EffectsDecided'
  OBVIOUS
<1>1. contract' = contract
  BY SameInputs
<1>2. CASE ApplyOverride
  <2> DEFINE o == contract.overrides[applied + 1]
  <2>1. applied \in Nat /\ applied' = applied + 1
    BY <1>2 DEF ApplyOverride, IInv, TypeOK
  <2> SUFFICES ASSUME NEW c \in DOMAIN effects'
               PROVE  \/ \E k \in 1 .. applied' :
                            /\ LastApplied(c, k)'
                            /\ effects'[c] = contract.overrides[k].effect
                      \/ /\ \A j \in 1 .. applied' : contract.overrides[j].class # c
                         /\ c \in DOMAIN DefaultEffects /\ effects'[c] = DefaultEffects[c]
    BY <1>1 DEF EffectsDecided
  <2>2. effects' = [d \in DOMAIN effects \cup {o.class} |->
                       IF d = o.class THEN o.effect ELSE effects[d]]
    BY <1>2 DEF ApplyOverride
  <2>3. CASE c = o.class
    <3>1. PICK k \in 1 .. applied' : k = applied'
      BY <2>1
    <3>2. LastApplied(c, k)' /\ contract.overrides[k] = o
      BY <1>1, <2>1, <2>3, <3>1 DEF LastApplied
    <3> QED BY <2>2, <2>3, <3>1, <3>2
  <2>4. CASE c # o.class
    <3>1. c \in DOMAIN effects /\ effects'[c] = effects[c]
      BY <2>2, <2>4
    <3>2. CASE \E k \in 1 .. applied :
                 LastApplied(c, k) /\ effects[c] = contract.overrides[k].effect
      <4>1. PICK k \in 1 .. applied :
                 LastApplied(c, k) /\ effects[c] = contract.overrides[k].effect
        BY <3>2
      <4>2. LastApplied(c, k)'
        BY <1>1, <2>1, <2>4, <4>1 DEF LastApplied
      <4> QED BY <2>1, <3>1, <4>1, <4>2
    <3>3. CASE /\ \A j \in 1 .. applied : contract.overrides[j].class # c
               /\ c \in DOMAIN DefaultEffects /\ effects[c] = DefaultEffects[c]
      BY <2>1, <2>4, <3>1, <3>3
    <3> QED BY <3>1, <3>2, <3>3 DEF IInv, EffectsDecided
  <2> QED BY <2>3, <2>4
<1>3. CASE effects' = effects /\ applied' = applied
  BY <1>1, <1>3 DEF IInv, EffectsDecided, LastApplied
<1> QED
  BY <1>2, <1>3
     DEF Next, vars, ImportReview, RefuseReview, GateClaim, RefuseClaim,
         AcceptPolicyInput, RefusePolicyInput, GateFinding, RefuseWaiver, Decide, Refuse

LEMMA ChecksStep == IInv /\ [Next]_vars => ChecksHeld'
<1> SUFFICES ASSUME IInv, [Next]_vars PROVE ChecksHeld'
  OBVIOUS
<1>1. contract' = contract /\ output' = output /\ Findings' = Findings
  BY SameInputs
<1>2. DuplicateFindingIds' = DuplicateFindingIds /\ ResultsRefused' = ResultsRefused
  BY <1>1 DEF DuplicateFindingIds, ResultsRefused, ReviewItems
<1> USE DEF IInv, ChecksHeld, Evaluating
<1>3. CASE Refuse
  BY <1>3 DEF Refuse
<1>4. CASE ImportReview
  BY <1>1, <1>2, <1>4 DEF ImportReview
<1>5. CASE GateClaim
  BY <1>1, <1>2, <1>5 DEF GateClaim
<1>6. CASE ApplyOverride
  BY <1>1, <1>2, <1>6 DEF ApplyOverride
<1>7. CASE AcceptPolicyInput
  BY <1>1, <1>2, <1>7 DEF AcceptPolicyInput, EffectsReady
<1>8. CASE GateFinding
  BY <1>1, <1>2, <1>8 DEF GateFinding
<1>9. CASE Decide
  BY <1>1, <1>2, <1>9 DEF Decide
<1>10. CASE UNCHANGED vars
  BY <1>1, <1>2, <1>10 DEF vars
<1> QED
  BY <1>3, <1>4, <1>5, <1>6, <1>7, <1>8, <1>9, <1>10
     DEF Next, RefuseReview, RefuseClaim, RefusePolicyInput, RefuseWaiver

LEMMA WaitingStep == IInv /\ [Next]_vars => WaitingLeft'
<1> SUFFICES ASSUME IInv, [Next]_vars PROVE WaitingLeft'
  OBVIOUS
<1>1. output' = output /\ Findings' = Findings
  BY SameInputs
<1> USE DEF IInv, WaitingLeft, Evaluating
<1>2. CASE AcceptPolicyInput
  BY <1>1, <1>2 DEF AcceptPolicyInput, EffectsReady, ChecksHeld
<1>3. CASE GateFinding
  <2>1. gates \in Seq(GateEffects) /\ Len(gates) \in Nat
    BY DEF TypeOK
  <2>2. Len(gates') = Len(gates) + 1
    BY <1>3, <2>1 DEF GateFinding
  <2>3. waiting' = {w \in waiting : Findings[Len(gates) + 1].id # w.finding}
    BY <1>3 DEF GateFinding, WaiversFor, NextFinding
  <2> QED BY <1>1, <1>3, <2>1, <2>2, <2>3 DEF GateFinding
<1>4. CASE pc' \notin {"findings", "done"}
  BY <1>4
<1>5. CASE /\ pc \in {"findings", "done"}
           /\ waiting' = waiting /\ gates' = gates
  BY <1>1, <1>5
<1> QED
  BY <1>2, <1>3, <1>4, <1>5
     DEF Next, vars, ImportReview, RefuseReview, GateClaim, RefuseClaim, ApplyOverride,
         RefusePolicyInput, RefuseWaiver, Decide, Refuse

LEMMA Requested == \A f : D!Waived(f) <=> \E w \in Range(output.waivers) : w.finding = f.id
BY DEF D!Waived, D!Waivers, D!Range, Range

\* The two readings of a request: none was popped for an earlier finding.
LEMMA RequestWaits ==
    ASSUME IInv, pc = "findings", Len(gates) < Len(Findings)
    PROVE  WaiversFor(NextFinding) # {} <=> D!Waived(NextFinding)
<1>1. Len(gates) \in Nat /\ Len(Findings) \in Nat /\ Findings \in Seq(Finding)
  BY FindingsType DEF IInv, TypeOK
<1>2. \A j \in 1 .. Len(gates) : Findings[j].id # NextFinding.id
  <2>1. ~DuplicateFindingIds
    BY DEF IInv, ChecksHeld
  <2>2. \A i, j \in 1 .. Len(Findings) : Findings[i].id = Findings[j].id => i = j
    BY <1>1, <2>1 DEF DuplicateFindingIds, IsInjective
  <2> QED BY <1>1, <2>2 DEF NextFinding
<1>3. waiting = {w \in Range(output.waivers) :
                   \A j \in 1 .. Len(gates) : Findings[j].id # w.finding}
  BY DEF IInv, WaitingLeft, Evaluating
<1> QED BY <1>2, <1>3, Requested DEF WaiversFor

\* One iteration of the loop over findings judges its finding soundly.
LEMMA GateIsSound ==
    ASSUME IInv, GateFinding
    PROVE  LET f == NextFinding
           IN  /\ GateOf(f) = "waiver" <=> D!Waived(f)
               /\ GateOf(f) \in {"fail", "waiver"} =>
                     ConfiguredEffect(f) = "fail" /\ ~Unreproduced(f)
               /\ GateOf(f) \notin {"fail", "waiver"} /\ ConfiguredEffect(f) = "fail" =>
                     Unreproduced(f)
               /\ GateOf(f) \notin {"fail", "waiver"} /\ Unreproduced(f)
                     /\ (ConfiguredEffect(f) = "fail" \/ f.severity = "high")
                  => PendingFor(f) # {}
<1> DEFINE f == NextFinding
<1>1. WaiversFor(f) # {} <=> D!Waived(f)
  BY RequestWaits DEF GateFinding
<1>2. WaiversFor(f) # {} => OriginalEffect(f) = "fail"
  BY DEF GateFinding, WaiverRefused
<1>3. OriginalEffect(f) = "fail" => ConfiguredEffect(f) = "fail" /\ ~Unreproduced(f)
  BY DEF OriginalEffect
<1>4. ConfiguredEffect(f) = "fail" /\ ~Unreproduced(f) => OriginalEffect(f) = "fail"
  BY DEF OriginalEffect
<1>5. OriginalEffect(f) # "waiver"
  <2>1. f.class \in DOMAIN effects
    <3>1. Len(gates) + 1 \in 1 .. Len(Findings)
      BY FindingsType DEF GateFinding, IInv, TypeOK
    <3> QED BY <3>1 DEF GateFinding, IInv, ClassesMapped, NextFinding
  <2> QED BY <2>1 DEF OriginalEffect, ConfiguredEffect, IInv, TypeOK, Effects
<1> HIDE DEF f
<1>6. PendingFor(f) # {} => Unreproduced(f)
  BY DEF PendingFor
<1> QED
  BY <1>1, <1>2, <1>3, <1>4, <1>5, <1>6 DEF GateOf, PendingFor, f

LEMMA GatesStep == IInv /\ [Next]_vars => GatesSound'
<1> SUFFICES ASSUME IInv, [Next]_vars PROVE GatesSound'
  OBVIOUS
<1>1. contract' = contract /\ output' = output /\ Findings' = Findings
  BY SameInputs
<1>2. \A f : D!Waived(f)' = D!Waived(f)
  BY <1>1 DEF D!Waived, D!Waivers, D!Range
<1>3. ASSUME outcomes' = outcomes, effects' = effects
      PROVE  \A f : ConfiguredEffect(f)' = ConfiguredEffect(f)
  BY <1>1, <1>3 DEF ConfiguredEffect, RefutedFindings
<1>4. CASE GateFinding
  <2>1. outcomes' = outcomes /\ effects' = effects /\ pc = "findings"
    BY <1>4 DEF GateFinding
  <2>2. gates \in Seq(GateEffects) /\ gates' = Append(gates, GateOf(NextFinding))
    BY <1>4 DEF GateFinding, IInv, TypeOK
  <2> SUFFICES ASSUME NEW k \in 1 .. Len(gates'), NEW f, NEW gate,
                      f = Findings[k], gate = gates'[k]
               PROVE  GateSound(f, gate)'
    BY <1>1, <2>2 DEF GatesSound
  <2>3. CASE k \in 1 .. Len(gates)
    <3>1. GateSound(f, gate)
      BY <2>1, <2>2, <2>3 DEF IInv, GatesSound, Evaluating
    <3>2. pending # {} => pending' # {}
      BY <1>4 DEF GateFinding
    <3> QED BY <1>1, <1>2, <1>3, <2>1, <3>1, <3>2 DEF GateSound
  <2>4. CASE k = Len(gates) + 1
    <3>1. gate = GateOf(NextFinding) /\ f = NextFinding
      BY <2>2, <2>4 DEF NextFinding
    <3>2. PendingFor(NextFinding) # {} => pending' # {}
      BY <1>4 DEF GateFinding
    <3> QED BY <1>1, <1>2, <1>3, <1>4, <2>1, <3>1, <3>2, GateIsSound DEF GateSound
  <2> QED BY <2>2, <2>3, <2>4
<1>5. CASE AcceptPolicyInput
  BY <1>5 DEF AcceptPolicyInput, EffectsReady, IInv, ChecksHeld, GatesSound
<1>6. CASE pc' \notin {"findings", "done"}
  BY <1>6 DEF GatesSound, Evaluating
<1>7. CASE /\ pc \in {"findings", "done"} /\ gates' = gates /\ pending' = pending
           /\ outcomes' = outcomes /\ effects' = effects
  BY <1>1, <1>2, <1>3, <1>7 DEF IInv, GatesSound, GateSound, Evaluating
<1> QED
  BY <1>4, <1>5, <1>6, <1>7
     DEF Next, vars, ImportReview, RefuseReview, GateClaim, RefuseClaim, ApplyOverride,
         RefusePolicyInput, RefuseWaiver, Decide, Refuse, IInv, Decided

LEMMA DecidedStep == IInv /\ [Next]_vars => Decided'
<1> SUFFICES ASSUME IInv, [Next]_vars PROVE Decided'
  OBVIOUS
<1>1. Findings' = Findings
  BY SameInputs
<1>2. CASE Decide
  BY <1>1, <1>2 DEF Decide, Disposition, UnresolvedClaim, IInv, Decided
<1>3. CASE UNCHANGED vars
  BY <1>1, <1>3 DEF vars, Disposition, UnresolvedClaim, IInv, Decided
<1>4. CASE Next /\ ~Decide
  BY <1>4
     DEF Next, ImportReview, RefuseReview, GateClaim, RefuseClaim, ApplyOverride,
         AcceptPolicyInput, RefusePolicyInput, GateFinding, RefuseWaiver, Refuse,
         EffectsReady, IInv, Decided
<1> QED BY <1>2, <1>3, <1>4

\* The strengthened invariant holds of every run.
THEOREM Inductive == Spec => []IInv
<1>1. Init => IInv
  BY SafetyInit
<1>2. IInv /\ [Next]_vars => IInv'
  <2> SUFFICES ASSUME IInv, [Next]_vars PROVE IInv'
    OBVIOUS
  <2>1. TypeOK' /\ ClassesMapped'
    BY TypeStep DEF IInv
  <2> QED
    BY <2>1, ClaimsStep, EffectsStep, ChecksStep, WaitingStep, GatesStep, DecidedStep
       DEF IInv
<1> QED BY <1>1, <1>2, PTL DEF Spec
-----------------------------------------------------------------------------
\* What the terms of the code and of PolicyDecision have to do with each other.

LEMMA FindingIn ==
    ASSUME TypeOK, NEW k \in 1 .. Len(Findings)
    PROVE  Findings[k] \in Finding /\ Findings[k] \in Range(Findings)
BY FindingsType DEF Range

LEMMA FindingAt ==
    ASSUME TypeOK, NEW f \in Range(Findings)
    PROVE  \E k \in 1 .. Len(Findings) : Findings[k] = f
BY FindingsType DEF Range

LEMMA ResultAt ==
    ASSUME TypeOK, NEW r \in Range(output.results)
    PROVE  \E k \in 1 .. Len(output.results) : output.results[k] = r
<1>1. output.results \in Seq(ClaimResult)
  BY DEF TypeOK, ReviewerOutput
<1>2. PICK k \in DOMAIN output.results : output.results[k] = r
  BY DEF Range
<1>3. DOMAIN output.results = 1 .. Len(output.results)
  BY <1>1
<1> QED BY <1>2, <1>3

\* A coverage block proves absence exactly when it reports a complete search.
LEMMA CompleteMeansProven ==
    ASSUME NEW item \in Evidence
    PROVE  CoverageProvesAbsence(item) <=> D!CompleteSearch(item)
<1>1. item.coverage \in Coverage
  BY DEF Evidence
<1> QED BY <1>1 DEF CoverageProvesAbsence, D!CompleteSearch, Coverage

\* The policy takes a finding for unreproduced exactly when it is not proven.
LEMMA UnreproducedMeansUnproven ==
    ASSUME NEW f \in Finding
    PROVE  Unreproduced(f) <=> ~D!Proven(f)
<1>1. \A item \in f.evidence : CoverageProvesAbsence(item) <=> D!CompleteSearch(item)
  BY CompleteMeansProven DEF Finding
<1>2. AbsenceFindingProven(f) <=> \E item \in f.evidence : D!CompleteSearch(item)
  BY <1>1 DEF AbsenceFindingProven
<1>3. f.reproduction \in NonReproduced \cup {"reproduced"} /\ f.absence \in BOOLEAN
  BY DEF Finding
<1> QED BY <1>2, <1>3 DEF Unreproduced, GatedReproduction, NonReproduced, D!Proven

\* Gating never turns another outcome into "refuted", nor "refuted" into another.
LEMMA RefutedStays ==
    ASSUME NEW c, NEW r, NEW e
    PROVE  GatedOutcome(c, r, e) = "refuted" <=> r.outcome = "refuted"
BY DEF GatedOutcome

LEMMA CitedMeansRefuted ==
    ASSUME IInv, Evaluating, NEW f
    PROVE  f.id \in RefutedFindings <=> D!CitedByRefutation(f)
<1>1. /\ outcomes \in Seq(Outcomes) /\ output.results \in Seq(ClaimResult)
      /\ Len(outcomes) = Len(output.results)
  BY DEF IInv, TypeOK, ChecksHeld, ReviewerOutput
<1>2. DOMAIN outcomes = 1 .. Len(output.results)
  BY <1>1
<1>3. \A k \in DOMAIN outcomes :
         outcomes[k] = "refuted" <=> output.results[k].outcome = "refuted"
  BY <1>1, RefutedStays DEF IInv, ClaimsGated
<1>4. \A r : r \in D!Results <=> \E k \in DOMAIN outcomes : output.results[k] = r
  BY <1>1, <1>2 DEF D!Results, D!Range
<1> QED BY <1>3, <1>4 DEF RefutedFindings, D!CitedByRefutation

\* After the last override, effects holds what the last override of a class says.
LEMMA EffectMeansDecided ==
    ASSUME IInv, Evaluating, NEW c \in DOMAIN effects
    PROVE  effects[c] = "fail" <=> D!HasEffect(c, "fail")
<1>1. applied = Len(contract.overrides) /\ contract.overrides \in Seq(Override)
  BY DEF IInv, ChecksHeld, TypeOK, Contract
<1>2. DOMAIN contract.overrides = 1 .. applied /\ applied \in Nat
  BY <1>1
<1>3. \A k : k \in D!Deciding(c) <=> k \in 1 .. applied /\ LastApplied(c, k)
  BY <1>2 DEF D!Deciding, LastApplied
<1>4. CASE \E k \in 1 .. applied :
             LastApplied(c, k) /\ effects[c] = contract.overrides[k].effect
  <2>1. PICK k \in 1 .. applied :
             LastApplied(c, k) /\ effects[c] = contract.overrides[k].effect
    BY <1>4
  <2>2. \A j \in 1 .. applied : LastApplied(c, j) => j = k
    BY <1>2, <2>1 DEF LastApplied
  <2>3. D!Deciding(c) = {k}
    BY <1>3, <2>1, <2>2
  <2> QED BY <2>1, <2>3 DEF D!HasEffect
<1>5. CASE /\ \A j \in 1 .. applied : contract.overrides[j].class # c
           /\ c \in DOMAIN DefaultEffects /\ effects[c] = DefaultEffects[c]
  <2>1. D!Deciding(c) = {}
    BY <1>3, <1>5 DEF LastApplied
  <2> QED BY <1>5, <2>1 DEF D!HasEffect
<1> QED BY <1>4, <1>5 DEF IInv, EffectsDecided

LEMMA ConfiguredMeansFailClass ==
    ASSUME IInv, Evaluating, NEW k \in 1 .. Len(Findings)
    PROVE  ConfiguredEffect(Findings[k]) = "fail" <=> D!FailClass(Findings[k])
<1>1. Findings[k].class \in DOMAIN effects
  BY DEF IInv, ClassesMapped, Evaluating
<1> QED BY <1>1, CitedMeansRefuted, EffectMeansDecided DEF ConfiguredEffect, D!FailClass

\* A claim that is still supported after the gate has one item that carries it.
LEMMA SupportedIsCarried ==
    ASSUME NEW r \in ClaimResult, contract \in Contract,
           GatedOutcome(contract, r, BindingEnforced(output)) = "supported"
    PROVE  r.outcome = "supported" /\ D!Supported(r)
<1> DEFINE required == contract.required[r.claim]
           counted == Counted(r, BindingEnforced(output))
<1>1. /\ r.outcome = "supported" /\ counted # {}
      /\ required # NoKind => \E item \in counted : KindSatisfies(item.kind, required)
      /\ r.claim \in contract.absence =>
            \E item \in counted : /\ CoverageProvesAbsence(item)
                                  /\ required = NoKind \/ KindSatisfies(item.kind, required)
  BY DEF GatedOutcome, Unbound, KindInsufficient, AbsenceUnproven
<1>2. \A item \in counted :
         /\ item \in r.evidence /\ item \in Evidence
         /\ output.version = "0.7.0" => r.claim \in item.covers
  BY DEF Counted, BindingEnforced, EvidenceDisciplineVersion, ClaimResult
<1>3. \A item \in counted :
         required # NoKind /\ KindSatisfies(item.kind, required)
         => D!AtLeast(item.kind, required)
  <2>1. required \in Kinds \cup {NoKind}
    BY DEF Contract, ClaimResult
  <2> QED BY <2>1 DEF KindSatisfies, SatisfyingKinds, D!AtLeast, Kinds
<1>4. \A item \in counted : CoverageProvesAbsence(item) => D!CompleteSearch(item)
  BY <1>2, CompleteMeansProven
<1>5. D!NoKind = NoKind
  BY DEF D!NoKind, NoKind
<1> HIDE DEF counted
<1>6. \E item \in counted : D!Carries(item, r)
  BY <1>1, <1>2, <1>3, <1>4, <1>5 DEF D!Carries
<1> QED BY <1>1, <1>2, <1>6 DEF D!Supported
-----------------------------------------------------------------------------
\* What a run says of its findings once the loop over them has ended.
Judged == Evaluating /\ Len(gates) = Len(Findings)

LEMMA GateAt ==
    ASSUME IInv, Judged, NEW k \in 1 .. Len(Findings)
    PROVE  LET f == Findings[k]
           IN  /\ gates[k] \in Range(gates)
               /\ gates[k] = "waiver" <=> D!Waived(f)
               /\ gates[k] \in {"fail", "waiver"} => D!FailClass(f) /\ D!Proven(f)
               /\ gates[k] \notin {"fail", "waiver"} /\ D!FailClass(f) => ~D!Proven(f)
               /\ gates[k] \notin {"fail", "waiver"} /\ D!Unsettling(f) => pending # {}
<1>1. Len(gates) = Len(Findings) /\ gates \in Seq(GateEffects)
  BY DEF IInv, Judged, TypeOK
<1>2. GateSound(Findings[k], gates[k]) /\ gates[k] \in Range(gates)
  BY <1>1 DEF IInv, GatesSound, Judged, Range
<1>3. ConfiguredEffect(Findings[k]) = "fail" <=> D!FailClass(Findings[k])
  BY ConfiguredMeansFailClass DEF Judged
<1>4. Unreproduced(Findings[k]) <=> ~D!Proven(Findings[k])
  BY FindingIn, UnreproducedMeansUnproven DEF IInv
<1> QED BY <1>2, <1>3, <1>4 DEF GateSound, D!Unsettling

LEMMA FailMeansProven == IInv => FailIsProven
<1> SUFFICES ASSUME IInv, status = "fail"
             PROVE  \E f \in Range(Findings) : D!Proven(f) /\ D!FailClass(f) /\ ~D!Waived(f)
  BY DEF FailIsProven
<1>1. Judged /\ status = Disposition /\ Len(gates) = Len(Findings)
  BY DEF IInv, Decided, Judged, Evaluating
<1>2. gates \in Seq(GateEffects)
  BY DEF IInv, TypeOK
<1>3. "fail" \in Range(gates)
  BY <1>1 DEF Disposition
<1>4. PICK k \in 1 .. Len(Findings) : gates[k] = "fail"
  BY <1>1, <1>2, <1>3 DEF Range
<1> QED BY <1>1, <1>4, GateAt, FindingIn DEF IInv

LEMMA PassMeansEarned == IInv => PassIsEarned
<1> SUFFICES ASSUME IInv, status = "pass" PROVE PassIsEarned
  BY DEF PassIsEarned
<1>1. pc = "done" /\ status = Disposition /\ Judged /\ Evaluating
  BY DEF IInv, Decided, Judged, Evaluating
<1>2. /\ "fail" \notin Range(gates) /\ "waiver" \notin Range(gates)
      /\ pending = {} /\ ~UnresolvedClaim
  BY <1>1 DEF Disposition
<1>3. ASSUME NEW f \in Range(Findings)
      PROVE  ~D!Unsettling(f) /\ ~(D!FailClass(f) /\ D!Proven(f)) /\ ~D!Waived(f)
  <2>1. PICK k \in 1 .. Len(Findings) : Findings[k] = f
    BY FindingAt DEF IInv
  <2> QED BY <1>1, <1>2, <2>1, GateAt
<1>4. output.waivers = <<>>
  <2>1. ASSUME NEW w \in Range(output.waivers) PROVE FALSE
    <3>1. w \notin waiting
      BY <1>1 DEF IInv, Decided
    <3>2. PICK k \in 1 .. Len(Findings) : Findings[k].id = w.finding
      BY <1>1, <3>1 DEF IInv, WaitingLeft, Judged
    <3> QED BY <1>3, <3>2, FindingIn, Requested DEF IInv
  <2>2. output.waivers \in Seq(WaiverRequest)
    BY DEF IInv, TypeOK, ReviewerOutput
  <2>3. SUFFICES ASSUME Len(output.waivers) \in Nat \ {0} PROVE FALSE
    BY <2>2, EmptySeq
  <2>4. 1 \in DOMAIN output.waivers
    BY <2>2, <2>3
  <2>5. output.waivers[1] \in Range(output.waivers)
    BY <2>4 DEF Range
  <2> QED BY <2>1, <2>5
<1>5. ASSUME NEW r \in Range(output.results)
      PROVE  r.outcome = "supported" /\ D!Supported(r)
  <2>1. PICK k \in 1 .. Len(output.results) : output.results[k] = r
    BY ResultAt DEF IInv
  <2>2. r \in ClaimResult /\ contract \in Contract
    BY <2>1 DEF IInv, TypeOK, ReviewerOutput
  <2>3. /\ outcomes \in Seq(Outcomes) /\ Len(outcomes) = Len(output.results)
        /\ outcomes[k] = GatedOutcome(contract, r, BindingEnforced(output))
        /\ ~ResultRefused(r)
    BY <1>1, <2>1 DEF IInv, TypeOK, ChecksHeld, ClaimsGated
  <2>4. outcomes[k] \in Outcomes /\ outcomes[k] \in Range(outcomes)
    BY <2>3 DEF Range
  <2>5. outcomes[k] \notin {"inconclusive", "not_evaluated"}
    BY <1>2, <2>4 DEF UnresolvedClaim
  <2>6. r.outcome # "refuted"
    <3> SUFFICES ASSUME r.outcome = "refuted" PROVE FALSE
      OBVIOUS
    <3>1. PICK id \in r.findings : id \in IdsOf(Findings)
      BY <2>3 DEF ResultRefused
    <3>2. PICK f \in Range(Findings) : f.id = id
      BY <3>1 DEF IdsOf
    <3>3. D!FailClass(f)
      BY <3>1, <3>2, <2>1 DEF D!FailClass, D!CitedByRefutation, D!Results, D!Range, Range
    <3> QED BY <1>3, <3>3 DEF D!Unsettling
  <2>7. outcomes[k] = "supported"
    BY <2>3, <2>4, <2>5, <2>6, RefutedStays DEF Outcomes
  <2> QED BY <2>2, <2>3, <2>7, SupportedIsCarried
<1>6. {r.claim : r \in Range(output.results)} = contract.claims
  BY <1>1 DEF IInv, ChecksHeld, ResultsRefused, Evaluating
<1> QED BY <1>3, <1>4, <1>5, <1>6 DEF PassIsEarned

LEMMA WaiverConsumed ==
    ASSUME IInv, Judged, NEW w \in Range(output.waivers), w \notin waiting
    PROVE  \E k \in DOMAIN gates :
              /\ k \in 1 .. Len(Findings)
              /\ Findings[k].id = w.finding /\ gates[k] = "waiver"
              /\ D!Proven(Findings[k]) /\ D!FailClass(Findings[k])
<1>1. Len(gates) = Len(Findings) /\ gates \in Seq(GateEffects)
  BY DEF IInv, Judged, TypeOK
<1>2. PICK k \in 1 .. Len(Findings) : Findings[k].id = w.finding
  BY <1>1 DEF IInv, WaitingLeft, Judged
<1> QED BY <1>1, <1>2, GateAt, Requested

LEMMA WaiversAreConsumed == IInv => WaiversConsumed
BY WaiverConsumed DEF WaiversConsumed, IInv, Decided, Judged, Evaluating

\* A run is attested "fail" only on a finding that was reproduced, for an absence
\* conclusion after a complete search, and that nobody waived, whatever findings,
\* overrides and waivers there are and in whatever order they are listed.
THEOREM FailIsAlwaysProven == Spec => []FailIsProven
BY Inductive, FailMeansProven, PTL

\* A run is attested "pass" only when every claim was supported by evidence that
\* carries it, and no finding is proven and failing or left as a suspicion.
THEOREM PassIsAlwaysEarned == Spec => []PassIsEarned
BY Inductive, PassMeansEarned, PTL

\* Every waiver request of a decided run was used on a proven fail result.
THEOREM WaiversAlwaysConsumed == Spec => []WaiversConsumed
BY Inductive, WaiversAreConsumed, PTL

\* The status of a decided run agrees with the gate effects it is attested with.
THEOREM SchemaAlwaysHolds == Spec => []AttestationSchemaHolds
<1>1. IInv => AttestationSchemaHolds
  BY DEF IInv, Decided, Disposition, AttestationSchemaHolds
<1> QED BY <1>1, Inductive, PTL
-----------------------------------------------------------------------------
(* The loops implement PolicyDecision *)

\* What the refinement needs besides IInv: an overridden class is a mapped one,
\* a decided review passed the checks made before the loop over findings, every
\* request popped was active, and a pending flag has a finding that raised it.
OverridesMapped == \A k \in 1 .. applied : contract.overrides[k].class \in DOMAIN effects

InputAccepted == Evaluating => ~PolicyInputRefused

PoppedActive == Evaluating => \A w \in Range(output.waivers) \ waiting : Active(w)

Suspect(f) == Unreproduced(f) /\ (ConfiguredEffect(f) = "fail" \/ f.severity = "high")

PendingSound ==
    /\ Evaluating /\ pending # {} => \E k \in 1 .. Len(gates) : Suspect(Findings[k])
    /\ pc \in {"import", "claims"} => pending = {}

RInv == IInv /\ OverridesMapped /\ InputAccepted /\ PoppedActive /\ PendingSound

LEMMA RefinementInit == Init => RInv
<1> SUFFICES ASSUME Init PROVE RInv
  OBVIOUS
<1>1. IInv
  BY SafetyInit
<1> QED
  BY <1>1 DEF Init, RInv, OverridesMapped, InputAccepted, PoppedActive, PendingSound,
              Evaluating

LEMMA MappedStep == RInv /\ [Next]_vars => OverridesMapped'
<1> SUFFICES ASSUME RInv, [Next]_vars PROVE OverridesMapped'
  OBVIOUS
<1>1. contract' = contract
  BY SameInputs
<1>2. CASE ApplyOverride
  <2>1. applied \in Nat /\ applied' = applied + 1
    BY <1>2 DEF ApplyOverride, RInv, IInv, TypeOK
  <2>2. DOMAIN effects' = DOMAIN effects \cup {contract.overrides[applied + 1].class}
    BY <1>2 DEF ApplyOverride
  <2> SUFFICES ASSUME NEW k \in 1 .. applied + 1
               PROVE  contract.overrides[k].class \in DOMAIN effects'
    BY <1>1, <2>1 DEF OverridesMapped
  <2>3. k \in 1 .. applied \/ k = applied + 1
    BY <2>1
  <2> QED BY <2>2, <2>3 DEF RInv, OverridesMapped
<1>3. CASE effects' = effects /\ applied' = applied
  BY <1>1, <1>3 DEF RInv, OverridesMapped
<1> QED
  BY <1>2, <1>3
     DEF Next, vars, ImportReview, RefuseReview, GateClaim, RefuseClaim,
         AcceptPolicyInput, RefusePolicyInput, GateFinding, RefuseWaiver, Decide, Refuse

LEMMA AcceptedStep == RInv /\ [Next]_vars => InputAccepted'
<1> SUFFICES ASSUME RInv, [Next]_vars PROVE InputAccepted'
  OBVIOUS
<1>1. contract' = contract /\ output' = output /\ Findings' = Findings
  BY SameInputs
<1>2. effects' = effects => PolicyInputRefused' = PolicyInputRefused
  BY <1>1 DEF PolicyInputRefused
<1>3. CASE AcceptPolicyInput
  BY <1>2, <1>3 DEF AcceptPolicyInput, InputAccepted
<1>4. CASE pc' \notin {"findings", "done"}
  BY <1>4 DEF InputAccepted, Evaluating
<1>5. CASE pc \in {"findings", "done"} /\ effects' = effects
  BY <1>2, <1>5 DEF RInv, InputAccepted, Evaluating
<1> QED
  BY <1>3, <1>4, <1>5
     DEF Next, vars, ImportReview, RefuseReview, GateClaim, RefuseClaim, ApplyOverride,
         RefusePolicyInput, GateFinding, RefuseWaiver, Decide, Refuse

LEMMA PoppedStep == RInv /\ [Next]_vars => PoppedActive'
<1> SUFFICES ASSUME RInv, [Next]_vars PROVE PoppedActive'
  OBVIOUS
<1>1. output' = output
  BY SameInputs
<1>2. \A w : Active(w)' = Active(w)
  BY DEF Active
<1>3. CASE AcceptPolicyInput
  BY <1>1, <1>3 DEF AcceptPolicyInput, PoppedActive
<1>4. CASE GateFinding
  BY <1>1, <1>2, <1>4
     DEF GateFinding, WaiverRefused, WaiversFor, RInv, PoppedActive, Evaluating
<1>5. CASE pc' \notin {"findings", "done"}
  BY <1>5 DEF PoppedActive, Evaluating
<1>6. CASE pc \in {"findings", "done"} /\ waiting' = waiting
  BY <1>1, <1>2, <1>6 DEF RInv, PoppedActive, Evaluating
<1> QED
  BY <1>3, <1>4, <1>5, <1>6
     DEF Next, vars, ImportReview, RefuseReview, GateClaim, RefuseClaim, ApplyOverride,
         RefusePolicyInput, RefuseWaiver, Decide, Refuse

LEMMA PendingStep == RInv /\ [Next]_vars => PendingSound'
<1> SUFFICES ASSUME RInv, [Next]_vars PROVE PendingSound'
  OBVIOUS
<1>1. contract' = contract /\ output' = output /\ Findings' = Findings
  BY SameInputs
<1>2. ASSUME outcomes' = outcomes, effects' = effects
      PROVE  \A f : Suspect(f)' = Suspect(f)
  BY <1>1, <1>2
     DEF Suspect, Unreproduced, GatedReproduction, ConfiguredEffect, RefutedFindings
<1>3. CASE GateFinding
  <2>1. /\ outcomes' = outcomes /\ effects' = effects /\ pc = "findings" /\ pc' = "findings"
        /\ pending' = pending \cup PendingFor(NextFinding)
    BY <1>3 DEF GateFinding
  <2>2. Len(gates) \in Nat /\ Len(gates') = Len(gates) + 1
    BY <1>3 DEF GateFinding, RInv, IInv, TypeOK
  <2>3. CASE pending # {}
    BY <1>1, <1>2, <2>1, <2>2, <2>3 DEF RInv, PendingSound, Evaluating
  <2>4. CASE PendingFor(NextFinding) # {}
    <3>1. Suspect(NextFinding)
      BY <2>4 DEF PendingFor, Suspect
    <3> QED BY <1>1, <1>2, <2>1, <2>2, <3>1 DEF PendingSound, NextFinding
  <2> QED BY <2>1, <2>3, <2>4 DEF PendingSound
<1>4. CASE AcceptPolicyInput
  BY <1>4 DEF AcceptPolicyInput, EffectsReady, RInv, PendingSound
<1>5. CASE pc' = "refused"
  BY <1>5 DEF PendingSound, Evaluating
<1>6. CASE pc \in {"import", "claims"} /\ pc' \in {"import", "claims"} /\ pending' = pending
  BY <1>6 DEF RInv, PendingSound, Evaluating
<1>7. CASE /\ pc \in {"findings", "done"} /\ pc' \in {"findings", "done"}
           /\ outcomes' = outcomes /\ effects' = effects
           /\ gates' = gates /\ pending' = pending
  BY <1>1, <1>2, <1>7 DEF RInv, PendingSound, Evaluating
<1>8. pc \in {"import", "claims", "findings", "done", "refused"}
  BY DEF RInv, IInv, TypeOK
<1> QED
  BY <1>3, <1>4, <1>5, <1>6, <1>7, <1>8
     DEF Next, vars, ImportReview, RefuseReview, GateClaim, RefuseClaim, ApplyOverride,
         RefusePolicyInput, RefuseWaiver, Decide, Refuse

LEMMA RefinementInductive == Spec => []RInv
<1>1. Init => RInv
  BY RefinementInit
<1>2. IInv /\ IInv' /\ RInv /\ [Next]_vars => RInv'
  BY MappedStep, AcceptedStep, PoppedStep, PendingStep DEF RInv
<1> QED BY <1>1, <1>2, Inductive, PTL DEF Spec
-----------------------------------------------------------------------------
\* The terms of the code's checks and those of PolicyDecision.

LEMMA SameFindings == TypeOK => D!AllFindings = Range(Findings)
<1> SUFFICES ASSUME TypeOK PROVE D!AllFindings = Range(Findings)
  OBVIOUS
<1>1. probes \in Seq(Finding) /\ output.findings \in Seq(Finding)
  BY DEF TypeOK, ReviewerOutput
<1>2. /\ Len(Findings) = Len(probes) + Len(output.findings)
      /\ \A k \in 1 .. Len(probes) : Findings[k] = probes[k]
      /\ \A k \in 1 .. Len(output.findings) :
            Findings[Len(probes) + k] = output.findings[k]
  BY <1>1 DEF Findings
<1>3. ASSUME NEW f \in D!AllFindings PROVE f \in Range(Findings)
  <2>1. CASE \E k \in 1 .. Len(probes) : probes[k] = f
    <3>1. PICK k \in 1 .. Len(probes) : probes[k] = f
      BY <2>1
    <3> QED BY <1>1, <1>2, <3>1, FindingIn
  <2>2. CASE \E k \in 1 .. Len(output.findings) : output.findings[k] = f
    <3>1. PICK k \in 1 .. Len(output.findings) : output.findings[k] = f
      BY <2>2
    <3>2. Len(probes) + k \in 1 .. Len(Findings)
      BY <1>1, <1>2
    <3> QED BY <1>2, <3>1, <3>2, FindingIn
  <2> QED BY <1>1, <1>3, <2>1, <2>2 DEF D!AllFindings, D!Range
<1>4. ASSUME NEW f \in Range(Findings) PROVE f \in D!AllFindings
  <2>1. PICK k \in 1 .. Len(Findings) : Findings[k] = f
    BY FindingAt
  <2>2. CASE k \in 1 .. Len(probes)
    BY <1>1, <1>2, <2>1, <2>2 DEF D!AllFindings, D!Range
  <2>3. CASE k \notin 1 .. Len(probes)
    <3>1. PICK j \in 1 .. Len(output.findings) : k = Len(probes) + j
      <4>1. /\ k - Len(probes) \in 1 .. Len(output.findings)
            /\ k = Len(probes) + (k - Len(probes))
        BY <1>1, <1>2, <2>3
      <4> QED BY <1>1, <4>1
    <3>2. output.findings[j] = f
      BY <1>2, <2>1, <3>1
    <3> QED BY <1>1, <3>2 DEF D!AllFindings, D!Range
  <2> QED BY <2>2, <2>3
<1> QED BY <1>3, <1>4

LEMMA SameResults == D!Results = Range(output.results) /\ D!Waivers = Range(output.waivers)
BY DEF D!Results, D!Waivers, D!Range, Range

\* Two findings of an accepted import with the same id are the same finding.
LEMMA UniqueIds ==
    D!UniqueBy(Findings, [i \in DOMAIN Findings |-> Findings[i].id]) <=> ~DuplicateFindingIds
BY DEF D!UniqueBy, DuplicateFindingIds, IsInjective

LEMMA OneFindingPerId ==
    ASSUME IInv, pc \in {"claims", "findings", "done"},
           NEW f \in Range(Findings), NEW g \in Range(Findings), f.id = g.id
    PROVE  f = g
<1>1. ~DuplicateFindingIds
  BY DEF IInv, ChecksHeld
<1>2. PICK i \in DOMAIN Findings : Findings[i] = f
  BY DEF Range
<1>3. PICK j \in DOMAIN Findings : Findings[j] = g
  BY DEF Range
<1> QED BY <1>1, <1>2, <1>3 DEF DuplicateFindingIds, IsInjective

LEMMA UniqueResults ==
    D!UniqueBy(output.results, [i \in DOMAIN output.results |-> output.results[i].claim])
    <=> IsInjective([i \in DOMAIN output.results |-> output.results[i].claim])
BY DEF D!UniqueBy, IsInjective

LEMMA UniqueWaivers ==
    D!UniqueBy(output.waivers, [i \in DOMAIN output.waivers |-> output.waivers[i].finding])
    <=> IsInjective([i \in DOMAIN output.waivers |-> output.waivers[i].finding])
BY DEF D!UniqueBy, IsInjective

\* The version and evidence checks of the import are those of the abstract policy.
LEMMA SameEvidence ==
    D!AcceptableEvidence <=>
        /\ VersionsAgree(contract, output)
        /\ BindingEnforced(output) => EvidenceConsistent(contract, ReviewItems)
<1> DEFINE reviewed ==
        UNION {r.evidence : r \in D!Results \cup D!Range(output.findings)}
<1>1. reviewed = ReviewItems
  BY DEF D!Results, D!Range, Range, ReviewItems
<1>2. D!AcceptableEvidence <=>
         /\ contract.version = "0.7.0" => output.version = "0.7.0"
         /\ output.version = "0.7.0" =>
               /\ \A item \in reviewed : item.covers \subseteq contract.claims
               /\ \A a, b \in reviewed : a.id = b.id => a = b
  BY DEF D!AcceptableEvidence
<1> HIDE DEF reviewed
<1> QED
  BY <1>1, <1>2
     DEF VersionsAgree, BindingEnforced, EvidenceConsistent, EvidenceDisciplineVersion

\* The cover and reference checks of the import are those of the abstract policy.
LEMMA SameResultChecks ==
    ASSUME TypeOK
    PROVE  D!AcceptableResults <=>
             /\ {r.claim : r \in Range(output.results)} = contract.claims
             /\ IsInjective([i \in DOMAIN output.results |-> output.results[i].claim])
             /\ \A r \in Range(output.results) : ~ResultRefused(r)
<1>1. {f.id : f \in D!AllFindings} = IdsOf(Findings)
  BY SameFindings DEF IdsOf
<1>2. \A r : ~ResultRefused(r) <=> /\ r.findings \subseteq {f.id : f \in D!AllFindings}
                                   /\ r.outcome = "refuted" => r.findings # {}
  BY <1>1 DEF ResultRefused
<1> QED BY <1>2, UniqueResults, SameResults DEF D!AcceptableResults

\* Once every override is applied, a class has an effect exactly when it is mapped.
LEMMA MappedMeansEffect ==
    ASSUME RInv, applied = Len(contract.overrides), NEW c
    PROVE  c \in DOMAIN effects <=>
               \E e \in {"fail", "advisory", "none"} : D!HasEffect(c, e)
<1>1. contract.overrides \in Seq(Override)
  BY DEF RInv, IInv, TypeOK, Contract
<1>2. DOMAIN contract.overrides = 1 .. applied /\ applied \in Nat
  BY <1>1
<1>3. \A k : k \in D!Deciding(c) <=> k \in 1 .. applied /\ LastApplied(c, k)
  BY <1>2 DEF D!Deciding, LastApplied
<1>4. ASSUME NEW k \in 1 .. applied
      PROVE  contract.overrides[k].effect \in {"fail", "advisory", "none"}
  <2>1. contract.overrides[k] \in Override
    BY <1>1, <1>2
  <2> QED BY <2>1 DEF Override, Effects
<1>5. ASSUME c \in DOMAIN effects
      PROVE  \E e \in {"fail", "advisory", "none"} : D!HasEffect(c, e)
  <2>1. CASE \E k \in 1 .. applied :
               LastApplied(c, k) /\ effects[c] = contract.overrides[k].effect
    BY <1>3, <1>4, <2>1 DEF D!HasEffect
  <2>2. CASE /\ \A j \in 1 .. applied : contract.overrides[j].class # c
             /\ c \in DOMAIN DefaultEffects /\ effects[c] = DefaultEffects[c]
    <3>1. D!Deciding(c) = {}
      BY <1>3, <2>2 DEF LastApplied
    <3>2. DefaultEffects[c] \in {"fail", "advisory"}
      BY <2>2 DEF DefaultEffects
    <3> QED BY <2>2, <3>1, <3>2 DEF D!HasEffect
  <2> QED BY <1>5, <2>1, <2>2 DEF RInv, IInv, EffectsDecided
<1>6. ASSUME c \notin DOMAIN effects, NEW e, D!HasEffect(c, e)
      PROVE  FALSE
  <2>1. D!Deciding(c) = {}
    BY <1>3, <1>6 DEF LastApplied, RInv, OverridesMapped
  <2>2. c \in DOMAIN DefaultEffects
    BY <1>6, <2>1 DEF D!HasEffect
  <2> QED BY <1>6, <2>2 DEF RInv, IInv, TypeOK
<1> QED BY <1>5, <1>6

\* A claim the abstract policy takes for supported is still supported after the gate.
LEMMA CarriedIsSupported ==
    ASSUME NEW r \in ClaimResult, contract \in Contract, D!Supported(r)
    PROVE  GatedOutcome(contract, r, BindingEnforced(output)) = "supported"
<1> DEFINE required == contract.required[r.claim]
           counted == Counted(r, BindingEnforced(output))
<1>1. PICK item \in r.evidence : D!Carries(item, r)
  BY DEF D!Supported
<1>2. item \in Evidence /\ item.kind \in Kinds /\ required \in Kinds \cup {NoKind}
  BY DEF ClaimResult, Evidence, Contract
<1>3. item \in counted
  BY <1>1 DEF D!Carries, Counted, BindingEnforced, EvidenceDisciplineVersion
<1>4. D!NoKind = NoKind
  BY DEF D!NoKind, NoKind
<1>5. required # NoKind => KindSatisfies(item.kind, required)
  <2>1. required # NoKind => D!AtLeast(item.kind, required)
    BY <1>1, <1>4 DEF D!Carries
  <2> QED BY <1>2, <2>1 DEF D!AtLeast, KindSatisfies, SatisfyingKinds, Kinds
<1>6. r.claim \in contract.absence => CoverageProvesAbsence(item)
  BY <1>1, <1>2, CompleteMeansProven DEF D!Carries
<1> HIDE DEF counted
<1>7. ~Unbound(r, BindingEnforced(output))
  BY <1>3 DEF Unbound, counted
<1>8. ~KindInsufficient(contract, r, BindingEnforced(output))
  BY <1>3, <1>5 DEF KindInsufficient, counted
<1>9. ~AbsenceUnproven(contract, r, BindingEnforced(output))
  BY <1>3, <1>5, <1>6 DEF AbsenceUnproven, counted
<1> QED BY <1>7, <1>8, <1>9 DEF GatedOutcome, D!Supported
-----------------------------------------------------------------------------
\* Every refusal of the code is a refusal of the abstract policy.

LEMMA ReviewRefusedSoundly ==
    ASSUME RInv, RefuseReview
    PROVE  ~D!Acceptable
<1> SUFFICES ASSUME D!Acceptable PROVE FALSE
  OBVIOUS
<1>1. ~DuplicateFindingIds
  BY UniqueIds DEF D!Acceptable, D!AcceptableFindings, Findings
<1>2. ~ResultsRefused
  BY SameEvidence, SameResultChecks
     DEF D!Acceptable, RInv, IInv, ResultsRefused
<1> QED BY <1>1, <1>2 DEF RefuseReview

LEMMA ClaimRefusedSoundly ==
    ASSUME RInv, RefuseClaim
    PROVE  ~D!Acceptable
<1>1. /\ Len(outcomes) \in Nat /\ Len(outcomes) < Len(output.results)
      /\ output.results \in Seq(ClaimResult)
  BY DEF RInv, IInv, TypeOK, ReviewerOutput, RefuseClaim
<1>2. NextResult \in Range(output.results)
  BY <1>1 DEF NextResult, Range
<1> QED
  BY <1>2, SameResultChecks DEF D!Acceptable, RInv, IInv, RefuseClaim

LEMMA PolicyInputRefusedSoundly ==
    ASSUME RInv, RefusePolicyInput
    PROVE  ~D!Acceptable
<1> SUFFICES ASSUME D!Acceptable PROVE FALSE
  OBVIOUS
<1>1. applied = Len(contract.overrides) /\ PolicyInputRefused /\ TypeOK
  BY DEF RefusePolicyInput, EffectsReady, RInv, IInv
<1>2. \A f \in Range(Findings) : f.class \in DOMAIN effects
  BY <1>1, SameFindings, MappedMeansEffect DEF D!Acceptable, D!AcceptableFindings
<1>3. ASSUME NEW w \in Range(output.waivers)
      PROVE  w.finding \in IdsOf(Findings) /\ w.issuer \in contract.issuers
  BY <1>1, <1>3, SameFindings, SameResults DEF D!Acceptable, D!AcceptableWaivers, IdsOf
<1>4. IsInjective([i \in DOMAIN output.waivers |-> output.waivers[i].finding])
  BY UniqueWaivers DEF D!Acceptable, D!AcceptableWaivers
<1> QED BY <1>1, <1>2, <1>3, <1>4 DEF PolicyInputRefused

\* The request refused names this finding and no other, by the unique ids.
LEMMA WaiverRefusedSoundly ==
    ASSUME RInv, RefuseWaiver
    PROVE  ~D!Acceptable
<1> SUFFICES ASSUME D!Acceptable PROVE FALSE
  OBVIOUS
<1>1. Len(gates) + 1 \in 1 .. Len(Findings)
  BY FindingsType DEF RefuseWaiver, RInv, IInv, TypeOK
<1>2. NextFinding \in Range(Findings) /\ NextFinding \in Finding
  BY <1>1, FindingIn DEF NextFinding, RInv, IInv
<1>3. PICK w \in waiting : /\ w.finding = NextFinding.id
                           /\ OriginalEffect(NextFinding) # "fail" \/ ~Active(w)
  BY DEF RefuseWaiver, WaiverRefused, WaiversFor
<1>4. w \in Range(output.waivers)
  BY DEF RInv, IInv, TypeOK
<1>5. Active(w)
  BY <1>4, SameResults DEF D!Acceptable, D!AcceptableWaivers, Active
<1>6. PICK f \in Range(Findings) : f.id = w.finding /\ D!FailClass(f) /\ D!Proven(f)
  BY <1>4, SameResults, SameFindings DEF D!Acceptable, D!AcceptableWaivers, RInv, IInv
<1>7. f = NextFinding
  BY <1>2, <1>3, <1>6, OneFindingPerId DEF RefuseWaiver, RInv
<1>8. ConfiguredEffect(NextFinding) = "fail"
  BY <1>1, <1>6, <1>7, ConfiguredMeansFailClass
     DEF NextFinding, RefuseWaiver, RInv, Evaluating
<1>9. ~Unreproduced(NextFinding)
  BY <1>2, <1>6, <1>7, UnreproducedMeansUnproven
<1> QED BY <1>3, <1>5, <1>8, <1>9 DEF OriginalEffect

\* No request is left over: the checks before the loop found its finding.
LEMMA NoneLeftOver ==
    ASSUME RInv, Judged
    PROVE  waiting = {}
<1> SUFFICES ASSUME NEW w \in waiting PROVE FALSE
  OBVIOUS
<1>1. w \in Range(output.waivers) /\ \A j \in 1 .. Len(Findings) : Findings[j].id # w.finding
  BY DEF RInv, IInv, WaitingLeft, Judged
<1>2. PICK f \in Range(Findings) : f.id = w.finding
  BY <1>1 DEF RInv, InputAccepted, PolicyInputRefused, Judged, IdsOf
<1> QED BY <1>1, <1>2, FindingAt DEF RInv, IInv
-----------------------------------------------------------------------------
\* Every disposition of the code is the verdict of the abstract policy.

LEMMA JudgedIsAcceptable ==
    ASSUME RInv, Judged
    PROVE  D!Acceptable
<1>1. IInv /\ TypeOK /\ Evaluating /\ ~PolicyInputRefused
  BY DEF RInv, IInv, Judged, InputAccepted
<1>2. ~DuplicateFindingIds /\ ~ResultsRefused
  BY <1>1 DEF IInv, ChecksHeld, Evaluating
<1>3. D!AcceptableEvidence
  BY <1>2, SameEvidence DEF ResultsRefused
<1>4. D!AcceptableResults
  <2>1. ASSUME NEW r \in Range(output.results) PROVE ~ResultRefused(r)
    <3>1. PICK k \in 1 .. Len(output.results) : output.results[k] = r
      BY <1>1, ResultAt
    <3> QED BY <1>1, <3>1 DEF IInv, ClaimsGated, ChecksHeld
  <2> QED BY <1>1, <1>2, <2>1, SameResultChecks DEF ResultsRefused
<1>5. D!AcceptableFindings
  <2>1. \A f \in D!AllFindings : \E e \in {"fail", "advisory", "none"} : D!HasEffect(f.class, e)
    <3> SUFFICES ASSUME NEW f \in D!AllFindings
                 PROVE  \E e \in {"fail", "advisory", "none"} : D!HasEffect(f.class, e)
      OBVIOUS
    <3>1. f.class \in DOMAIN effects
      BY <1>1, SameFindings DEF PolicyInputRefused
    <3> QED BY <1>1, <3>1, MappedMeansEffect DEF IInv, ChecksHeld
  <2> QED BY <1>2, <2>1, UniqueIds DEF D!AcceptableFindings, Findings
<1>6. D!AcceptableWaivers
  <2>1. D!UniqueBy(output.waivers,
                   [i \in DOMAIN output.waivers |-> output.waivers[i].finding])
    BY <1>1, UniqueWaivers DEF PolicyInputRefused
  <2>2. ASSUME NEW w \in D!Waivers
        PROVE  /\ w.issuer \in contract.issuers
               /\ w.issued <= AttestedAt /\ AttestedAt < w.expires
               /\ \E f \in D!AllFindings : f.id = w.finding /\ D!FailClass(f) /\ D!Proven(f)
    <3>1. w \in Range(output.waivers) /\ w \notin waiting
      BY SameResults, NoneLeftOver
    <3>2. w.issuer \in contract.issuers /\ Active(w)
      BY <1>1, <3>1 DEF PolicyInputRefused, RInv, PoppedActive
    <3>3. PICK k \in 1 .. Len(Findings) :
             Findings[k].id = w.finding /\ D!Proven(Findings[k]) /\ D!FailClass(Findings[k])
      BY <1>1, <3>1, WaiverConsumed
    <3> QED BY <1>1, <3>2, <3>3, FindingIn, SameFindings DEF Active
  <2> QED BY <2>1, <2>2 DEF D!AcceptableWaivers
<1> QED BY <1>3, <1>4, <1>5, <1>6 DEF D!Acceptable

LEMMA FailsIffGated ==
    ASSUME RInv, Judged
    PROVE  "fail" \in Range(gates) <=> \E f \in D!AllFindings : D!Fails(f)
<1>1. IInv /\ TypeOK /\ Len(gates) = Len(Findings) /\ gates \in Seq(GateEffects)
  BY DEF RInv, IInv, Judged, TypeOK
<1>2. ASSUME "fail" \in Range(gates) PROVE \E f \in D!AllFindings : D!Fails(f)
  <2>1. PICK k \in 1 .. Len(Findings) : gates[k] = "fail"
    BY <1>1, <1>2 DEF Range
  <2> QED BY <1>1, <2>1, GateAt, FindingIn, SameFindings DEF D!Fails
<1>3. ASSUME NEW f \in D!AllFindings, D!Fails(f) PROVE "fail" \in Range(gates)
  <2>1. PICK k \in 1 .. Len(Findings) : Findings[k] = f
    BY <1>1, FindingAt, SameFindings
  <2> QED BY <1>1, <1>3, <2>1, GateAt DEF D!Fails
<1> QED BY <1>2, <1>3

LEMMA PendingIffUnsettling ==
    ASSUME RInv, Judged
    PROVE  pending # {} <=> \E f \in D!AllFindings : D!Unsettling(f)
<1>1. IInv /\ TypeOK /\ Len(gates) = Len(Findings) /\ Evaluating
  BY DEF RInv, IInv, Judged
<1>2. ASSUME pending # {} PROVE \E f \in D!AllFindings : D!Unsettling(f)
  <2>1. PICK k \in 1 .. Len(Findings) : Suspect(Findings[k])
    BY <1>1, <1>2 DEF RInv, PendingSound
  <2>2. D!Unsettling(Findings[k])
    BY <1>1, <2>1, FindingIn, UnreproducedMeansUnproven, ConfiguredMeansFailClass
       DEF Suspect, D!Unsettling
  <2> QED BY <1>1, <2>2, FindingIn, SameFindings
<1>3. ASSUME NEW f \in D!AllFindings, D!Unsettling(f) PROVE pending # {}
  <2>1. PICK k \in 1 .. Len(Findings) : Findings[k] = f
    BY <1>1, FindingAt, SameFindings
  <2> QED BY <1>1, <1>3, <2>1, GateAt DEF D!Unsettling
<1> QED BY <1>2, <1>3

LEMMA UnresolvedIffUnsettled ==
    ASSUME RInv, Judged
    PROVE  UnresolvedClaim <=> \E r \in D!Results : ~D!Settled(r)
<1>1. /\ outcomes \in Seq(Outcomes) /\ Len(outcomes) = Len(output.results)
      /\ output.results \in Seq(ClaimResult) /\ contract \in Contract /\ TypeOK
  BY DEF RInv, IInv, TypeOK, Judged, ChecksHeld, ReviewerOutput
<1>2. ASSUME NEW k \in 1 .. Len(output.results)
      PROVE  /\ outcomes[k] \in {"inconclusive", "not_evaluated"}
                <=> ~D!Settled(output.results[k])
             /\ outcomes[k] \in Range(outcomes)
             /\ output.results[k] \in D!Results
  <2> DEFINE r == output.results[k]
  <2>1. outcomes[k] = GatedOutcome(contract, r, BindingEnforced(output))
    BY <1>1 DEF RInv, IInv, ClaimsGated
  <2>2. r \in ClaimResult /\ outcomes[k] \in Outcomes /\ outcomes[k] \in Range(outcomes)
    BY <1>1 DEF Range
  <2>3. outcomes[k] = "refuted" <=> r.outcome = "refuted"
    BY <2>1, RefutedStays
  <2>4. outcomes[k] = "supported" <=> D!Supported(r)
    <3> HIDE DEF r
    <3> QED BY <1>1, <2>1, <2>2, SupportedIsCarried, CarriedIsSupported
  <2>5. r \in D!Results
    BY <1>1 DEF D!Results, D!Range
  <2> QED BY <2>2, <2>3, <2>4, <2>5 DEF D!Settled, Outcomes
<1>3. ASSUME UnresolvedClaim PROVE \E r \in D!Results : ~D!Settled(r)
  <2>1. PICK k \in 1 .. Len(output.results) : outcomes[k] \in {"inconclusive", "not_evaluated"}
    BY <1>1, <1>3 DEF UnresolvedClaim, Range
  <2> QED BY <1>2, <2>1
<1>4. ASSUME NEW r \in D!Results, ~D!Settled(r) PROVE UnresolvedClaim
  <2>1. PICK k \in 1 .. Len(output.results) : output.results[k] = r
    BY <1>1, ResultAt, SameResults
  <2> QED BY <1>2, <1>4, <2>1 DEF UnresolvedClaim
<1> QED BY <1>3, <1>4

LEMMA WaiverIffRequested ==
    ASSUME RInv, Judged
    PROVE  "waiver" \in Range(gates) <=> D!Waivers # {}
<1>1. IInv /\ TypeOK /\ Len(gates) = Len(Findings) /\ gates \in Seq(GateEffects)
  BY DEF RInv, IInv, Judged, TypeOK
<1>2. ASSUME "waiver" \in Range(gates) PROVE D!Waivers # {}
  <2>1. PICK k \in 1 .. Len(Findings) : gates[k] = "waiver"
    BY <1>1, <1>2 DEF Range
  <2> QED BY <1>1, <2>1, GateAt DEF D!Waived
<1>3. ASSUME NEW w \in D!Waivers PROVE "waiver" \in Range(gates)
  BY <1>1, <1>3, NoneLeftOver, WaiverConsumed, SameResults DEF Range
<1> QED BY <1>2, <1>3

LEMMA VerdictIsDisposition ==
    ASSUME RInv, Judged
    PROVE  D!Verdict = Disposition
BY JudgedIsAcceptable, FailsIffGated, PendingIffUnsettling, UnresolvedIffUnsettled,
   WaiverIffRequested
   DEF D!Verdict, Disposition
-----------------------------------------------------------------------------
\* A refusal and a decision are the one step of PolicyDecision; every other step
\* leaves its verdict alone.
LEMMA StepImplementsDecision ==
    RInv /\ [Next]_vars => [D!Decide]_(D!vars)
<1> SUFFICES ASSUME RInv, [Next]_vars PROVE [D!Decide]_(D!vars)
  OBVIOUS
<1>1. contract' = contract /\ output' = output /\ probes' = probes
  BY SameInputs
<1>2. pc # "done" => status = "none"
  BY DEF RInv, IInv, Decided
<1>3. ASSUME Refuse, ~D!Acceptable, pc \in {"import", "claims", "findings"} PROVE D!Decide
  BY <1>1, <1>2, <1>3 DEF Refuse, D!Decide, D!Verdict
<1>4. ASSUME pc \in {"import", "claims", "findings"}, status' = status,
             pc' \in {"import", "claims", "findings"}
      PROVE  UNCHANGED D!vars
  BY <1>1, <1>4 DEF D!vars
<1>5. CASE RefuseReview
  BY <1>3, <1>5, ReviewRefusedSoundly DEF RefuseReview
<1>6. CASE RefuseClaim
  BY <1>3, <1>6, ClaimRefusedSoundly DEF RefuseClaim
<1>7. CASE RefusePolicyInput
  BY <1>3, <1>7, PolicyInputRefusedSoundly DEF RefusePolicyInput, EffectsReady
<1>8. CASE RefuseWaiver
  BY <1>3, <1>8, WaiverRefusedSoundly DEF RefuseWaiver
<1>9. CASE Decide
  <2>1. Judged /\ pc = "findings"
    BY <1>9 DEF Decide, Judged, Evaluating
  <2>2. pc' = "done" /\ status' = Disposition
    BY <1>9, <2>1, NoneLeftOver DEF Decide
  <2> QED BY <1>1, <1>2, <2>1, <2>2, VerdictIsDisposition DEF D!Decide
<1>10. CASE ImportReview \/ GateClaim \/ ApplyOverride \/ AcceptPolicyInput \/ GateFinding
  BY <1>4, <1>10
     DEF ImportReview, GateClaim, ApplyOverride, AcceptPolicyInput, EffectsReady, GateFinding
<1>11. CASE UNCHANGED vars
  BY <1>11 DEF vars, inputs, D!vars
<1> QED
  BY <1>5, <1>6, <1>7, <1>8, <1>9, <1>10, <1>11 DEF Next

\* The loops of the import and the policy decide, in one step and only once, the
\* verdict PolicyDecision states over sets: a review is refused exactly when that
\* specification finds it unacceptable, and otherwise gets the disposition its
\* findings, results and waivers give it, in whatever order they are listed.
THEOREM PolicyImplementsDecision == Spec => ImplementsDecision
<1>1. Init => D!Init
  BY DEF Init, D!Init
<1>2. RInv /\ [Next]_vars => [D!Decide]_(D!vars)
  BY StepImplementsDecision
<1> QED BY <1>1, <1>2, RefinementInductive, PTL DEF Spec, ImplementsDecision, D!Spec
=============================================================================
