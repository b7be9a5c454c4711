------------------------------ MODULE MCPolicy ------------------------------
(***************************************************************************)
(* Two families of inputs for TLC: reviews that vary in findings, waivers  *)
(* and overrides over one claim, and reviews that vary in the evidence of  *)
(* one claim under every requirement a contract can put on it.             *)
(***************************************************************************)
EXTENDS Policy, FiniteSets

CONSTANTS c1, c2, e1, e2, e3, f1, f2, i1, i2

MCClaimIds == {c1, c2}
MCEvidenceIds == {e1, e2, e3}
MCFindingIds == {f1, f2}
MCIssuers == {i1, i2}
MCErrorClasses == {"correctness", "fitness", "typo"}

NoCoverage == [status |-> "absent", truncated |-> FALSE, omitted |-> 0]
Complete == [status |-> "complete", truncated |-> FALSE, omitted |-> 0]
Coverages == {NoCoverage, Complete, [Complete EXCEPT !.truncated = TRUE],
              [Complete EXCEPT !.omitted = 1], [Complete EXCEPT !.status = "partial"]}

Item(id, kind, covers, coverage) ==
    [id |-> id, kind |-> kind, covers |-> covers, coverage |-> coverage]

PlainContract(version, claims, overrides) ==
    [version |-> version, claims |-> claims,
     required |-> [c \in ClaimIds |-> NoKind], absence |-> {},
     overrides |-> overrides, issuers |-> {i1}]

Result(claim, outcome, evidence, findings) ==
    [claim |-> claim, outcome |-> outcome, evidence |-> evidence, findings |-> findings]
-----------------------------------------------------------------------------
\* Findings, waivers and overrides.
FindingsNamed(id, severities, reproductions) ==
    [id: {id}, class: ErrorClasses, severity: severities,
     reproduction: reproductions, absence: {FALSE},
     evidence: {{Item(e2, "note", {}, NoCoverage)}}]
    \cup
    [id: {id}, class: {"correctness", "fitness"}, severity: severities,
     reproduction: {"reproduced"}, absence: {TRUE},
     evidence: {{Item(e2, "note", {}, Complete)},
                {Item(e2, "note", {}, [Complete EXCEPT !.omitted = 1])}}]

First == FindingsNamed(f1, {"high", "low"}, {"reproduced", "not_attempted"})
Second == {f \in FindingsNamed(f2, {"high"}, {"reproduced", "unreproduced"}) :
              ~f.absence /\ f.class # "typo"}

FindingLists == {<<>>} \cup {<<f>> : f \in First} \cup {<<f, g>> : f \in First, g \in Second}

Waiver(finding, issuer, expires) ==
    [finding |-> finding, issuer |-> issuer, issued |-> 0, expires |-> expires]

WaiverLists ==
    {<<>>, <<Waiver(f1, i1, 2)>>, <<Waiver(f1, i1, 1)>>, <<Waiver(f1, i2, 2)>>,
     <<Waiver(f2, i1, 2)>>, <<Waiver(f2, i1, 2), Waiver(f1, i1, 2)>>,
     <<Waiver(f1, i1, 2), Waiver(f1, i1, 3)>>}

Over(class, effect) == [class |-> class, effect |-> effect]

OverrideLists ==
    {<<>>, <<Over("correctness", "advisory"), Over("correctness", "fail")>>,
     <<Over("correctness", "none"), Over("typo", "none")>>,
     <<Over("fitness", "fail"), Over("fitness", "advisory")>>}

OneClaimResults ==
    {Result(c1, "supported", {Item(e1, "note", {c1}, NoCoverage)}, {}),
     Result(c1, "refuted", {Item(e1, "note", {c1}, NoCoverage)}, {f1}),
     Result(c1, "refuted", {Item(e1, "note", {c1}, NoCoverage)}, {}),
     Result(c1, "not_evaluated", {}, {f2})}

FindingInputs ==
    {[contract |-> PlainContract("0.7.0", {c1}, overrides),
      output |-> [version |-> "0.7.0", results |-> <<result>>, findings |-> findings,
                  waivers |-> waivers],
      probes |-> <<>>] :
        overrides \in OverrideLists, result \in OneClaimResults,
        findings \in FindingLists, waivers \in WaiverLists}
    \cup
    {[contract |-> PlainContract("0.7.0", {c1}, <<>>),
      output |-> [version |-> "0.7.0", results |-> <<result>>, findings |-> <<f>>,
                  waivers |-> <<>>],
      probes |-> <<[f EXCEPT !.id = id]>>] :
        result \in OneClaimResults, f \in First, id \in {f1, f2}}
-----------------------------------------------------------------------------
\* Evidence of claim c1 under every requirement; c2 is left alone.
Items(ids) == [id: ids, kind: Kinds, covers: {{c1}, {c2}},
               coverage: {NoCoverage, Complete, [Complete EXCEPT !.truncated = TRUE]}]

EvidenceSets ==
    {{a} : a \in Items({e1})}
    \cup {{Item(e1, k, {c1}, Complete)} \cup {b} : k \in {"note", "command"}, b \in Items({e1, e3})}

Demanding(version, required, absence) ==
    [PlainContract(version, {c1, c2}, <<>>) EXCEPT
        !.required = [c \in ClaimIds |-> IF c = c1 THEN required ELSE NoKind],
        !.absence = absence]

EvidenceInputs ==
    {[contract |-> contract0,
      output |-> [version |-> "0.7.0",
                  results |-> <<Result(c2, "supported", {Item(e2, "note", {c2}, NoCoverage)}, {}),
                                Result(c1, outcome, evidence, {})>>,
                  findings |-> <<>>, waivers |-> <<>>],
      probes |-> <<>>] :
        contract0 \in {Demanding("0.7.0", required, absence) :
                          required \in Kinds \cup {NoKind}, absence \in {{}, {c1}}},
        outcome \in {"supported", "inconclusive"},
        evidence \in EvidenceSets}

\* Legacy contracts and outputs, and results that do not cover the contract.
LegacyInputs ==
    {[contract |-> PlainContract(version, claims, <<>>),
      output |-> [version |-> outputVersion,
                  results |-> [k \in 1 .. n |->
                      Result(c1, "supported",
                             {Item(e1, "note", {}, NoCoverage)}, {})],
                  findings |-> <<>>, waivers |-> <<>>],
      probes |-> <<>>] :
        version \in {"0.3.0", "0.6.0", "0.7.0"}, claims \in {{c1}, {c1, c2}},
        outputVersion \in {"0.3.0", "0.7.0"}, n \in 1 .. 2}

MCInputs == FindingInputs \cup EvidenceInputs \cup LegacyInputs
=============================================================================
