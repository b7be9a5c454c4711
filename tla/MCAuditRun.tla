----------------------------- MODULE MCAuditRun -----------------------------
(***************************************************************************)
(* A review content for each judgement the runs need.                      *)
(***************************************************************************)
EXTENDS AuditRun, TLC

CONSTANTS good, bad, refused

MCVerdict == [r \in Reviews |-> CASE r = good -> "pass" [] r = bad -> "fail"
                                  [] r = refused -> "refused"]

\* Operators, directories and contents that no judgement tells apart are interchangeable.
Interchange ==
    Permutations(Operators) \cup Permutations(RunDirs)
    \cup Permutations(Contracts) \cup Permutations(Artifacts)
    \cup Permutations(Transcripts)
=============================================================================
