------------------------- MODULE AttestationRecord -------------------------
(***************************************************************************)
(* What a run directory promises, without files, commands or crashes: its  *)
(* record is prepared once, on the evidence the workspace then holds and   *)
(* shown to the reviewer as it is bound, and attested at most once, only   *)
(* while the workspace still holds that evidence.  Nothing undoes either.  *)
(***************************************************************************)
CONSTANTS RunDirs, Statuses

VARIABLES
    contract, artifact,  \* the evidence the workspace holds
    record               \* run directory -> its record

vars == <<contract, artifact, record>>

Init == record = [d \in RunDirs |-> [phase |-> "none"]]

\* The workspace is edited.
Change == UNCHANGED record

Prepare(d) ==
    /\ record[d].phase = "none"
    /\ record' = [record EXCEPT ![d] =
          [phase |-> "prepared",
           bound |-> [contract |-> contract, artifact |-> artifact],
           shown |-> [contract |-> contract, artifact |-> artifact, probed |-> artifact],
           status |-> "none"]]
    /\ UNCHANGED <<contract, artifact>>

Attest(d) ==
    /\ record[d].phase = "prepared"
    /\ record[d].bound = [contract |-> contract, artifact |-> artifact]
    /\ \E status \in Statuses :
          record' = [record EXCEPT ![d].phase = "attested", ![d].status = status]
    /\ UNCHANGED <<contract, artifact>>

Next == Change \/ \E d \in RunDirs : Prepare(d) \/ Attest(d)

Spec == Init /\ [][Next]_vars
=============================================================================
