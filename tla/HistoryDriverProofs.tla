------------------------ MODULE HistoryDriverProofs ------------------------
(***************************************************************************)
(* Proofs about HistoryDriver for any number of pull requests.             *)
(***************************************************************************)
EXTENDS HistoryDriver, TLAPS

InRun == {"loop", "clone", "write", "writing", "close", "ended"}

TypeInv ==
    /\ results \in [Prs -> {"missing", "partial", "whole"}]
    /\ unsynced \subseteq Prs /\ damaged \subseteq Prs
    /\ doing \in {"nothing"} \cup InRun
    /\ doing \in InRun => job \in Jobs
    /\ pr \in Nat \ {0}
    /\ doing \in {"clone", "write", "writing"} => pr <= LastPr

\* A result is replaced only if that was asked for; one cut short is known.
ResultInv ==
    /\ doing \in {"clone", "write"} => job.force \/ results[pr] = "missing"
    /\ \A p \in Prs : results[p] = "partial" =>
          p \in damaged \/ (doing = "writing" /\ pr = p)

\* Every pull request the run has passed is done.
ProgressInv ==
    /\ doing \in InRun /\ exitCode = 0 =>
          \A p \in job.wanted : p < pr => results[p] = "whole" \/ p \in damaged
    /\ doing \in {"close", "ended"} /\ exitCode = 0 => pr > LastPr

\* The only clone nobody need excuse is the one at work.
CloneInv ==
    \A c \in clones : c[1] \in excused \/ (doing = "clone" /\ c = Clone)

HistoryInv == TypeInv /\ ResultInv /\ ProgressInv /\ CloneInv

LEMMA InvInit == HistoryInit => HistoryInv
BY PrAssumption DEF HistoryInit, HistoryInv, TypeInv, ResultInv, ProgressInv, CloneInv, InRun, Prs

LEMMA InvNext == HistoryInv /\ [HistoryNext]_historyVars => HistoryInv'
<1> SUFFICES ASSUME HistoryInv, [HistoryNext]_historyVars PROVE HistoryInv'
  OBVIOUS
<1> USE PrAssumption DEF HistoryInv, TypeInv, ResultInv, ProgressInv, CloneInv, InRun, Prs, Jobs, Clone
<1>1. ASSUME NEW arguments \in Jobs, StartRun(arguments) PROVE HistoryInv'
  BY <1>1 DEF StartRun
<1>2. ASSUME Skip PROVE HistoryInv'
  BY <1>2 DEF Skip, Wanted
<1>3. ASSUME MakeClone PROVE HistoryInv'
  BY <1>3 DEF MakeClone, Wanted
<1>4. ASSUME ProbeMerge PROVE HistoryInv'
  BY <1>4 DEF ProbeMerge
<1>5. ASSUME OpenResult PROVE HistoryInv'
  BY <1>5 DEF OpenResult
<1>6. ASSUME WriteResult PROVE HistoryInv'
  BY <1>6 DEF WriteResult
<1>7. ASSUME WriteResultFails PROVE HistoryInv'
  BY <1>7 DEF WriteResultFails
<1>8. ASSUME NEW code \in {1, Unset}, CloneFails(code) PROVE HistoryInv'
  BY <1>8 DEF CloneFails
<1>9. ASSUME NEW code \in {1, Unset}, ProbeRaises(code) PROVE HistoryInv'
  BY <1>9 DEF ProbeRaises
<1>10. ASSUME InterruptRun PROVE HistoryInv'
  BY <1>10 DEF InterruptRun
<1>11. ASSUME EndLoop PROVE HistoryInv'
  BY <1>11 DEF EndLoop
<1>12. ASSUME Close PROVE HistoryInv'
  BY <1>12 DEF Close
<1>13. ASSUME Again PROVE HistoryInv'
  BY <1>13 DEF Again
<1>14. ASSUME Kill PROVE HistoryInv'
  BY <1>14 DEF Kill, Stop, Running
<1>15. ASSUME WriteBack PROVE HistoryInv'
  BY <1>15 DEF WriteBack
<1>16. ASSUME NEW lost \in [Prs -> {"missing", "partial", "whole"}], CrashHistory(lost)
       PROVE  HistoryInv'
  BY <1>16 DEF CrashHistory, Stop
<1>17. ASSUME UNCHANGED historyVars PROVE HistoryInv'
  BY <1>17 DEF historyVars
<1> QED BY <1>1, <1>2, <1>3, <1>4, <1>5, <1>6, <1>7, <1>8, <1>9, <1>10, <1>11, <1>12,
           <1>13, <1>14, <1>15, <1>16, <1>17 DEF HistoryNext

LEMMA InvHolds == HistorySpec => []HistoryInv
BY InvInit, InvNext, PTL DEF HistorySpec

\* A run of run.py that exits with 0 leaves a whole result for every pull request
\* it was asked for, unless one was cut short earlier and taken as done.
THEOREM SuccessIsMeasured == HistorySpec => []SuccessMeansMeasured
<1>1. ASSUME HistoryInv PROVE SuccessMeansMeasured
  <2> SUFFICES ASSUME doing = "ended", exitCode = 0, NEW p \in job.wanted
               PROVE  results[p] = "whole" \/ p \in damaged
    BY DEF SuccessMeansMeasured
  <2>1. job \in Jobs /\ pr > LastPr /\ pr \in Nat
    BY <1>1 DEF HistoryInv, TypeInv, ProgressInv, InRun
  <2>2. p \in 1 .. LastPr
    BY <2>1 DEF Jobs, Prs
  <2>3. p < pr
    BY <2>1, <2>2, PrAssumption
  <2> QED BY <1>1, <2>3 DEF HistoryInv, ProgressInv, InRun
<1> QED BY <1>1, InvHolds, PTL

\* Between runs every clone that is left is that of a killed run or of a git
\* clone that failed.
THEOREM ClonesAreAlwaysRemoved == HistorySpec => []ClonesAreRemoved
<1>1. HistoryInv => ClonesAreRemoved
  BY DEF HistoryInv, CloneInv, ClonesAreRemoved, Running
<1> QED BY <1>1, InvHolds, PTL

\* No step of a run, an interrupt or a kill spoils a finished result, except the
\* one that replaces it on demand; a crash spoils unsynced results only.
THEOREM CompletedWorkIsAlwaysKept == HistorySpec => CompletedWorkIsKept
<1> DEFINE Kept ==
             \A p \in Prs : results[p] = "whole" /\ results'[p] # "whole" =>
                \/ doing = "write" /\ pr = p /\ job.force
                \/ p \in unsynced /\ doing' = "nothing"
<1>1. ASSUME HistoryInv, [HistoryNext]_historyVars PROVE Kept
  <2> SUFFICES ASSUME NEW p \in Prs, results[p] = "whole", results'[p] # "whole"
               PROVE  \/ doing = "write" /\ pr = p /\ job.force
                      \/ p \in unsynced /\ doing' = "nothing"
    OBVIOUS
  <2>1. CASE OpenResult
    BY <1>1, <2>1 DEF HistoryInv, TypeInv, ResultInv, OpenResult, Prs
  <2>2. CASE WriteResult
    BY <1>1, <2>2 DEF HistoryInv, TypeInv, WriteResult, Prs
  <2>3. ASSUME NEW lost \in [Prs -> {"missing", "partial", "whole"}], CrashHistory(lost)
        PROVE  p \in unsynced /\ doing' = "nothing"
    BY <2>3 DEF CrashHistory, Stop
  <2>4. CASE results' = results
    BY <2>4
  <2>5. \/ OpenResult \/ WriteResult \/ results' = results
        \/ \E lost \in [Prs -> {"missing", "partial", "whole"}] : CrashHistory(lost)
    BY <1>1 DEF HistoryNext, historyVars, StartRun, Skip, MakeClone, ProbeMerge, WriteResultFails,
       CloneFails, ProbeRaises, InterruptRun, EndLoop, Close, Again, Kill, WriteBack
  <2> QED BY <2>1, <2>2, <2>3, <2>4, <2>5
<1>2. HistoryInv /\ [HistoryNext]_historyVars => [Kept]_historyVars
  BY <1>1
<1> QED BY <1>2, InvHolds, PTL DEF HistorySpec, CompletedWorkIsKept
=============================================================================
