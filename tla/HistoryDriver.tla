---------------------------- MODULE HistoryDriver ----------------------------
(***************************************************************************)
(* The driver of the historical validation,                                *)
(* benchmarks/fbpa_history/run.py: it probes the pull requests of prs.txt  *)
(* in order, each in a clone of its own, and keeps one result file each,   *)
(* which a later run takes as done.                                        *)
(***************************************************************************)
EXTENDS Naturals

CONSTANTS
    LastPr,  \* the pull requests are 1 .. LastPr, in the order of prs.txt
    Unset

ASSUME PrAssumption == LastPr \in Nat /\ Unset \notin {0, 1}

Prs == 1..LastPr

VARIABLES
    results,    \* of each pull request: "missing", "partial" or "whole"
    unsynced,   \* results the machine may lose
    clones,     \* <<pull request, scratch directory>>; "left" once its run is over
    job,        \* arguments of the run: wanted, force, scratch
    doing,      \* where the run is
    pr,         \* pull request it is at
    exitCode,   \* Unset for a run that ends in an exception
    damaged,    \* results that a kill, a full disk or a crash cut short
    excused     \* clones of killed runs, and those git failed to make

historyVars ==
    <<results, unsynced, clones, job, doing, pr, exitCode, damaged, excused>>

Jobs == [wanted: SUBSET Prs, force: BOOLEAN, scratch: {"own", "given"}]

HistoryInit ==
    /\ results = [p \in Prs |-> "missing"] /\ unsynced = {} /\ clones = {}
    /\ job = Unset /\ doing = "nothing" /\ pr = 1 /\ exitCode = Unset
    /\ damaged = {} /\ excused = {}

Clone == <<pr, job.scratch>>
-----------------------------------------------------------------------------
(* main *)

StartRun(arguments) ==
    /\ doing = "nothing" /\ arguments.wanted # {}
    /\ job' = arguments /\ doing' = "loop" /\ pr' = 1 /\ exitCode' = 0
    /\ UNCHANGED <<results, unsynced, clones, damaged, excused>>

Wanted == pr \in job.wanted /\ (job.force \/ results[pr] = "missing")

Skip ==
    /\ doing = "loop" /\ pr <= LastPr /\ ~Wanted
    /\ pr' = pr + 1
    /\ UNCHANGED <<results, unsynced, clones, job, doing, exitCode, damaged, excused>>

\* Mutant: the file is emptied before the probe runs.
MakeCloneAndTruncate ==
    /\ doing = "loop" /\ pr <= LastPr /\ Wanted
    /\ clones' = clones \cup {Clone}
    /\ results' = [results EXCEPT ![pr] = "partial"]
    /\ unsynced' = unsynced \cup {pr}
    /\ doing' = "clone"
    /\ UNCHANGED <<job, pr, exitCode, damaged, excused>>

\* _fresh_clone: the directory is made before git clone can fail.
MakeClone ==
    /\ doing = "loop" /\ pr <= LastPr /\ Wanted
    /\ clones' = clones \cup {Clone}
    /\ doing' = "clone"
    /\ UNCHANGED <<results, unsynced, job, pr, exitCode, damaged, excused>>

CloneFails(code) ==
    /\ doing = "clone"
    /\ doing' = "close" /\ exitCode' = code
    /\ excused' = excused \cup {pr}
    /\ UNCHANGED <<results, unsynced, clones, job, pr, damaged>>

\* run_fbpa returns, and the clone is removed.
ProbeMerge ==
    /\ doing = "clone"
    /\ clones' = clones \ {Clone}
    /\ doing' = "write"
    /\ UNCHANGED <<results, unsynced, job, pr, exitCode, damaged, excused>>

\* Mutant: the failure of one pull request is passed over.
PassOver(code) ==
    /\ doing = "clone"
    /\ clones' = clones \ {Clone}
    /\ doing' = "loop" /\ pr' = pr + 1
    /\ UNCHANGED <<results, unsynced, job, exitCode, damaged, excused>>

\* Mutant: the clone is removed on success only.
ProbeRaisesKeepingClone(code) ==
    /\ doing = "clone"
    /\ doing' = "close" /\ exitCode' = code
    /\ UNCHANGED <<results, unsynced, clones, job, pr, damaged, excused>>

\* run_fbpa raises, an exception (exit 1) or an interrupt (Unset): the run stops.
ProbeRaises(code) ==
    /\ doing = "clone"
    /\ clones' = clones \ {Clone}
    /\ doing' = "close" /\ exitCode' = code
    /\ UNCHANGED <<results, unsynced, job, pr, damaged, excused>>

\* write_text empties the file, then writes it.
OpenResult ==
    /\ doing = "write"
    /\ results' = [results EXCEPT ![pr] = "partial"]
    /\ unsynced' = unsynced \cup {pr}
    /\ doing' = "writing"
    /\ UNCHANGED <<clones, job, pr, exitCode, damaged, excused>>

WriteResult ==
    /\ doing = "writing"
    /\ results' = [results EXCEPT ![pr] = "whole"]
    /\ damaged' = damaged \ {pr}
    /\ doing' = "loop" /\ pr' = pr + 1
    /\ UNCHANGED <<unsynced, clones, job, exitCode, excused>>

\* An interrupt between these steps.
InterruptRun ==
    /\ doing \in {"loop", "write"}
    /\ doing' = "close" /\ exitCode' = Unset
    /\ UNCHANGED <<results, unsynced, clones, job, pr, damaged, excused>>

\* A full disk or an interrupt: the exception leaves main through its finally.
WriteResultFails ==
    /\ doing = "writing"
    /\ damaged' = damaged \cup {pr}
    /\ doing' = "close" /\ exitCode' = Unset
    /\ UNCHANGED <<results, unsynced, clones, job, pr, excused>>

EndLoop ==
    /\ doing = "loop" /\ pr > LastPr
    /\ doing' = "close"
    /\ UNCHANGED <<results, unsynced, clones, job, pr, exitCode, damaged, excused>>

\* The scratch directory is removed if the run made it.
Close ==
    /\ doing = "close"
    /\ clones' = {<<c[1], "left">> : c \in {c \in clones : c[2] # "own"}}
    /\ doing' = "ended"
    /\ UNCHANGED <<results, unsynced, job, pr, exitCode, damaged, excused>>

\* The driver is run again.
Again ==
    /\ doing = "ended"
    /\ doing' = "nothing" /\ job' = Unset /\ pr' = 1 /\ exitCode' = Unset
    /\ UNCHANGED <<results, unsynced, clones, damaged, excused>>

Running == doing \notin {"nothing", "ended"}

Stop ==
    /\ doing' = "nothing" /\ job' = Unset /\ pr' = 1 /\ exitCode' = Unset
    /\ clones' = {<<c[1], "left">> : c \in clones}
    /\ excused' = excused \cup {c[1] : c \in clones}

\* The run is killed.
Kill ==
    /\ Running
    /\ Stop
    /\ damaged' = IF doing = "writing" THEN damaged \cup {pr} ELSE damaged
    /\ UNCHANGED <<results, unsynced>>

\* The machine stops; any result that was not synced may be cut short or gone.
CrashHistory(lost) ==
    /\ lost \in [Prs -> {"missing", "partial", "whole"}]
    /\ \A p \in Prs \ unsynced : lost[p] = results[p]
    /\ results' = lost /\ unsynced' = {}
    /\ damaged' = {p \in Prs : lost[p] = "partial"}
    /\ Stop

WriteBack ==
    /\ unsynced # {}
    /\ unsynced' = {}
    /\ UNCHANGED <<results, clones, job, doing, pr, exitCode, damaged, excused>>

HistoryNext ==
    \/ \E arguments \in Jobs : StartRun(arguments)
    \/ Skip \/ MakeClone \/ ProbeMerge \/ OpenResult \/ WriteResult \/ WriteResultFails
    \/ \E code \in {1, Unset} : CloneFails(code) \/ ProbeRaises(code)
    \/ InterruptRun \/ EndLoop \/ Close \/ Again \/ Kill \/ WriteBack
    \/ \E lost \in [Prs -> {"missing", "partial", "whole"}] : CrashHistory(lost)

HistorySpec == HistoryInit /\ [][HistoryNext]_historyVars
-----------------------------------------------------------------------------
(* Properties *)

\* A run that reports success has a whole result for every pull request it was
\* asked for, made by it or before, except where one was cut short and is taken
\* as done ("Resumable").
SuccessMeansMeasured ==
    doing = "ended" /\ exitCode = 0 =>
        \A p \in job.wanted : results[p] = "whole" \/ p \in damaged

\* A finished result is given up only when its replacement is at hand, in a run
\* forced to make one, or if the machine stops before it is synced ("a run
\* interrupted between PRs loses no completed work").
CompletedWorkIsKept ==
    [][\A p \in Prs : results[p] = "whole" /\ results'[p] # "whole" =>
          \/ doing = "write" /\ pr = p /\ job.force
          \/ p \in unsynced /\ doing' = "nothing"]_historyVars

\* The clone of a pull request is removed, success or failure; only a killed run
\* and a failed git clone leave one (_run_one makes the clone outside its try).
ClonesAreRemoved ==
    ~Running => \A c \in clones : c[1] \in excused
=============================================================================
