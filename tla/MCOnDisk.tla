------------------------------ MODULE MCOnDisk ------------------------------
(***************************************************************************)
(* What the tools read from the disk and leave on it, one part at a time:  *)
(* every project of MCAttribution, every pair of commits of MCTrees, the   *)
(* worktrees, the miss ledger and the results of the history driver.       *)
(* While one part runs the others stay at a start of theirs that asks      *)
(* nothing.                                                                *)
(***************************************************************************)
EXTENDS MCAttribution, MCTrees, FbpaWorktrees, MissLedger, HistoryDriver

CONSTANTS u, v, style, logic

Record(id, category, severity) == [id |-> id, category |-> category, severity |-> severity]
MCRecords ==
    {Record(1, style, 3), Record(1, logic, 1), Record(2, style, 1), Record(3, style, 3),
     Record(3, logic, 0)}

NoProject == Project(Absent, Absent, NoTest, {})
NoTree == [p \in Paths |-> Missing]
NoQuestion == Start(NoProject) /\ TreesStart(NoTree, NoTree)

OnDiskInit ==
    /\ WorktreesInit /\ LedgerInit /\ HistoryInit
    /\ \/ AttributionInit /\ TreesStart(NoTree, NoTree)
       \/ Start(NoProject) /\ TreesInit

OnDiskNext ==
    \/ /\ WorktreesInit /\ LedgerInit /\ HistoryInit
       /\ \/ Next /\ UNCHANGED treeVars
          \/ project = NoProject /\ TreesNext /\ UNCHANGED vars
       /\ UNCHANGED <<worktreeVars, ledgerVars, historyVars>>
    \/ /\ NoQuestion /\ UNCHANGED <<vars, treeVars>>
       /\ \/ LedgerInit /\ HistoryInit /\ WorktreesNext /\ UNCHANGED <<ledgerVars, historyVars>>
          \/ WorktreesInit /\ HistoryInit /\ LedgerNext /\ UNCHANGED <<worktreeVars, historyVars>>
          \/ WorktreesInit /\ LedgerInit /\ HistoryNext /\ UNCHANGED <<worktreeVars, ledgerVars>>

OnDiskSpec == OnDiskInit /\ [][OnDiskNext]_<<vars, treeVars, worktreeVars, ledgerVars, historyVars>>
=============================================================================
