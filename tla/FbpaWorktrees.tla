---------------------------- MODULE FbpaWorktrees ----------------------------
(***************************************************************************)
(* The temporary directories and worktrees of run_fbpa                     *)
(* (validity_audit/fbpa.py): what it makes before the probe, what the      *)
(* probe's tests may do to it, and the clean-up, no step of which checks   *)
(* whether it succeeded.  A worktree is a directory below the temporary    *)
(* directory of its side, and an entry in the user's repository.           *)
(***************************************************************************)

VARIABLES
    phase, side,   \* what is done, and the side it is done for
    parents,     \* temporary directories
    disk,        \* of each worktree: "whole", its "remains" without .git, or "none"
    registered,  \* worktrees the repository lists
    held,        \* base_wt and head_wt where they are not None
    hooked,      \* worktrees whose post-checkout hook failed
    stuck,       \* worktrees, and directories beside them, that rmtree cannot empty
    spoiled,     \* worktrees with a .git file that leads nowhere, or none: git will
                 \* not remove them
    gitFails,    \* whether git fails on the repository by then
    cut,         \* whether the clean-up itself was interrupted
    raised

fixtures == <<hooked, stuck, spoiled, gitFails>>
worktreeVars == <<phase, side, parents, disk, registered, held, fixtures, cut, raised>>

TreeSides == {"base", "head"}
TempDirs == TreeSides \cup {"aux"}

\* Something that cannot be removed lies in a worktree, or beside it.
Resisting == [inTree: SUBSET TreeSides, beside: SUBSET TempDirs]

WorktreesInit ==
    /\ phase = "mkdtemp" /\ side = "base"
    /\ parents = {} /\ disk = [s \in TreeSides |-> "none"] /\ registered = {} /\ held = {}
    /\ hooked = {} /\ stuck = [inTree |-> {}, beside |-> {}] /\ spoiled = {}
    /\ gitFails = FALSE /\ cut = FALSE /\ raised = FALSE
-----------------------------------------------------------------------------
(* Up to the finally clause *)

\* One directory after the other, before the try: of those made before one that
\* fails none is removed.
MakeDir ==
    /\ phase = "mkdtemp"
    /\ \/ /\ parents' = parents \cup {side}
          /\ side' = CASE side = "base" -> "head" [] side = "head" -> "aux" [] side = "aux" -> "base"
          /\ phase' = IF side = "aux" THEN "resolve" ELSE "mkdtemp"
          /\ UNCHANGED raised
       \/ phase' = "unmade" /\ raised' = TRUE /\ UNCHANGED <<parents, side>>
    /\ UNCHANGED <<disk, registered, held, fixtures, cut>>

\* The finally clause, for the first worktree held if there is one.
CleanUp(holding) ==
    /\ phase' = IF holding = {} THEN "parents" ELSE "remove"
    /\ side' = "base"

ResolveCommits ==
    /\ phase = "resolve"
    /\ \/ phase' = "add" /\ UNCHANGED <<side, raised>>
       \/ CleanUp(held) /\ raised' = TRUE
    /\ UNCHANGED <<parents, disk, registered, held, fixtures, cut>>

\* git fails before it adds the worktree, or in the hook after it did.
AddWorktree ==
    /\ phase = "add"
    /\ \/ /\ disk' = [disk EXCEPT ![side] = "whole"]
          /\ registered' = registered \cup {side} /\ held' = held \cup {side}
          /\ phase' = IF side = "base" THEN "add" ELSE "probe"
          /\ side' = "head"
          /\ UNCHANGED <<hooked, raised>>
       \/ /\ CleanUp(held) /\ raised' = TRUE
          /\ UNCHANGED <<disk, registered, held, hooked>>
       \/ /\ disk' = [disk EXCEPT ![side] = "whole"]
          /\ registered' = registered \cup {side} /\ hooked' = hooked \cup {side}
          /\ CleanUp(held) /\ raised' = TRUE
          /\ UNCHANGED held
    /\ UNCHANGED <<parents, stuck, spoiled, gitFails, cut>>

\* From the overlay to the last claim: it returns, or anything raises, and the
\* tests leave what they like, a process that goes on writing included.
Probe ==
    /\ phase = "probe"
    /\ stuck' \in Resisting /\ spoiled' \in SUBSET held /\ gitFails' \in BOOLEAN
    /\ \E bare \in SUBSET spoiled' :
          disk' = [s \in TreeSides |-> IF s \in bare THEN "remains" ELSE disk[s]]
    /\ raised' \in BOOLEAN
    /\ CleanUp(held)
    /\ UNCHANGED <<parents, registered, held, hooked, cut>>
-----------------------------------------------------------------------------
(* _remove_worktree, for base and then for head *)

\* What can be left of a worktree that is removed as far as possible: whether its
\* .git file goes depends on where the thing that resists lies.
Removed(s) ==
    IF disk[s] = "none" \/ s \notin stuck.inTree THEN {"none"}
    ELSE {"remains", disk[s]}

RemoveWhatGoes(s) == \E left \in Removed(s) : disk' = [disk EXCEPT ![s] = left]

\* Mutant: check=True, so that a refused removal ends the clean-up.
GitRemoveChecked ==
    /\ phase = "remove"
    /\ IF gitFails \/ side \in spoiled
       THEN phase' = "ended" /\ raised' = TRUE /\ UNCHANGED <<disk, registered>>
       ELSE /\ registered' = registered \ {side}
            /\ RemoveWhatGoes(side)
            /\ phase' = "prune" /\ UNCHANGED raised
    /\ UNCHANGED <<side, parents, held, fixtures, cut>>

\* git takes the worktree off its list even if some of it cannot be deleted.
GitRemove ==
    /\ phase = "remove"
    /\ IF gitFails \/ side \in spoiled THEN UNCHANGED <<disk, registered>>
       ELSE /\ registered' = registered \ {side}
            /\ RemoveWhatGoes(side)
    /\ phase' = "prune"
    /\ UNCHANGED <<side, parents, held, fixtures, cut, raised>>

\* A worktree whose .git file is still there is spared.
GitPrune ==
    /\ phase = "prune"
    /\ registered' = IF gitFails THEN registered
                     ELSE {s \in registered : disk[s] = "whole"}
    /\ phase' = "rmtree"
    /\ UNCHANGED <<side, parents, disk, held, fixtures, cut, raised>>

RemoveTree ==
    /\ phase = "rmtree"
    /\ RemoveWhatGoes(side)
    /\ IF side = "base" /\ "head" \in held
       THEN phase' = "remove" /\ side' = "head"
       ELSE phase' = "parents" /\ side' = "base"
    /\ UNCHANGED <<parents, registered, held, fixtures, cut, raised>>

\* With the directory of a side goes a worktree that was not held.
RemoveParent ==
    /\ phase = "parents"
    /\ IF side = "aux" THEN UNCHANGED disk ELSE RemoveWhatGoes(side)
    /\ parents' = IF side \in stuck.beside \cup stuck.inTree THEN parents ELSE parents \ {side}
    /\ side' = CASE side = "base" -> "head" [] side = "head" -> "aux" [] side = "aux" -> "aux"
    /\ phase' = IF side = "aux" THEN "ended" ELSE "parents"
    /\ UNCHANGED <<registered, held, fixtures, cut, raised>>

\* A second interrupt leaves the rest of the finally clause undone.
Interrupt ==
    /\ phase \in {"remove", "prune", "rmtree", "parents"}
    /\ phase' = "ended" /\ cut' = TRUE /\ raised' = TRUE
    /\ UNCHANGED <<side, parents, disk, registered, held, fixtures>>

WorktreesNext ==
    \/ MakeDir \/ ResolveCommits \/ AddWorktree \/ Probe
    \/ GitRemove \/ GitPrune \/ RemoveTree \/ RemoveParent \/ Interrupt

WorktreesSpec == WorktreesInit /\ [][WorktreesNext]_worktreeVars
-----------------------------------------------------------------------------
(* Properties *)

\* However the probe ends and whichever steps of the clean-up fail, nothing of it
\* stays but what by itself resists: a directory with something rmtree cannot
\* remove, and an entry for a worktree whose hook failed (base_wt is not set by
\* then) or that git will not remove.  The first of two that git will not remove
\* is pruned with the second, unless its .git file is still there; the second is
\* pruned too soon, before its directory goes.
OnlyWhatResistsStays ==
    phase = "ended" /\ ~cut =>
        /\ \A s \in TreeSides : disk[s] # "none" => s \in stuck.inTree
        /\ parents \subseteq stuck.beside \cup stuck.inTree
        /\ \A s \in registered :
              \/ gitFails \/ s \in hooked
              \/ s \in spoiled /\ (s = "head" \/ s \in stuck.inTree)
=============================================================================
