------------------------------ MODULE FbpaTrees ------------------------------
(***************************************************************************)
(* What run_fbpa (validity_audit/fbpa.py) makes of the two commits before  *)
(* it runs a test: the base worktree gets head's test files, the changed   *)
(* files outside test_paths are counted, and the changed tests are found.  *)
(*                                                                         *)
(* A tree gives every path a file, a symbolic link to another path, or     *)
(* nothing.  Text is known by what is read of it: Ast, Missing when it cannot *)
(* be parsed, and Defs, the test functions pytest would collect.           *)
(***************************************************************************)
EXTENDS FiniteSets, Functions

CONSTANTS
    Paths,
    TestPaths,      \* paths that match test_paths
    TestFiles,      \* those that pytest collects
    PyPaths,        \* paths with the suffix .py
    Quoted,         \* paths git prints quoted (core.quotePath), as with an accent
    Under,          \* <<f, p>>: p lies below f, which p needs to be a directory
    DetectRenames,  \* diff.renames, on unless configured
    Contents, Ast, Defs,
    Alike,          \* pairs of contents similar enough for a rename with changes
    Claimed,        \* node ids <<path, test>> the contract claims
    Missing         \* None of the code: no file, no text, no syntax tree

ASSUME TreeAssumption ==
    /\ TestFiles \subseteq TestPaths /\ TestPaths \subseteq Paths
    /\ PyPaths \subseteq Paths /\ Quoted \subseteq Paths
    /\ Under \subseteq Paths \X Paths /\ DetectRenames \in BOOLEAN
    /\ Missing \notin Contents \cup Paths
    /\ IsFiniteSet(Paths)
    /\ \A x \in Contents \cup Paths, link \in BOOLEAN : Missing # [link |-> link, is |-> x]

VARIABLES
    base, head,     \* the two commits
    wt,             \* the base worktree; head's stays as it was checked out
    todo,           \* test files of head still to be copied
    step,
    nonTestDiff, discovered, skipped

treeVars == <<base, head, wt, todo, step, nonTestDiff, discovered, skipped>>

File(content) == [link |-> FALSE, is |-> content]
Link(path) == [link |-> TRUE, is |-> path]

Trees == [Paths -> {Missing} \cup {File(c) : c \in Contents} \cup {Link(p) : p \in Paths}]

\* What opening a path reads: links lead to files, or nowhere.
Read(tree, p) ==
    IF tree[p] = Missing THEN Missing
    ELSE IF ~tree[p].link THEN tree[p].is
    ELSE LET entry == tree[tree[p].is]
         IN  IF entry = Missing \/ entry.link THEN Missing ELSE entry.is

\* No file where another path needs a directory.
WellFormed(tree) == \A pair \in Under : tree[pair[1]] = Missing \/ tree[pair[2]] = Missing

PathsOf(tree) == {p \in Paths : tree[p] # Missing}

TreesStart(b, h) ==
    /\ base = b /\ head = h /\ wt = b
    /\ todo = PathsOf(h) \cap TestPaths
    /\ step = "overlay"
    /\ nonTestDiff = Missing /\ discovered = Missing /\ skipped = Missing
-----------------------------------------------------------------------------
(* _overlay_test_files; the order of the paths makes no difference. *)

Broken(p) == head[p].link /\ Read(head, p) = Missing

\* Creating the parents, or removing what is at the path, meets the other kind.
Blocked(p) ==
    \E pair \in Under : \/ pair[2] = p /\ wt[pair[1]] # Missing
                        \/ pair[1] = p /\ wt[pair[2]] # Missing

\* Mutant: writes to the path without removing what is there, through a link.
OverlayThrough(p) ==
    /\ step = "overlay" /\ p \in todo /\ ~Broken(p) /\ ~Blocked(p)
    /\ LET written == IF wt[p] # Missing THEN IF wt[p].link THEN wt[p].is ELSE p ELSE p
       IN  wt' = [wt EXCEPT ![written] = File(Read(head, p))]
    /\ todo' = todo \ {p}
    /\ UNCHANGED <<base, head, step, nonTestDiff, discovered, skipped>>

Overlay(p) ==
    /\ step = "overlay" /\ p \in todo /\ ~Broken(p) /\ ~Blocked(p)
    /\ wt' = [wt EXCEPT ![p] = File(Read(head, p))]
    /\ todo' = todo \ {p}
    /\ UNCHANGED <<base, head, step, nonTestDiff, discovered, skipped>>

\* A broken link and a copy that fails are FbpaErrors, a blocked path an OSError;
\* the worktree is then thrown away.
OverlayRaises(p) ==
    /\ step = "overlay" /\ p \in todo
    /\ step' = IF Blocked(p) /\ ~Broken(p) THEN "OSError" ELSE "FbpaError"
    /\ UNCHANGED <<base, head, wt, todo, nonTestDiff, discovered, skipped>>

DeleteStale ==
    /\ step = "overlay" /\ todo = {}
    /\ wt' = [p \in Paths |-> IF p \in TestPaths /\ head[p] = Missing THEN Missing ELSE wt[p]]
    /\ step' = "count"
    /\ UNCHANGED <<base, head, todo, nonTestDiff, discovered, skipped>>
-----------------------------------------------------------------------------
(* _non_test_diff_count *)

Changed == {p \in Paths : base[p] # head[p]}

\* git takes a deleted file and an added one of the same content, or failing that
\* of similar content, for one that was renamed.
Same(p, q) == base[p] = head[q]
Similar(p, q) == ~base[p].link /\ ~head[q].link /\ <<base[p].is, head[q].is>> \in Alike

Added == PathsOf(head) \ PathsOf(base)
Deleted == PathsOf(base) \ PathsOf(head)

Renames ==
    {r \in [Added -> Deleted \cup {Missing}] :
        \A q \in Added :
            LET same == {p \in Deleted : DetectRenames /\ Same(p, q)}
                similar == {p \in Deleted : DetectRenames /\ Similar(p, q)}
            IN  IF same # {} THEN r[q] \in same ELSE r[q] \in similar \cup {Missing}}

\* _ast_dump_at: Missing for a missing or unreadable file.  Of a link git shows
\* the name it leads to, which is the layout of no other text.
AstAt(tree, p) ==
    IF tree[p] = Missing THEN Missing ELSE IF tree[p].link THEN Missing ELSE Ast[tree[p].is]

\* Mutant: two texts that cannot be parsed pass for equal.
CosmeticOrUnparsed(p) == p \in PyPaths \ Quoted /\ AstAt(base, p) = AstAt(head, p)

Cosmetic(p) ==
    /\ p \in PyPaths \ Quoted
    /\ AstAt(base, p) # Missing /\ AstAt(base, p) = AstAt(head, p)

\* Of a rename the new name is listed only.  A quoted name matches no pattern and
\* has no suffix.
CountNonTest ==
    /\ step = "count"
    /\ \E renames \in Renames :
          LET listed == Changed \ Range(renames)
              counted(p) == p \notin TestPaths \ Quoted /\ ~Cosmetic(p)
          IN  nonTestDiff' = Cardinality({p \in listed : counted(p)})
    /\ step' = "discover"
    /\ UNCHANGED <<base, head, wt, todo, discovered, skipped>>
-----------------------------------------------------------------------------
(* _discover_claims *)

Unparsed(c) == c = Missing \/ Ast[c] = Missing

TestsOf(c) == IF Unparsed(c) THEN <<>> ELSE Defs[c]

\* Mutant: base's text from the worktree, which has head's test files by now.
BaseTestsOfWorktree(p) == TestsOf(Read(wt, p))

\* git show of the base commit; of a link it shows the name it leads to.
BaseTests(p) ==
    IF base[p] = Missing THEN <<>>
    ELSE IF base[p].link THEN <<>> ELSE TestsOf(base[p].is)

Discover ==
    /\ step = "discover"
    /\ LET files == PathsOf(head) \cap TestFiles
           changed(p) ==
               LET before == BaseTests(p)
                   after == TestsOf(Read(head, p))
               IN  {t \in DOMAIN after : t \notin DOMAIN before \/ before[t] # after[t]}
       IN  /\ skipped' = {p \in files : Unparsed(Read(head, p))}
           /\ discovered' = (UNION {{p} \X changed(p) : p \in files}) \ Claimed
    /\ step' = "done"
    /\ UNCHANGED <<base, head, wt, todo, nonTestDiff>>

TreesNext ==
    \/ \E p \in Paths : Overlay(p) \/ OverlayRaises(p)
    \/ DeleteStale \/ CountNonTest \/ Discover

\* Any two commits.
Commit == {tree \in Trees : WellFormed(tree)}

TreesOfAny == \E b, h \in Commit : TreesStart(b, h)

TreesSpecOfAny == TreesOfAny /\ [][TreesNext]_treeVars
-----------------------------------------------------------------------------
(* Properties *)

Overlaid == step \in {"count", "discover", "done"}

\* Head's tests run on base: once the overlay is over the base worktree has
\* exactly the test files of head, and every other file, also one that a test
\* file linked to, is base's (specification, section 1.2).
OverlayIsExact ==
    Overlaid =>
        \A p \in Paths :
            IF p \in TestPaths
            THEN /\ Read(wt, p) = Read(head, p)
                 /\ wt[p] = Missing <=> head[p] = Missing
            ELSE wt[p] = base[p]

LayoutOnly(p) ==
    /\ p \in PyPaths
    /\ \A tree \in {base, head} :
          tree[p] # Missing /\ ~tree[p].link /\ ~Unparsed(tree[p].is)
    /\ Ast[base[p].is] = Ast[head[p].is]

\* Gone, with a file of the same or similar content added to the tests.
MovedToTests(p) ==
    /\ DetectRenames /\ p \in Deleted
    /\ \E q \in Added \cap TestPaths : Same(p, q) \/ Similar(p, q)

\* That a difference with no implementation change demonstrates nothing (section
\* 1.2) rests on non_test_diff_count.  If it is zero every file outside the tests
\* is as it was but for comments and layout, or may have been moved into the
\* tests; if it is not, one of them did change, or a name that git quotes.
CountIsExact ==
    nonTestDiff # Missing =>
        /\ nonTestDiff = 0 =>
              \A p \in Paths \ TestPaths :
                  base[p] = head[p] \/ LayoutOnly(p) \/ MovedToTests(p)
        /\ nonTestDiff # 0 =>
              \E p \in Changed : p \in Quoted \/ (p \notin TestPaths /\ ~LayoutOnly(p))

\* What the specification says: the count is zero exactly if nothing outside the
\* tests changed but comments and layout of Python files (section 1.2).
NoImplementationChangeIsSeen ==
    nonTestDiff # Missing =>
        (nonTestDiff = 0 <=>
            \A p \in Paths \ TestPaths : base[p] = head[p] \/ LayoutOnly(p))

\* Auto-discovery claims a test exactly if the base commit has no test of that
\* name in the file or another body, although the worktree's file is head's by
\* then; a file it cannot read is listed, not dropped (section 1.3).  A test file
\* that is a link at base counts as new.
DiscoveryIsExact ==
    step = "done" =>
        \A p \in PathsOf(head) \cap TestFiles :
            IF Unparsed(Read(head, p)) THEN p \in skipped
            ELSE \A t \in DOMAIN Defs[Read(head, p)] :
                base[p] = Missing \/ ~base[p].link =>
                    (<<p, t>> \in discovered <=>
                        /\ <<p, t>> \notin Claimed
                        /\ \/ Unparsed(Read(base, p))
                           \/ t \notin DOMAIN Defs[Read(base, p)]
                           \/ Defs[Read(base, p)][t] # Defs[Read(head, p)][t])
=============================================================================
