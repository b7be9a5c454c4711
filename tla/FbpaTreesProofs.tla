-------------------------- MODULE FbpaTreesProofs --------------------------
(***************************************************************************)
(* Proofs about FbpaTrees for any two commits: any set of paths, of links  *)
(* among them and of contents; and about FbpaWorktrees.                    *)
(***************************************************************************)
EXTENDS FbpaTrees, FbpaWorktrees, FiniteSetTheorems, TLAPS

\* A file is something.
LEMMA FileIsSomething == \A x \in Contents : File(x) # Missing
<1> SUFFICES ASSUME NEW x \in Contents PROVE File(x) # Missing
  OBVIOUS
<1>1. FALSE \in BOOLEAN
  OBVIOUS
<1> QED BY <1>1, TreeAssumption, Zenon DEF File

LEMMA EntryType ==
    ASSUME NEW tree \in Trees, NEW p \in Paths, tree[p] # Missing
    PROVE  IF tree[p].link THEN tree[p].is \in Paths ELSE tree[p].is \in Contents
<1>1. tree[p] \in {File(c) : c \in Contents} \cup {Link(q) : q \in Paths}
  BY DEF Trees
<1> QED BY <1>1 DEF File, Link

LEMMA ReadType ==
    ASSUME NEW tree \in Trees, NEW p \in Paths
    PROVE  Read(tree, p) \in Contents \cup {Missing}
<1>1. CASE tree[p] = Missing
  BY <1>1 DEF Read
<1>2. CASE tree[p] # Missing /\ ~tree[p].link
  BY <1>2, EntryType DEF Read
<1>3. CASE tree[p] # Missing /\ tree[p].link
  <2>1. tree[p].is \in Paths
    BY <1>3, EntryType
  <2>2. PICK q \in Paths : q = tree[p].is
    BY <2>1
  <2>3. tree[q] # Missing /\ ~tree[q].link => tree[q].is \in Contents
    BY EntryType
  <2> QED BY <1>3, <2>2, <2>3 DEF Read
<1> QED BY <1>1, <1>2, <1>3

\* What head has at a path is either to be copied still, or was copied.
Copied(p) == wt[p] = File(Read(head, p)) /\ Read(head, p) # Missing

\* The base worktree on its way from base's files to head's tests.
TreesInv ==
    /\ base \in Trees /\ head \in Trees /\ DOMAIN wt = Paths
    /\ todo \subseteq TestPaths
    /\ \A p \in Paths \ TestPaths : wt[p] = base[p]
    /\ \A p \in TestPaths \ todo : head[p] # Missing => Copied(p)
    /\ Overlaid =>
          /\ todo = {}
          /\ \A p \in TestPaths : head[p] = Missing => wt[p] = Missing

LEMMA InvInit == TreesOfAny => TreesInv
BY TreeAssumption DEF TreesOfAny, TreesStart, TreesInv, Commit, Trees, PathsOf, Overlaid

LEMMA InvOverlay ==
    ASSUME TreesInv, NEW p \in Paths, Overlay(p)
    PROVE  TreesInv'
<1> USE DEF TreesInv, Overlay
<1>1. p \in TestPaths /\ head[p] # Missing => Read(head, p) # Missing
  <2>1. p \in TestPaths
    OBVIOUS
  <2>2. ASSUME head[p] # Missing PROVE Read(head, p) # Missing
    <3>1. CASE head[p].link
      BY <3>1 DEF Broken
    <3>2. CASE ~head[p].link
      BY <2>2, <3>2, EntryType, TreeAssumption DEF Read
    <3> QED BY <3>1, <3>2
  <2> QED BY <2>1, <2>2
<1>2. wt' = [wt EXCEPT ![p] = File(Read(head, p))] /\ head' = head /\ base' = base
      /\ todo' = todo \ {p} /\ step' = step /\ step = "overlay"
  OBVIOUS
<1>3. ~Overlaid'
  BY <1>2 DEF Overlaid
<1>4. \A q \in TestPaths \ todo' : head'[q] # Missing => Copied(q)'
  <2> TAKE q \in TestPaths \ todo'
  <2> HAVE head'[q] # Missing
  <2>1. CASE q = p
    BY <1>1, <1>2, <2>1 DEF Copied, Read
  <2>2. CASE q # p
    BY <1>2, <2>2, TreeAssumption DEF Copied, Read
  <2> QED BY <2>1, <2>2
<1> QED BY <1>1, <1>2, <1>3, <1>4

LEMMA InvDeleteStale == TreesInv /\ DeleteStale => TreesInv'
<1> SUFFICES ASSUME TreesInv, DeleteStale PROVE TreesInv'
  OBVIOUS
<1> USE DEF TreesInv, DeleteStale
<1>1. \A p \in TestPaths : head[p] # Missing => Copied(p)'
  BY TreeAssumption DEF Copied, Read
<1>2. \A p \in TestPaths : head[p] = Missing => wt'[p] = Missing
  BY TreeAssumption
<1> QED BY <1>1, <1>2 DEF Overlaid

LEMMA InvNext == TreesInv /\ [TreesNext]_treeVars => TreesInv'
<1> SUFFICES ASSUME TreesInv, [TreesNext]_treeVars PROVE TreesInv'
  OBVIOUS
<1>1. ASSUME NEW p \in Paths, Overlay(p) PROVE TreesInv'
  BY <1>1, InvOverlay
<1>2. ASSUME NEW p \in Paths, OverlayRaises(p) PROVE TreesInv'
  BY <1>2 DEF OverlayRaises, TreesInv, Overlaid, Copied, Read
<1>3. CASE DeleteStale
  BY <1>3, InvDeleteStale
<1>4. CASE CountNonTest
  BY <1>4 DEF CountNonTest, TreesInv, Overlaid, Copied, Read
<1>5. CASE Discover
  BY <1>5 DEF Discover, TreesInv, Overlaid, Copied, Read
<1>6. CASE UNCHANGED treeVars
  BY <1>6 DEF treeVars, TreesInv, Overlaid, Copied, Read
<1> QED BY <1>1, <1>2, <1>3, <1>4, <1>5, <1>6 DEF TreesNext

LEMMA InvExact == TreesInv => OverlayIsExact
<1> SUFFICES ASSUME TreesInv, Overlaid, NEW p \in Paths
             PROVE  IF p \in TestPaths
                    THEN /\ Read(wt, p) = Read(head, p)
                         /\ wt[p] = Missing <=> head[p] = Missing
                    ELSE wt[p] = base[p]
  BY DEF OverlayIsExact
<1> USE DEF TreesInv
<1>1. CASE p \in TestPaths /\ head[p] = Missing
  BY <1>1 DEF Read
<1>2. CASE p \in TestPaths /\ head[p] # Missing
  <2>1. Copied(p)
    BY <1>2
  <2>2. Read(head, p) \in Contents
    BY <2>1, ReadType DEF Copied
  <2>3. wt[p] # Missing /\ ~wt[p].link /\ wt[p].is = Read(head, p)
    BY <2>1, <2>2, FileIsSomething DEF Copied, File
  <2> QED BY <1>2, <2>3 DEF Read
<1>3. CASE p \notin TestPaths
  BY <1>3
<1> QED BY <1>1, <1>2, <1>3

\* Whatever the two commits hold, once the overlay is over the base worktree has
\* exactly head's test files and base's other files (_overlay_test_files).
THEOREM OverlayIsAlwaysExact == TreesSpecOfAny => []OverlayIsExact
<1>1. TreesSpecOfAny => []TreesInv
  BY InvInit, InvNext, PTL DEF TreesSpecOfAny
<1> QED BY <1>1, InvExact, PTL
-----------------------------------------------------------------------------
(* What is counted and what is discovered. *)

ChangedTests(p) ==
    {t \in DOMAIN TestsOf(Read(head, p)) :
        \/ t \notin DOMAIN BaseTests(p)
        \/ BaseTests(p)[t] # TestsOf(Read(head, p))[t]}

HeadTestFiles == PathsOf(head) \cap TestFiles

\* What git lists of the changes, given the renames it found, and what is counted.
Counted(renames) ==
    {p \in Changed \ Range(renames) : p \notin TestPaths \ Quoted /\ ~Cosmetic(p)}

CountInv ==
    nonTestDiff = Missing
    \/ \E renames \in Renames : nonTestDiff = Cardinality(Counted(renames))

DiscoverInv ==
    step = "done" =>
        /\ skipped = {p \in HeadTestFiles : Unparsed(Read(head, p))}
        /\ discovered = (UNION {{q} \X ChangedTests(q) : q \in HeadTestFiles}) \ Claimed

LEMMA CountNext == ASSUME CountInv, [TreesNext]_treeVars PROVE CountInv'
<1>1. base' = base /\ head' = head
  BY DEF TreesNext, Overlay, OverlayRaises, DeleteStale, CountNonTest, Discover, treeVars
<1>2. Renames' = Renames /\ \A renames : Counted(renames)' = Counted(renames)
  BY <1>1 DEF Renames, Added, Deleted, PathsOf, Same, Similar, Counted, Changed, Cosmetic, AstAt
<1>3. CASE CountNonTest
  BY <1>2, <1>3 DEF CountNonTest, CountInv, Counted
<1>4. CASE nonTestDiff' = nonTestDiff
  BY <1>2, <1>4 DEF CountInv
<1>5. CountNonTest \/ nonTestDiff' = nonTestDiff
  BY DEF TreesNext, Overlay, OverlayRaises, DeleteStale, Discover, treeVars
<1> QED BY <1>3, <1>4, <1>5

LEMMA DiscoverNext ==
    ASSUME DiscoverInv, [TreesNext]_treeVars
    PROVE  DiscoverInv'
<1>1. base' = base /\ head' = head
  BY DEF TreesNext, Overlay, OverlayRaises, DeleteStale, CountNonTest, Discover, treeVars
<1>2. HeadTestFiles' = HeadTestFiles
  BY <1>1 DEF HeadTestFiles, PathsOf
<1>3. \A p : ChangedTests(p)' = ChangedTests(p)
  BY <1>1 DEF ChangedTests, BaseTests, Read
<1>4. \A p : Read(head, p)' = Read(head, p)
  BY <1>1 DEF Read
<1>5. CASE Discover
  <2>1. skipped' = {p \in HeadTestFiles : Unparsed(Read(head, p))}
    BY <1>5 DEF Discover, HeadTestFiles
  <2>2. discovered' = (UNION {{q} \X ChangedTests(q) : q \in HeadTestFiles}) \ Claimed
    BY <1>5 DEF Discover, HeadTestFiles, ChangedTests
  <2> QED BY <2>1, <2>2, <1>2, <1>3, <1>4 DEF DiscoverInv
<1>6. CASE ~Discover
  <2>1. step' = "done" => step = "done" /\ skipped' = skipped /\ discovered' = discovered
    BY <1>6 DEF TreesNext, Overlay, OverlayRaises, DeleteStale, CountNonTest, treeVars
  <2> QED BY <2>1, <1>2, <1>3, <1>4 DEF DiscoverInv
<1> QED BY <1>5, <1>6

LEMMA CosmeticMeaning ==
    ASSUME base \in Trees, head \in Trees, NEW p \in Paths
    PROVE  Cosmetic(p) <=> p \notin Quoted /\ LayoutOnly(p)
<1>1. \A x \in Contents : x # Missing
  BY TreeAssumption
<1>2. \A tree \in {base, head} :
        tree[p] # Missing /\ ~tree[p].link => tree[p].is # Missing
  BY <1>1, EntryType
<1>3. \A tree \in {base, head} :
        AstAt(tree, p) # Missing <=>
            tree[p] # Missing /\ ~tree[p].link /\ ~Unparsed(tree[p].is)
  BY <1>2 DEF AstAt, Unparsed
<1> QED BY <1>3 DEF Cosmetic, AstAt, LayoutOnly

\* A change that git does not list was taken for a rename, and the new name is
\* listed: it is no test file only if it is counted.
LEMMA UnlistedMoved ==
    ASSUME base \in Trees, head \in Trees, NEW renames \in Renames, Counted(renames) = {},
           NEW p \in Changed \cap Range(renames)
    PROVE  MovedToTests(p)
<1>1. renames \in [Added -> Deleted \cup {Missing}]
  BY DEF Renames
<1>2. PICK q \in Added : renames[q] = p
  BY <1>1 DEF Range
<1>3. p # Missing /\ p \in Paths
  BY TreeAssumption DEF Changed
<1>4. p \in Deleted /\ DetectRenames /\ (Same(p, q) \/ Similar(p, q))
  BY <1>1, <1>2, <1>3 DEF Renames
<1>5. q \in Changed /\ q \notin Range(renames) /\ base[q] = Missing
  <2>1. q \in Paths /\ head[q] # Missing /\ base[q] = Missing
    BY DEF Added, PathsOf
  <2>2. q \notin Deleted /\ q # Missing
    BY <2>1, TreeAssumption DEF Deleted, PathsOf
  <2> QED BY <1>1, <2>1, <2>2 DEF Changed, Range
<1>6. ~Cosmetic(q)
  BY <1>5 DEF Cosmetic, AstAt
<1>7. q \in TestPaths
  BY <1>5, <1>6 DEF Counted
<1> QED BY <1>4, <1>7 DEF MovedToTests

LEMMA CountInvExact == ASSUME TreesInv, CountInv PROVE CountIsExact
<1> SUFFICES ASSUME nonTestDiff # Missing PROVE CountIsExact
  BY DEF CountIsExact
<1>1. PICK renames \in Renames : nonTestDiff = Cardinality(Counted(renames))
  BY DEF CountInv
<1>2. IsFiniteSet(Counted(renames))
  BY TreeAssumption, FS_Subset DEF Counted, Changed
<1>3. nonTestDiff = 0 <=> Counted(renames) = {}
  BY <1>1, <1>2, FS_EmptySet
<1>4. \A p \in Paths : Cosmetic(p) <=> p \notin Quoted /\ LayoutOnly(p)
  BY CosmeticMeaning DEF TreesInv
<1>5. ASSUME nonTestDiff = 0, NEW p \in Paths \ TestPaths
      PROVE  base[p] = head[p] \/ LayoutOnly(p) \/ MovedToTests(p)
  <2>1. CASE p \in Changed \cap Range(renames)
    BY <1>3, <1>5, <2>1, UnlistedMoved DEF TreesInv
  <2>2. CASE p \in Changed \ Range(renames)
    BY <1>3, <1>4, <1>5, <2>2 DEF Counted
  <2> QED BY <2>1, <2>2 DEF Changed
<1>6. ASSUME nonTestDiff # 0
      PROVE  \E p \in Changed : p \in Quoted \/ (p \notin TestPaths /\ ~LayoutOnly(p))
  <2>1. PICK p \in Counted(renames) : TRUE
    BY <1>3, <1>6
  <2>2. p \in Changed /\ p \in Paths /\ p \notin TestPaths \ Quoted /\ ~Cosmetic(p)
    BY DEF Counted, Changed
  <2> QED BY <1>4, <2>2
<1> QED BY <1>5, <1>6 DEF CountIsExact

\* What is taken for base's tests of a file that is no link.
LEMMA BaseTestsRead ==
    ASSUME NEW p \in Paths, base[p] = Missing \/ ~base[p].link
    PROVE  BaseTests(p) = TestsOf(Read(base, p))
BY DEF BaseTests, TestsOf, Unparsed, Read

LEMMA DiscoverInvExact == DiscoverInv => DiscoveryIsExact
<1> SUFFICES ASSUME DiscoverInv, step = "done", NEW p \in HeadTestFiles
             PROVE  IF Unparsed(Read(head, p)) THEN p \in skipped
                    ELSE \A t \in DOMAIN Defs[Read(head, p)] :
                        base[p] = Missing \/ ~base[p].link =>
                            (<<p, t>> \in discovered <=>
                                /\ <<p, t>> \notin Claimed
                                /\ \/ Unparsed(Read(base, p))
                                   \/ t \notin DOMAIN Defs[Read(base, p)]
                                   \/ Defs[Read(base, p)][t] # Defs[Read(head, p)][t])
  BY DEF DiscoveryIsExact, HeadTestFiles
<1>1. p \in Paths
  BY DEF HeadTestFiles, PathsOf
<1>2. CASE Unparsed(Read(head, p))
  BY <1>2 DEF DiscoverInv
<1>3. ASSUME ~Unparsed(Read(head, p)), NEW t \in DOMAIN Defs[Read(head, p)],
             base[p] = Missing \/ ~base[p].link
      PROVE  <<p, t>> \in discovered <=>
                /\ <<p, t>> \notin Claimed
                /\ \/ Unparsed(Read(base, p))
                   \/ t \notin DOMAIN Defs[Read(base, p)]
                   \/ Defs[Read(base, p)][t] # Defs[Read(head, p)][t]
  <2>1. <<p, t>> \in discovered <=> <<p, t>> \notin Claimed /\ t \in ChangedTests(p)
    <3> DEFINE all == UNION {{q} \X ChangedTests(q) : q \in HeadTestFiles}
    <3>1. discovered = all \ Claimed
      BY DEF DiscoverInv
    <3>2. <<p, t>> \in all <=> \E q \in HeadTestFiles : <<p, t>> \in {q} \X ChangedTests(q)
      OBVIOUS
    <3>3. \A q : <<p, t>> \in {q} \X ChangedTests(q) <=> p = q /\ t \in ChangedTests(q)
      OBVIOUS
    <3> HIDE DEF all
    <3> QED BY <3>1, <3>2, <3>3
  <2>2. TestsOf(Read(head, p)) = Defs[Read(head, p)]
    BY <1>3 DEF TestsOf
  <2>3. BaseTests(p) = TestsOf(Read(base, p))
    BY <1>1, <1>3, BaseTestsRead
  <2>4. CASE Unparsed(Read(base, p))
    <3>1. t \notin DOMAIN BaseTests(p)
      BY <2>3, <2>4 DEF TestsOf
    <3> QED BY <2>1, <2>2, <2>4, <3>1, <1>3 DEF ChangedTests
  <2>5. CASE ~Unparsed(Read(base, p))
    <3>1. BaseTests(p) = Defs[Read(base, p)]
      BY <2>3, <2>5 DEF TestsOf
    <3> QED BY <2>1, <2>2, <2>5, <3>1, <1>3 DEF ChangedTests
  <2> QED BY <2>4, <2>5
<1> QED BY <1>2, <1>3

\* Whatever the two commits hold, auto-discovery claims exactly the tests of head
\* that base does not have or has with another body (_discover_claims).
THEOREM DiscoveryIsAlwaysExact == TreesSpecOfAny => []DiscoveryIsExact
<1>1. TreesOfAny => DiscoverInv
  BY DEF TreesOfAny, TreesStart, DiscoverInv
<1>2. DiscoverInv /\ [TreesNext]_treeVars => DiscoverInv'
  BY DiscoverNext
<1> QED BY <1>1, <1>2, DiscoverInvExact, PTL DEF TreesSpecOfAny

\* Whatever the two commits hold, whether or not git detects renames and whatever
\* names it quotes, a count of zero means that the implementation is as it was, but
\* for layout and files that may have been moved into the tests, and any other
\* count that it is not or that a quoted name changed (_non_test_diff_count).
THEOREM CountIsAlwaysExact == TreesSpecOfAny => []CountIsExact
<1>1. TreesOfAny => TreesInv /\ CountInv
  BY InvInit DEF TreesOfAny, TreesStart, CountInv
<1>2. TreesInv /\ CountInv /\ [TreesNext]_treeVars => (TreesInv /\ CountInv)'
  BY InvNext, CountNext
<1>3. TreesInv /\ CountInv => CountIsExact
  BY CountInvExact
<1> QED BY <1>1, <1>2, <1>3, PTL DEF TreesSpecOfAny
-----------------------------------------------------------------------------
(* The clean-up *)

WorktreesTypeOK ==
    /\ phase \in {"mkdtemp", "unmade", "resolve", "add", "probe",
                 "remove", "prune", "rmtree", "parents", "ended"}
    /\ side \in TempDirs /\ parents \subseteq TempDirs
    /\ disk \in [TreeSides -> {"whole", "remains", "none"}]
    /\ registered \subseteq TreeSides /\ held \subseteq TreeSides /\ hooked \subseteq TreeSides
    /\ stuck \in Resisting /\ spoiled \subseteq TreeSides
    /\ gitFails \in BOOLEAN /\ cut \in BOOLEAN /\ raised \in BOOLEAN

\* How far the finally clause has come: git was asked to remove the worktree, the
\* worktree's directory was removed, head's prune is over, and the temporary
\* directory was removed.
Asked(s) ==
    \/ phase \in {"parents", "ended"}
    \/ phase \in {"prune", "rmtree"} /\ side = s
    \/ phase \in {"remove", "prune", "rmtree"} /\ side = "head" /\ s = "base"

Emptied(s) ==
    \/ phase \in {"parents", "ended"}
    \/ phase \in {"remove", "prune", "rmtree"} /\ side = "head" /\ s = "base"

HeadPruned == phase \in {"parents", "ended"} \/ (phase = "rmtree" /\ side = "head")

Dropped(d) ==
    \/ phase = "ended"
    \/ phase = "parents" /\ ((d = "base" /\ side # "base") \/ (d = "head" /\ side = "aux"))

\* The tests, which spoil what they like, run with both worktrees held.
BeforeInv ==
    /\ held \in {{}, {"base"}, TreeSides}
    /\ registered \subseteq held \cup hooked
    /\ \A s \in TreeSides : disk[s] # "none" => s \in held \cup hooked
    /\ spoiled # {} => held = TreeSides
    /\ phase = "mkdtemp" => held = {}
    /\ phase = "resolve" => side = "base" /\ held = {}
    /\ phase = "add" => (side = "base" /\ held = {}) \/ (side = "head" /\ held = {"base"})
    /\ phase = "probe" => held = TreeSides
    /\ phase \in {"remove", "prune", "rmtree"} => side \in held

AfterInv ==
    ~cut =>
        /\ \A s \in held \cap registered : Asked(s) => gitFails \/ s \in spoiled
        /\ \A s \in TreeSides :
              (s \in held /\ Emptied(s)) \/ Dropped(s) =>
                  (disk[s] = "none" \/ s \in stuck.inTree)
        /\ HeadPruned /\ held = TreeSides /\ "base" \in registered =>
              gitFails \/ "base" \in stuck.inTree
        /\ \A d \in parents : Dropped(d) => d \in stuck.beside \cup stuck.inTree

WorktreesInv == WorktreesTypeOK /\ BeforeInv /\ AfterInv

LEMMA WorktreesInvInit == WorktreesInit => WorktreesInv
<1> SUFFICES ASSUME WorktreesInit PROVE WorktreesInv
  OBVIOUS
<1>1. [inTree |-> {}, beside |-> {}] \in Resisting
  BY DEF Resisting
<1>2. WorktreesTypeOK
  <2>1. disk \in [TreeSides -> {"whole", "remains", "none"}]
    BY DEF WorktreesInit
  <2> QED BY <1>1, <2>1 DEF WorktreesInit, WorktreesTypeOK, TempDirs, TreeSides
<1>3. BeforeInv
  BY DEF WorktreesInit, BeforeInv
<1>4. AfterInv
  BY DEF WorktreesInit, AfterInv, Asked, Emptied, HeadPruned, Dropped
<1> QED BY <1>2, <1>3, <1>4 DEF WorktreesInv

LEMMA WorktreesInvNext == WorktreesInv /\ [WorktreesNext]_worktreeVars => WorktreesInv'
<1> SUFFICES ASSUME WorktreesInv, [WorktreesNext]_worktreeVars PROVE WorktreesInv'
  OBVIOUS
<1> USE DEF WorktreesInv, WorktreesTypeOK, BeforeInv, AfterInv, Asked, Emptied, HeadPruned,
            Dropped, TreeSides, TempDirs, fixtures
<1>1. CASE MakeDir
  BY <1>1 DEF MakeDir
<1>2. CASE ResolveCommits
  <2>1. CASE phase' = "add" /\ UNCHANGED <<side, raised>>
    BY <1>2, <2>1 DEF ResolveCommits, CleanUp
  <2>2. CASE CleanUp(held)
    BY <1>2, <2>2 DEF ResolveCommits, CleanUp
  <2> QED BY <1>2, <2>1, <2>2 DEF ResolveCommits
<1>3. CASE AddWorktree
  <2>1. CASE held' = held \cup {side}
    BY <1>3, <2>1 DEF AddWorktree
  <2>2. CASE CleanUp(held) /\ UNCHANGED <<disk, registered, held, hooked>>
    BY <1>3, <2>2 DEF AddWorktree, CleanUp
  <2>3. CASE CleanUp(held) /\ hooked' = hooked \cup {side}
    BY <1>3, <2>3 DEF AddWorktree, CleanUp
  <2> QED BY <1>3, <2>1, <2>2, <2>3 DEF AddWorktree
<1>4. CASE Probe
  BY <1>4 DEF Probe, CleanUp, Resisting
<1>5. CASE GitRemove
  <2>1. CASE gitFails \/ side \in spoiled
    BY <1>5, <2>1 DEF GitRemove
  <2>2. CASE ~(gitFails \/ side \in spoiled)
    <3>1. PICK left \in Removed(side) : disk' = [disk EXCEPT ![side] = left]
      BY <1>5, <2>2 DEF GitRemove, RemoveWhatGoes
    <3> QED BY <1>5, <2>2, <3>1 DEF GitRemove, Removed
  <2> QED BY <2>1, <2>2
<1>6. CASE GitPrune
  BY <1>6 DEF GitPrune
<1>7. CASE RemoveTree
  BY <1>7 DEF RemoveTree, RemoveWhatGoes, Removed
<1>8. CASE RemoveParent
  BY <1>8 DEF RemoveParent, RemoveWhatGoes, Removed
<1>9. CASE Interrupt
  BY <1>9 DEF Interrupt
<1>10. CASE UNCHANGED worktreeVars
  BY <1>10 DEF worktreeVars
<1> QED
  BY <1>1, <1>2, <1>3, <1>4, <1>5, <1>6, <1>7, <1>8, <1>9, <1>10 DEF WorktreesNext

\* Whichever steps of the clean-up fail without notice, nothing stays but what by
\* itself cannot be removed, or what a failing hook left to nobody (the finally
\* clause of run_fbpa, _remove_worktree), unless the clean-up is interrupted.
THEOREM OnlyWhatResistsEverStays == WorktreesSpec => []OnlyWhatResistsStays
<1>1. WorktreesInv => OnlyWhatResistsStays
  BY DEF WorktreesInv, WorktreesTypeOK, BeforeInv, AfterInv, Asked, Emptied, HeadPruned,
         Dropped, TreeSides, TempDirs, OnlyWhatResistsStays
<1> QED BY <1>1, WorktreesInvInit, WorktreesInvNext, PTL DEF WorktreesSpec
=============================================================================
