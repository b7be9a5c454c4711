------------------------------ MODULE MCTrees ------------------------------
(***************************************************************************)
(* Two commits with an implementation file, a test file, a data file of    *)
(* the tests and a file below a directory of the data file's name: each    *)
(* may be missing, changed in its layout only, changed or unreadable, and  *)
(* files among the tests may be links.                                     *)
(***************************************************************************)
EXTENDS FbpaTrees, TLC

CONSTANTS impl, suite, data, below, old, layout, new, garbled, t1, t2

MCUnder == {<<data, below>>}
MCAst == old :> "a" @@ layout :> "a" @@ new :> "b" @@ garbled :> Missing
MCDefs ==
    old :> (t1 :> "a" @@ t2 :> "a") @@ layout :> (t1 :> "a" @@ t2 :> "a")
        @@ new :> (t1 :> "b" @@ t2 :> "a") @@ garbled :> <<>>
MCAlike == {<<old, layout>>, <<layout, old>>}
MCClaimed == {<<suite, t2>>}

Commits(impls, tests, datas, belows) ==
    {tree \in {impl :> i @@ suite :> t @@ data :> d @@ below :> b :
                  i \in impls, t \in tests, d \in datas, b \in belows} : WellFormed(tree)}

Text == {Missing} \cup {File(c) : c \in {old, layout, new, garbled}}

BaseTrees ==
    Commits(Text, {Missing, File(old), File(garbled), Link(impl)},
            {Missing, File(new), Link(impl)}, {Missing, File(old)})
HeadTrees ==
    Commits(Text, {Missing, File(old), File(new), File(garbled), Link(impl)},
            {Missing, File(new), Link(suite)}, {Missing, File(old)})

TreesInit == \E b \in BaseTrees, h \in HeadTrees : TreesStart(b, h)

TreesSpec == TreesInit /\ [][TreesNext]_treeVars
=============================================================================
