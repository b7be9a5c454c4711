-------------------------- MODULE AttributionProofs --------------------------
(***************************************************************************)
(* Proofs about the attributor for any project: any two indexes, any test  *)
(* module and any messages, asked in any order.                            *)
(***************************************************************************)
EXTENDS Attribution, FiniteSetTheorems, WellFoundedInduction, TLAPS

(* Reachability *)

LEMMA ReachStep ==
    ASSUME NEW N, NEW E, NEW x, NEW y \in {x} \cup Reachable(N, E, x), NEW z \in N, <<y, z>> \in E
    PROVE  z \in Reachable(N, E, x)
<1> SUFFICES ASSUME NEW S \in SUBSET N, \A e \in E : e[1] \in S \cup {x} => e[2] \in S
             PROVE  z \in S
  BY DEF Reachable
<1>1. y \in S \cup {x}
  BY DEF Reachable
<1> QED BY <1>1

LEMMA ReachLeast ==
    ASSUME NEW N, NEW E, NEW x, NEW S \in SUBSET N,
           \A e \in E : e[1] \in S \cup {x} => e[2] \in S
    PROVE  Reachable(N, E, x) \subseteq S
BY DEF Reachable

LEMMA ReachInside == ASSUME NEW N, NEW E, NEW x PROVE Reachable(N, E, x) \subseteq N
BY DEF Reachable
-----------------------------------------------------------------------------
(* The search for the definitions a test reaches *)

Found == {source.func} \cup Reachable(Items, Uses, source.func)

Mentions(i) == source.names[i] \cup source.attrs[i] \cup source.selfs[i]

Met == visited \cup worklist

SearchInv ==
    /\ source \in Sources
    /\ Met \subseteq Found
    /\ referenced = UNION {source.names[i] : i \in visited}
    /\ attributes = UNION {source.attrs[i] \cup source.selfs[i] : i \in visited}
    /\ pc = "search" =>
          /\ source.func \in Met
          /\ \A i \in visited :
                Members(i) \subseteq Met /\ \A name \in source.names[i] : Leads(name) \subseteq Met

ReachedInv ==
    reached = None \/ (reached <=> \E i \in Found : source.local \cap Mentions(i) # {})

LEMMA SourceTypes ==
    ASSUME source \in Sources
    PROVE  /\ source.func \in Items
           /\ \A i \in Items : Members(i) \subseteq Items
           /\ \A i \in Items : source.names[i] \subseteq Refs
           /\ \A name \in Refs : Leads(name) \subseteq Items
<1>1. source.func \in Items /\ source.members \in [Refs -> {None} \cup Items]
      /\ source.selfs \in [Items -> SUBSET Refs] /\ source.names \in [Items -> SUBSET Refs]
      /\ source.defs \in [Refs -> SUBSET Items] /\ source.fixtures \subseteq Items
  BY DEF Sources
<1>2. \A i \in Items : Members(i) \subseteq Items
  BY <1>1 DEF Members
<1>3. \A name \in Refs : Leads(name) \subseteq Items
  BY <1>1 DEF Leads
<1> QED BY <1>1, <1>2, <1>3

\* What a definition found uses is found.
LEMMA FoundGrows ==
    ASSUME source \in Sources, NEW i \in Found
    PROVE  /\ i \in Items
           /\ Members(i) \subseteq Found
           /\ \A name \in source.names[i] : Leads(name) \subseteq Found
<1>1. i \in Items
  BY SourceTypes, ReachInside DEF Found
<1>2. ASSUME NEW j \in Items, <<i, j>> \in Uses PROVE j \in Found
  BY <1>2, ReachStep DEF Found
<1>3. ASSUME NEW j \in Members(i) PROVE j \in Found
  <2>1. j \in Items
    BY <1>1, SourceTypes
  <2> QED BY <1>1, <1>2, <2>1 DEF Uses
<1>4. ASSUME NEW name \in source.names[i], NEW j \in Leads(name) PROVE j \in Found
  <2>1. j \in Items
    BY <1>1, SourceTypes
  <2> QED BY <1>1, <1>2, <2>1 DEF Uses
<1> QED BY <1>1, <1>3, <1>4

LEMMA SearchVisit ==
    ASSUME SearchInv, NEW item \in Items, Visit(item)
    PROVE  SearchInv'
<1>1. /\ pc = "search" /\ item \in worklist /\ project' = project /\ pc' = pc
      /\ visited' = visited \cup {item}
      /\ referenced' = referenced \cup source.names[item]
      /\ attributes' = attributes \cup (source.attrs[item] \cup source.selfs[item])
      /\ worklist' = (worklist \ {item}) \cup Members(item)
            \cup UNION {Leads(name) : name \in source.names[item] \ referenced}
  BY DEF Visit
<1>2. source' = source /\ Found' = Found /\ (\A i : Members(i)' = Members(i))
      /\ \A name : Leads(name)' = Leads(name)
  BY <1>1 DEF source, Found, Uses, Members, Leads
<1>3. item \in Found
  BY <1>1 DEF SearchInv, Met
<1>4. Met' = Met \cup Members(item)
             \cup UNION {Leads(name) : name \in source.names[item] \ referenced}
  BY <1>1 DEF Met
<1>5. Met' \subseteq Found
  BY <1>3, <1>4, FoundGrows DEF SearchInv
<1>6. \A name \in source.names[item] : Leads(name) \subseteq Met'
  <2> SUFFICES ASSUME NEW name \in source.names[item], name \in referenced
               PROVE  Leads(name) \subseteq Met'
    BY <1>4
  <2>1. PICK i \in visited : name \in source.names[i]
    BY DEF SearchInv
  <2> QED BY <1>1, <1>4, <2>1 DEF SearchInv
<1>7. referenced' = UNION {source.names[i] : i \in visited'}
  BY <1>1 DEF SearchInv
<1>8. attributes' = UNION {source.attrs[i] \cup source.selfs[i] : i \in visited'}
  BY <1>1 DEF SearchInv
<1>9. \A i \in visited' :
        Members(i) \subseteq Met' /\ \A name \in source.names[i] : Leads(name) \subseteq Met'
  BY <1>1, <1>4, <1>6 DEF SearchInv
<1>10. source.func \in Met'
  BY <1>1, <1>4 DEF SearchInv
<1> QED BY <1>2, <1>5, <1>7, <1>8, <1>9, <1>10 DEF SearchInv

\* With nothing left to visit, everything found was visited.
LEMMA AllVisited ==
    ASSUME SearchInv, pc = "search", worklist \subseteq visited
    PROVE  visited = Found
<1>1. Met = visited /\ visited \subseteq Found
  BY DEF Met, SearchInv
<1>2. visited \in SUBSET Items
  BY <1>1, FoundGrows DEF SearchInv
<1>3. ASSUME NEW e \in Uses, e[1] \in visited \cup {source.func} PROVE e[2] \in visited
  <2>1. e[1] \in visited
    BY <1>1, <1>3 DEF SearchInv
  <2> QED BY <1>1, <2>1 DEF SearchInv, Uses
<1>4. Reachable(Items, Uses, source.func) \subseteq visited
  BY <1>2, <1>3, ReachLeast
<1> QED BY <1>1, <1>4 DEF Found, SearchInv

LEMMA SearchNext ==
    ASSUME SearchInv, ReachedInv, [Next]_vars
    PROVE  SearchInv' /\ ReachedInv'
<1>1. project' = project
  BY DEF Next, Ask, Visit, Conclude, vars
<1>2. source' = source /\ Found' = Found /\ (\A i : Members(i)' = Members(i))
      /\ (\A name : Leads(name)' = Leads(name)) /\ \A i : Mentions(i)' = Mentions(i)
  BY <1>1 DEF source, Found, Uses, Members, Leads, Mentions
<1>3. ASSUME NEW msg, NEW collecting \in BOOLEAN, Ask(msg, collecting)
      PROVE  SearchInv' /\ ReachedInv'
  <2>1. reached' = None
    BY <1>3 DEF Ask
  <2>2. CASE UNCHANGED <<pc, searching>>
    BY <1>2, <2>1, <2>2 DEF SearchInv, ReachedInv, Met, searching
  <2>3. CASE ~UNCHANGED <<pc, searching>>
    <3>1. worklist' = {source.func} /\ visited' = {} /\ referenced' = {} /\ attributes' = {}
      BY <1>3, <2>3 DEF Ask
    <3> QED BY <1>2, <2>1, <3>1 DEF SearchInv, ReachedInv, Met, Found
  <2> QED BY <2>2, <2>3
<1>4. ASSUME NEW item \in Items, Visit(item) PROVE SearchInv' /\ ReachedInv'
  <2>1. reached' = reached
    BY <1>4 DEF Visit
  <2> QED BY <1>2, <1>4, <2>1, SearchVisit DEF ReachedInv
<1>5. CASE Conclude
  <2>1. visited = Found
    BY <1>5, AllVisited DEF Conclude
  <2>2. referenced \cup attributes = UNION {Mentions(i) : i \in visited}
    BY DEF SearchInv, Mentions
  <2>3. reached' = (source.local \cap (referenced \cup attributes) # {})
    BY <1>5 DEF Conclude
  <2>4. reached' <=> \E i \in Found : source.local \cap Mentions(i) # {}
    <3>1. source.local \cap (referenced \cup attributes) # {}
          <=> \E i \in Found : source.local \cap Mentions(i) # {}
      BY <2>1, <2>2
    <3>2. reached' <=> source.local \cap (referenced \cup attributes) # {}
      BY <2>3, Zenon
    <3> QED BY <3>1, <3>2
  <2>5. pc' = "ready" /\ UNCHANGED searching
    BY <1>5 DEF Conclude
  <2> QED BY <1>2, <2>4, <2>5 DEF SearchInv, ReachedInv, Met, searching
<1>6. CASE UNCHANGED vars
  BY <1>2, <1>6 DEF vars, searching, SearchInv, ReachedInv, Met
<1> QED BY <1>3, <1>4, <1>5, <1>6 DEF Next

\* Whatever the test module holds and in whatever order its definitions are
\* visited, the search (_reference_closure) answers for all that the test reaches.
THEOREM ClosureIsAlwaysReachability == SpecOfAny => []ClosureIsReachability
<1>1. (\E p \in Projects : Start(p)) => SearchInv /\ ReachedInv
  BY DEF Start, SearchInv, ReachedInv, Projects, source, Met
<1>2. SearchInv /\ ReachedInv /\ [Next]_vars => (SearchInv /\ ReachedInv)'
  BY SearchNext
<1>3. ReachedInv => ClosureIsReachability
  BY DEF ReachedInv, ClosureIsReachability, Found, Mentions
<1> QED BY <1>1, <1>2, <1>3, PTL DEF SpecOfAny
-----------------------------------------------------------------------------
(* Induction on the files, or classes, not met yet *)

LEMMA NatMin ==
    ASSUME NEW T, T \subseteq Nat, T # {}
    PROVE  \E x \in T : \A y \in T : x <= y
<1>1. PICK x \in T : \A y \in T : ~(<<y, x>> \in OpToRel(<, Nat))
  BY WFMin, NatLessThanWellFounded, Zenon
<1>2. \A y \in T : ~(y < x)
  BY <1>1 DEF OpToRel
<1> QED BY <1>2

\* What is left of a finite set.
LEMMA Left ==
    ASSUME NEW S, IsFiniteSet(S), NEW seen \in SUBSET S
    PROVE  /\ Cardinality(S \ seen) \in Nat
           /\ Cardinality(S \ seen) <= Cardinality(S)
           /\ \A x \in S \ seen : Cardinality(S \ (seen \cup {x})) = Cardinality(S \ seen) - 1
<1>1. IsFiniteSet(S \ seen) /\ Cardinality(S \ seen) <= Cardinality(S)
  BY FS_Subset
<1>2. \A x : S \ (seen \cup {x}) = (S \ seen) \ {x}
  OBVIOUS
<1> QED BY <1>1, <1>2, FS_CardinalityType, FS_RemoveElement

\* A set of bad sets each of which has a bad successor is empty.
LEMMA NoneBad ==
    ASSUME NEW S, IsFiniteSet(S), NEW Bad,
           \A seen \in Bad :
               seen \subseteq S /\ \E x \in S \ seen : seen \cup {x} \in Bad
    PROVE  Bad = {}
<1> SUFFICES ASSUME Bad # {} PROVE FALSE
  OBVIOUS
<1> DEFINE T == {Cardinality(S \ seen) : seen \in Bad}
<1>1. T \subseteq Nat /\ T # {}
  <2>1. \A seen \in Bad : seen \in SUBSET S
    OBVIOUS
  <2>2. \A seen \in Bad : Cardinality(S \ seen) \in Nat
    BY <2>1, Left
  <2>3. ASSUME NEW n \in T PROVE n \in Nat
    <3>1. PICK seen \in Bad : n = Cardinality(S \ seen)
      OBVIOUS
    <3> QED BY <2>2, <3>1
  <2>4. PICK seen \in Bad : TRUE
    OBVIOUS
  <2>5. Cardinality(S \ seen) \in T
    BY <2>4
  <2> HIDE DEF T
  <2> QED BY <2>3, <2>5
<1>2. PICK n \in T : \A m \in T : n <= m
  <2> HIDE DEF T
  <2> QED BY <1>1, NatMin
<1>3. PICK seen \in Bad : n = Cardinality(S \ seen)
  BY <1>2
<1>4. PICK x \in S \ seen : seen \cup {x} \in Bad
  OBVIOUS
<1>5. Cardinality(S \ (seen \cup {x})) \in T
  BY <1>4
<1>6. Cardinality(S \ (seen \cup {x})) = n - 1 /\ n \in Nat
  BY <1>3, <1>4, Left
<1> HIDE DEF T
<1> QED BY <1>2, <1>5, <1>6
-----------------------------------------------------------------------------
(* The recursion of module_names *)

Targets(index, seen, rel) == (UNION index.tables[rel].stars) \ (seen \cup {rel})

\* One file's names, of those of its targets.
Expand(index, cache, of, seen, rel) ==
    IF cache[rel] # None THEN cache[rel]
    ELSE [names |-> index.tables[rel].names \cup
              UNION {Exported(index.tables[t], of[t].names) : t \in Targets(index, seen, rel)},
          dynamic |-> \/ index.tables[rel].dynamic \/ {} \in index.tables[rel].stars
                      \/ \E t \in Targets(index, seen, rel) : of[t].dynamic]

Row(index, cache, N, seen) ==
    [rel \in Files \ seen |-> Expand(index, cache, N[seen \cup {rel}], seen, rel)]

Expanded(index, cache, N) == [seen \in SUBSET Files |-> Row(index, cache, N, seen)]

LEMMA NamesAreChosen ==
    ASSUME NEW index, NEW cache
    PROVE  ModuleNames(index, cache) = CHOOSE N : N = Expanded(index, cache, N)
BY DEF ModuleNames, Expanded, Row, Expand, Targets

\* The function that expands correctly whatever has at most n files left.
Expands(index, cache, N, n) ==
    \A seen \in SUBSET Files :
        Cardinality(Files \ seen) <= n => N[seen] = Row(index, cache, N, seen)

LEMMA ExpandsMore ==
    ASSUME NEW index, NEW cache, IsFiniteSet(Files), NEW N, NEW n \in Nat,
           \A seen \in SUBSET Files :
               Cardinality(Files \ seen) < n => N[seen] = Row(index, cache, N, seen)
    PROVE  Expands(index, cache, Expanded(index, cache, N), n)
<1> DEFINE M == Expanded(index, cache, N)
<1>1. \A seen \in SUBSET Files : M[seen] = Row(index, cache, N, seen)
  BY DEF Expanded
<1>2. ASSUME NEW seen \in SUBSET Files, Cardinality(Files \ seen) <= n
      PROVE  Row(index, cache, N, seen) = Row(index, cache, M, seen)
  <2>1. ASSUME NEW rel \in Files \ seen PROVE M[seen \cup {rel}] = N[seen \cup {rel}]
    <3>1. seen \cup {rel} \in SUBSET Files
      OBVIOUS
    <3>2. Cardinality(Files \ (seen \cup {rel})) < n
      BY <1>2, Left
    <3> QED BY <1>1, <3>1, <3>2
  <2> HIDE DEF M
  <2> QED BY <2>1 DEF Row
<1> HIDE DEF M
<1> QED BY <1>1, <1>2 DEF Expands, M

LEMMA ExpandsAll ==
    ASSUME NEW index, NEW cache, IsFiniteSet(Files)
    PROVE  \E N : N = Expanded(index, cache, N)
<1> DEFINE Bad == {n \in Nat : ~ \E N : Expands(index, cache, N, n)}
<1>1. Bad = {}
  <2> SUFFICES ASSUME Bad # {} PROVE FALSE
    OBVIOUS
  <2>1. PICK n \in Bad : \A m \in Bad : n <= m
    <3>1. Bad \subseteq Nat
      OBVIOUS
    <3> HIDE DEF Bad
    <3> QED BY <3>1, NatMin
  <2>2. n \in Nat
    OBVIOUS
  <2>3. \E N : \A seen \in SUBSET Files :
            Cardinality(Files \ seen) < n => N[seen] = Row(index, cache, N, seen)
    <3>1. CASE n = 0
      BY <3>1, Left
    <3>2. CASE n # 0
      <4>1. n - 1 \in Nat /\ n - 1 \notin Bad
        <5> HIDE DEF Bad
        <5> QED BY <2>1, <2>2, <3>2
      <4>2. PICK N : Expands(index, cache, N, n - 1)
        BY <4>1
      <4>3. \A seen \in SUBSET Files : Cardinality(Files \ seen) < n =>
                Cardinality(Files \ seen) <= n - 1
        BY <2>2, Left
      <4> QED BY <4>2, <4>3 DEF Expands
    <3> QED BY <3>1, <3>2
  <2>4. \E N : Expands(index, cache, N, n)
    BY <2>2, <2>3, ExpandsMore
  <2> QED BY <2>1, <2>4
<1>2. Cardinality(Files) \in Nat
  BY FS_CardinalityType
<1>3. PICK N : Expands(index, cache, N, Cardinality(Files))
  BY <1>1, <1>2
<1>4. \A seen \in SUBSET Files : N[seen] = Row(index, cache, N, seen)
  BY <1>3, Left DEF Expands
<1>5. Expanded(index, cache, N) = Expanded(index, cache, Expanded(index, cache, N))
  <2> DEFINE M == Expanded(index, cache, N)
  <2>1. \A seen \in SUBSET Files : M[seen] = N[seen]
    BY <1>4 DEF Expanded
  <2>2. \A seen \in SUBSET Files : Row(index, cache, M, seen) = Row(index, cache, N, seen)
    <3>1. \A seen \in SUBSET Files, rel \in Files : seen \cup {rel} \in SUBSET Files
      OBVIOUS
    <3> HIDE DEF M
    <3> QED BY <2>1, <3>1 DEF Row
  <2> HIDE DEF M
  <2>3. Expanded(index, cache, N) = Expanded(index, cache, M)
    BY <2>2 DEF Expanded
  <2> QED BY <2>3 DEF M
<1> QED BY <1>5

\* The recursion ends, so module_names is what its body says.
LEMMA NamesOf ==
    ASSUME NEW index, NEW cache, IsFiniteSet(Files),
           NEW seen \in SUBSET Files, NEW rel \in Files \ seen
    PROVE  ModuleNames(index, cache)[seen][rel] =
               Expand(index, cache, ModuleNames(index, cache)[seen \cup {rel}], seen, rel)
<1> DEFINE N == ModuleNames(index, cache)
<1>1. N = Expanded(index, cache, N)
  BY ExpandsAll, NamesAreChosen
<1>2. Expanded(index, cache, N)[seen][rel] =
        Expand(index, cache, N[seen \cup {rel}], seen, rel)
  <2> HIDE DEF N
  <2> QED BY DEF Expanded, Row
<1> HIDE DEF N
<1>3. N[seen][rel] = Expand(index, cache, N[seen \cup {rel}], seen, rel)
  BY <1>1, <1>2
<1> QED BY <1>3 DEF N
-----------------------------------------------------------------------------
(* What a search that leaves out what it is in the middle of still reaches *)

LEMMA ReachOn ==
    ASSUME NEW N, NEW E \in SUBSET (N \X N), NEW x, NEW y \in {x} \cup Reachable(N, E, x)
    PROVE  Reachable(N, E, y) \subseteq Reachable(N, E, x)
<1> DEFINE S == Reachable(N, E, x)
<1>1. S \in SUBSET N
  BY ReachInside
<1>2. ASSUME NEW e \in E, e[1] \in S \cup {y} PROVE e[2] \in S
  <2>1. e[1] \in {x} \cup S /\ e[2] \in N /\ <<e[1], e[2]>> \in E
    BY <1>2
  <2> QED BY <2>1, ReachStep
<1> HIDE DEF S
<1>3. Reachable(N, E, y) \subseteq S
  BY <1>1, <1>2, ReachLeast
<1> QED BY <1>3 DEF S

LEMMA ReachInto ==
    ASSUME NEW N, NEW E \in SUBSET (N \X N), NEW x, NEW y \in Reachable(N, E, x)
    PROVE  \E e \in E : e[2] = y
<1> DEFINE S == {e[2] : e \in E}
<1>1. S \in SUBSET N
  OBVIOUS
<1>2. \A e \in E : e[2] \in S
  OBVIOUS
<1> HIDE DEF S
<1>3. y \in S
  BY <1>1, <1>2, ReachLeast
<1> QED BY <1>3 DEF S

Avoiding(E, seen) == {e \in E : e[1] \notin seen /\ e[2] \notin seen}

\* H says what a search finds of x while it is in the middle of seen: it makes x
\* good, and is passed on to what x leads to.
PassedOn(S, E, Good, H) ==
    \A seen \in SUBSET S : \A x \in S \ seen :
        <<seen, x>> \in H =>
            /\ x \in Good
            /\ \A y \in S \ (seen \cup {x}) : <<x, y>> \in E => <<seen \cup {x}, y>> \in H

\* What holds of the start holds of all that can be reached.
LEMMA SearchReaches ==
    ASSUME NEW S, IsFiniteSet(S), NEW E, E \subseteq S \X S, NEW Good, NEW H,
           PassedOn(S, E, Good, H),
           NEW start \in S, <<{}, start>> \in H
    PROVE  {start} \cup Reachable(S, E, start) \subseteq Good
<1> DEFINE Reach(seen, x) == {x} \cup Reachable(S, Avoiding(E, seen), x)
           Bad == {seen \in SUBSET S :
                      \E x \in S \ seen : <<seen, x>> \in H /\ ~(Reach(seen, x) \subseteq Good)}
<1>1. ASSUME NEW seen \in SUBSET S, NEW x \in S \ seen, <<seen, x>> \in H,
             seen \cup {x} \notin Bad
      PROVE  Reach(seen, x) \subseteq Good
  <2> DEFINE after == seen \cup {x}
             next == {y \in S \ after : <<x, y>> \in E}
             U == {u \in S : u = x \/ \E y \in next : u \in Reach(after, y)}
  <2>1. after \in SUBSET S
    OBVIOUS
  <2>2. ASSUME NEW y \in next PROVE Reach(after, y) \subseteq Good
    <3>1. <<after, y>> \in H /\ y \in S \ after
      BY <1>1 DEF PassedOn
    <3> QED BY <1>1, <2>1, <3>1
  <2>3. U \subseteq Good
    <3>1. x \in Good
      BY <1>1 DEF PassedOn
    <3> HIDE DEF Reach, next
    <3> QED BY <2>2, <3>1
  <2>4. U \in SUBSET S
    OBVIOUS
  <2>5. ASSUME NEW e \in Avoiding(E, seen), e[1] \in U PROVE e[2] \in U
    <3>1. e \in E /\ e[1] \in S /\ e[2] \in S \ seen /\ e = <<e[1], e[2]>> /\ e[1] \notin seen
      BY DEF Avoiding
    <3>2. CASE e[2] = x
      BY <3>2
    <3>3. CASE e[2] # x /\ e[1] = x
      <4>1. e[2] \in next
        BY <3>1, <3>3
      <4>2. e[2] \in Reach(after, e[2])
        OBVIOUS
      <4> HIDE DEF Reach, next
      <4> QED BY <3>1, <4>1, <4>2
    <3>4. CASE e[2] # x /\ e[1] # x
      <4>1. PICK y \in next : e[1] \in Reach(after, y)
        <5> HIDE DEF Reach, next
        <5> QED BY <2>5, <3>4
      <4>2. <<e[1], e[2]>> \in Avoiding(E, after)
        BY <3>1, <3>4 DEF Avoiding
      <4>3. e[2] \in Reachable(S, Avoiding(E, after), y)
        BY <3>1, <4>1, <4>2, ReachStep
      <4>4. e[2] \in Reach(after, y)
        BY <4>3
      <4> HIDE DEF Reach, next
      <4> QED BY <3>1, <4>1, <4>4
    <3> QED BY <3>2, <3>3, <3>4
  <2>6. x \in U
    OBVIOUS
  <2> HIDE DEF U
  <2>7. Reachable(S, Avoiding(E, seen), x) \subseteq U
    BY <2>4, <2>5, <2>6, ReachLeast
  <2> QED BY <2>3, <2>6, <2>7
<1>2. Bad = {}
  <2>1. ASSUME NEW seen \in Bad
        PROVE  seen \subseteq S /\ \E x \in S \ seen : seen \cup {x} \in Bad
    <3>1. PICK x \in S \ seen : <<seen, x>> \in H /\ ~(Reach(seen, x) \subseteq Good)
      BY <2>1
    <3>2. seen \in SUBSET S
      BY <2>1
    <3> HIDE DEF Bad, Reach
    <3> QED BY <1>1, <3>1, <3>2
  <2> HIDE DEF Bad
  <2> QED BY <2>1, NoneBad
<1>3. Reach({}, start) \subseteq Good
  BY <1>2
<1>4. Avoiding(E, {}) = E
  BY DEF Avoiding
<1> QED BY <1>3, <1>4
-----------------------------------------------------------------------------
(* What module_names finds is what star imports mean *)

Edges(index, name) == {e \in Stars(index) : PassesOn(index, e[2], name)}

\* Binds, with what leads back to the file itself.
Gives(index, rel, name) ==
    \/ name \in index.tables[rel].names
    \/ \E f \in Reachable(Files, Edges(index, name), rel) :
          name \in index.tables[f].names \/ index.tables[f].all # None

Obscure(index, rel) ==
    \E f \in {rel} \cup Reachable(Files, Stars(index), rel) :
        index.tables[f].dynamic \/ {} \in index.tables[f].stars

\* A result kept is right, for whoever asks for it.
Exact(index, rel, result) ==
    /\ \A name \in Names : name \in result.names <=> Gives(index, rel, name)
    /\ result.dynamic <=> Obscure(index, rel)

CacheExact(index, cache) ==
    \A f \in Files : cache[f] # None => Exact(index, f, cache[f])

LEMMA IndexTypes ==
    ASSUME NEW index \in Indexes
    PROVE  /\ \A f \in Files : UNION index.tables[f].stars \subseteq Files
           /\ Stars(index) \subseteq Files \X Files
           /\ \A name : Edges(index, name) \subseteq Stars(index)
           /\ Loads(index)
<1>1. index.tables \in [Files -> Tables] /\ Loads(index)
  BY DEF Indexes
<1>2. \A f \in Files : index.tables[f].stars \in SUBSET SUBSET Files
  BY <1>1 DEF Tables
<1>3. \A f \in Files : UNION index.tables[f].stars \subseteq Files
  BY <1>2
<1> QED BY <1>1, <1>3 DEF Stars, Edges

LEMMA TargetIsStar ==
    ASSUME NEW index \in Indexes, NEW rel \in Files, NEW seen,
           NEW t \in Targets(index, seen, rel)
    PROVE  t \in Files \ (seen \cup {rel}) /\ <<rel, t>> \in Stars(index)
BY IndexTypes DEF Targets, Stars

LEMMA StarIsTarget ==
    ASSUME NEW index, NEW rel \in Files, NEW seen, NEW t \in Files \ (seen \cup {rel}),
           <<rel, t>> \in Stars(index)
    PROVE  t \in Targets(index, seen, rel)
BY DEF Targets, Stars

LEMMA GivesBack ==
    ASSUME NEW index \in Indexes, NEW rel \in Files, NEW t \in Files, NEW name,
           <<rel, t>> \in Edges(index, name),
           Gives(index, t, name) \/ index.tables[t].all # None
    PROVE  Gives(index, rel, name)
<1> DEFINE E == Edges(index, name)
<1>1. E \in SUBSET (Files \X Files)
  BY IndexTypes
<1>2. t \in Reachable(Files, E, rel)
  BY ReachStep
<1>3. Reachable(Files, E, t) \subseteq Reachable(Files, E, rel)
  <2> HIDE DEF E
  <2> QED BY <1>1, <1>2, ReachOn
<1> QED BY <1>2, <1>3 DEF Gives

LEMMA ObscureBack ==
    ASSUME NEW index \in Indexes, NEW rel \in Files, NEW t \in Files,
           <<rel, t>> \in Stars(index), Obscure(index, t)
    PROVE  Obscure(index, rel)
<1> DEFINE E == Stars(index)
<1>1. E \in SUBSET (Files \X Files)
  BY IndexTypes
<1>2. t \in Reachable(Files, E, rel)
  BY ReachStep
<1>3. Reachable(Files, E, t) \subseteq Reachable(Files, E, rel)
  <2> HIDE DEF E
  <2> QED BY <1>1, <1>2, ReachOn
<1> QED BY <1>2, <1>3 DEF Obscure

LEMMA GivesIsBinds ==
    ASSUME NEW index \in Indexes, NEW rel \in Files, NEW name \in Names
    PROVE  Gives(index, rel, name) <=> Binds(index, rel, name)
<1> DEFINE E == Edges(index, name)
<1>1. E \in SUBSET (Files \X Files)
  BY IndexTypes
<1>2. Binds(index, rel, name) <=>
        \/ name \in index.tables[rel].names
        \/ \E f \in Reachable(Files, E, rel) \ {rel} :
              name \in index.tables[f].names \/ index.tables[f].all # None
  BY DEF Binds, Edges
<1>3. ASSUME rel \in Reachable(Files, E, rel), index.tables[rel].all # None
      PROVE  Binds(index, rel, name)
  <2>1. PICK e \in E : e[2] = rel
    <3> HIDE DEF E
    <3> QED BY <1>1, <1>3, ReachInto
  <2>2. e \in Stars(index) /\ name \in index.tables[rel].all
    BY <1>3, <2>1 DEF Edges, PassesOn
  <2> QED BY <1>3, <2>1, <2>2, IndexTypes DEF Loads
<1> HIDE DEF E
<1>4. Gives(index, rel, name) <=>
        \/ name \in index.tables[rel].names
        \/ \E f \in Reachable(Files, E, rel) :
              name \in index.tables[f].names \/ index.tables[f].all # None
  BY DEF Gives, E
<1> QED BY <1>2, <1>3, <1>4

\* What a file is not found to bind, its targets do not pass on; and conversely.
LEMMA ExpandNames ==
    ASSUME NEW index \in Indexes, NEW cache, NEW of, NEW seen, NEW rel \in Files,
           cache[rel] = None, NEW name
    PROVE  name \in Expand(index, cache, of, seen, rel).names <=>
             \/ name \in index.tables[rel].names
             \/ \E t \in Targets(index, seen, rel) :
                   /\ PassesOn(index, t, name)
                   /\ index.tables[t].all # None \/ name \in of[t].names
<1>1. \A t : name \in Exported(index.tables[t], of[t].names) <=>
          /\ PassesOn(index, t, name)
          /\ index.tables[t].all # None \/ name \in of[t].names
  BY DEF Exported, PassesOn
<1>2. Expand(index, cache, of, seen, rel).names =
        index.tables[rel].names \cup
          UNION {Exported(index.tables[t], of[t].names) : t \in Targets(index, seen, rel)}
  BY DEF Expand
<1> QED BY <1>1, <1>2

LEMMA ExpandDynamic ==
    ASSUME NEW index, NEW cache, NEW of, NEW seen, NEW rel, cache[rel] = None
    PROVE  Expand(index, cache, of, seen, rel).dynamic <=>
             \/ index.tables[rel].dynamic \/ {} \in index.tables[rel].stars
             \/ \E t \in Targets(index, seen, rel) : of[t].dynamic
BY DEF Expand

LEMMA NamesAreGiven ==
    ASSUME NEW index \in Indexes, NEW cache, CacheExact(index, cache), IsFiniteSet(Files),
           NEW name \in Names, NEW seen \in SUBSET Files, NEW rel \in Files \ seen,
           name \in ModuleNames(index, cache)[seen][rel].names
    PROVE  Gives(index, rel, name)
<1> DEFINE N == ModuleNames(index, cache)
           Bad == {s \in SUBSET Files :
                      \E f \in Files \ s : name \in N[s][f].names /\ ~Gives(index, f, name)}
<1>1. ASSUME NEW s \in Bad
      PROVE  s \subseteq Files /\ \E f \in Files \ s : s \cup {f} \in Bad
  <2>1. PICK f \in Files \ s : name \in N[s][f].names /\ ~Gives(index, f, name)
    OBVIOUS
  <2>2. s \in SUBSET Files
    OBVIOUS
  <2>3. N[s][f] = Expand(index, cache, N[s \cup {f}], s, f)
    BY <2>2, NamesOf
  <2> HIDE DEF N
  <2>4. cache[f] = None
    BY <2>1, <2>3 DEF Expand, CacheExact, Exact
  <2>5. PICK t \in Targets(index, s, f) :
          PassesOn(index, t, name) /\ (index.tables[t].all # None \/ name \in N[s \cup {f}][t].names)
    BY <2>1, <2>3, <2>4, ExpandNames DEF Gives
  <2>6. t \in Files \ (s \cup {f}) /\ <<f, t>> \in Edges(index, name)
    BY <2>5, TargetIsStar DEF Edges
  <2>7. ~Gives(index, t, name) /\ name \in N[s \cup {f}][t].names
    BY <2>1, <2>5, <2>6, GivesBack
  <2>8. s \cup {f} \in Bad
    BY <2>2, <2>6, <2>7
  <2> QED BY <2>2, <2>8
<1>2. Bad = {}
  <2> HIDE DEF Bad
  <2> QED BY <1>1, NoneBad
<1> QED BY <1>2

LEMMA DynamicIsObscure ==
    ASSUME NEW index \in Indexes, NEW cache, CacheExact(index, cache), IsFiniteSet(Files),
           NEW seen \in SUBSET Files, NEW rel \in Files \ seen,
           ModuleNames(index, cache)[seen][rel].dynamic
    PROVE  Obscure(index, rel)
<1> DEFINE N == ModuleNames(index, cache)
           Bad == {s \in SUBSET Files :
                      \E f \in Files \ s : N[s][f].dynamic /\ ~Obscure(index, f)}
<1>1. ASSUME NEW s \in Bad
      PROVE  s \subseteq Files /\ \E f \in Files \ s : s \cup {f} \in Bad
  <2>1. PICK f \in Files \ s : N[s][f].dynamic /\ ~Obscure(index, f)
    OBVIOUS
  <2>2. s \in SUBSET Files
    OBVIOUS
  <2>3. N[s][f] = Expand(index, cache, N[s \cup {f}], s, f)
    BY <2>2, NamesOf
  <2> HIDE DEF N
  <2>4. cache[f] = None
    BY <2>1, <2>3 DEF Expand, CacheExact, Exact
  <2>5. PICK t \in Targets(index, s, f) : N[s \cup {f}][t].dynamic
    BY <2>1, <2>3, <2>4, ExpandDynamic DEF Obscure
  <2>6. t \in Files \ (s \cup {f}) /\ <<f, t>> \in Stars(index)
    BY <2>5, TargetIsStar
  <2>7. ~Obscure(index, t)
    BY <2>1, <2>6, ObscureBack
  <2>8. s \cup {f} \in Bad
    BY <2>2, <2>5, <2>6, <2>7
  <2> QED BY <2>2, <2>8
<1>2. Bad = {}
  <2> HIDE DEF Bad
  <2> QED BY <1>1, NoneBad
<1> QED BY <1>2

LEMMA GivenAreNames ==
    ASSUME NEW index \in Indexes, NEW cache, CacheExact(index, cache), IsFiniteSet(Files),
           NEW name \in Names, NEW rel \in Files,
           name \notin ModuleNames(index, cache)[{}][rel].names
    PROVE  ~Binds(index, rel, name)
<1> DEFINE N == ModuleNames(index, cache)
           E == Edges(index, name)
           Plain(f) == f = rel \/ index.tables[f].all = None
           H == {p \in (SUBSET Files) \X Files :
                    p[2] \notin p[1] /\ name \notin N[p[1]][p[2]].names /\ Plain(p[2])}
           Good == {f \in Files : name \notin index.tables[f].names /\ Plain(f)}
<1>0. \A seen \in SUBSET Files, x \in Files : <<seen, x>> \in H <=>
        x \notin seen /\ name \notin N[seen][x].names /\ Plain(x)
  <2> HIDE DEF N
  <2> QED OBVIOUS
<1>1. ASSUME NEW seen \in SUBSET Files, NEW x \in Files \ seen, <<seen, x>> \in H
      PROVE  /\ x \in Good
             /\ \A y \in Files \ (seen \cup {x}) : <<x, y>> \in E => <<seen \cup {x}, y>> \in H
  <2>1. name \notin N[seen][x].names /\ Plain(x)
    <3> HIDE DEF H, N
    <3> QED BY <1>0, <1>1
  <2>2. N[seen][x] = Expand(index, cache, N[seen \cup {x}], seen, x)
    BY NamesOf
  <2>0. seen \cup {x} \in SUBSET Files
    OBVIOUS
  <2> HIDE DEF N, H
  <2>3. CASE cache[x] = None
    <3>1. name \notin index.tables[x].names
      BY <2>1, <2>2, <2>3, ExpandNames
    <3>2. ASSUME NEW y \in Files \ (seen \cup {x}), <<x, y>> \in E
          PROVE  <<seen \cup {x}, y>> \in H
      <4>1. y \in Targets(index, seen, x) /\ PassesOn(index, y, name)
        BY <3>2, StarIsTarget DEF Edges
      <4>2. index.tables[y].all = None /\ name \notin N[seen \cup {x}][y].names
        BY <2>1, <2>2, <2>3, <4>1, ExpandNames
      <4> QED BY <1>0, <2>0, <3>2, <4>2
    <3> QED BY <2>1, <3>1, <3>2
  <2>4. CASE cache[x] # None
    <3>1. ~Gives(index, x, name)
      BY <2>1, <2>2, <2>4 DEF Expand, CacheExact, Exact
    <3>2. ASSUME NEW y \in Files \ (seen \cup {x}), <<x, y>> \in E
          PROVE  <<seen \cup {x}, y>> \in H
      <4>1. ~Gives(index, y, name) /\ index.tables[y].all = None
        BY <3>1, <3>2, GivesBack
      <4>2. seen \cup {x} \in SUBSET Files
        OBVIOUS
      <4>3. name \notin N[seen \cup {x}][y].names
        BY <4>1, <4>2, NamesAreGiven DEF N
      <4> QED BY <1>0, <3>2, <4>1, <4>2, <4>3
    <3>3. name \notin index.tables[x].names
      BY <3>1 DEF Gives
    <3> QED BY <2>1, <3>2, <3>3
  <2> QED BY <2>3, <2>4
<1>2. <<{}, rel>> \in H
  <2>1. {} \in SUBSET Files
    OBVIOUS
  <2> HIDE DEF H
  <2> QED BY <1>0, <2>1
<1>3. E \subseteq Files \X Files
  BY IndexTypes
<1>4. {rel} \cup Reachable(Files, E, rel) \subseteq Good
  <2>1. PassedOn(Files, E, Good, H)
    <3> HIDE DEF E, H, Good
    <3> QED BY <1>1 DEF PassedOn
  <2> HIDE DEF E, H, Good
  <2> QED BY <1>2, <1>3, <2>1, SearchReaches
<1>5. Reachable(Files, E, rel) = Reachable(Files, {e \in Stars(index) : PassesOn(index, e[2], name)}, rel)
  BY DEF Edges
<1> QED BY <1>4, <1>5 DEF Binds

LEMMA ObscureIsDynamic ==
    ASSUME NEW index \in Indexes, NEW cache, CacheExact(index, cache), IsFiniteSet(Files),
           NEW rel \in Files, ~ModuleNames(index, cache)[{}][rel].dynamic
    PROVE  ~Obscure(index, rel)
<1> DEFINE N == ModuleNames(index, cache)
           E == Stars(index)
           H == {p \in (SUBSET Files) \X Files : p[2] \notin p[1] /\ ~N[p[1]][p[2]].dynamic}
           Good == {f \in Files : ~index.tables[f].dynamic /\ {} \notin index.tables[f].stars}
<1>0. \A seen \in SUBSET Files, x \in Files : <<seen, x>> \in H <=>
        x \notin seen /\ ~N[seen][x].dynamic
  <2> HIDE DEF N
  <2> QED OBVIOUS
<1>1. ASSUME NEW seen \in SUBSET Files, NEW x \in Files \ seen, <<seen, x>> \in H
      PROVE  /\ x \in Good
             /\ \A y \in Files \ (seen \cup {x}) : <<x, y>> \in E => <<seen \cup {x}, y>> \in H
  <2>1. ~N[seen][x].dynamic
    <3> HIDE DEF H, N
    <3> QED BY <1>0, <1>1
  <2>2. N[seen][x] = Expand(index, cache, N[seen \cup {x}], seen, x)
    BY NamesOf
  <2>0. seen \cup {x} \in SUBSET Files
    OBVIOUS
  <2> HIDE DEF N, H
  <2>3. CASE cache[x] = None
    <3>1. x \in Good
      BY <2>1, <2>2, <2>3, ExpandDynamic
    <3>2. ASSUME NEW y \in Files \ (seen \cup {x}), <<x, y>> \in E
          PROVE  <<seen \cup {x}, y>> \in H
      <4>1. y \in Targets(index, seen, x)
        BY <3>2, StarIsTarget
      <4>2. ~N[seen \cup {x}][y].dynamic
        BY <2>1, <2>2, <2>3, <4>1, ExpandDynamic
      <4> QED BY <1>0, <2>0, <3>2, <4>2
    <3> QED BY <3>1, <3>2
  <2>4. CASE cache[x] # None
    <3>1. ~Obscure(index, x)
      BY <2>1, <2>2, <2>4 DEF Expand, CacheExact, Exact
    <3>2. ASSUME NEW y \in Files \ (seen \cup {x}), <<x, y>> \in E
          PROVE  <<seen \cup {x}, y>> \in H
      <4>1. ~Obscure(index, y)
        BY <3>1, <3>2, ObscureBack
      <4>2. seen \cup {x} \in SUBSET Files
        OBVIOUS
      <4>3. ~N[seen \cup {x}][y].dynamic
        BY <4>1, <4>2, DynamicIsObscure DEF N
      <4> QED BY <1>0, <3>2, <4>2, <4>3
    <3>3. x \in Good
      BY <3>1 DEF Obscure
    <3> QED BY <3>2, <3>3
  <2> QED BY <2>3, <2>4
<1>2. <<{}, rel>> \in H
  <2>1. {} \in SUBSET Files
    OBVIOUS
  <2> HIDE DEF H
  <2> QED BY <1>0, <2>1
<1>3. E \subseteq Files \X Files
  BY IndexTypes
<1>4. {rel} \cup Reachable(Files, E, rel) \subseteq Good
  <2>1. PassedOn(Files, E, Good, H)
    <3> HIDE DEF E, H, Good
    <3> QED BY <1>1 DEF PassedOn
  <2> HIDE DEF E, H, Good
  <2> QED BY <1>2, <1>3, <2>1, SearchReaches
<1> QED BY <1>4 DEF Obscure

\* With caches that are right, a file's names are exactly those it can have.
LEMMA NamesAreExact ==
    ASSUME NEW index \in Indexes, NEW cache, CacheExact(index, cache), IsFiniteSet(Files),
           NEW rel \in Files
    PROVE  Exact(index, rel, ModuleNames(index, cache)[{}][rel])
<1>1. {} \in SUBSET Files /\ rel \in Files \ {}
  OBVIOUS
<1>2. \A name \in Names : name \in ModuleNames(index, cache)[{}][rel].names <=> Gives(index, rel, name)
  BY <1>1, NamesAreGiven, GivenAreNames, GivesIsBinds
<1>3. ModuleNames(index, cache)[{}][rel].dynamic <=> Obscure(index, rel)
  BY <1>1, DynamicIsObscure, ObscureIsDynamic
<1> QED BY <1>2, <1>3 DEF Exact
-----------------------------------------------------------------------------
(* The caches *)

KeptAfter(index, cache, files, n, after) ==
    IF n = 0 THEN cache ELSE Keep(index, after[n - 1], files[n])

KeptAll(index, cache, files, after) ==
    [n \in 0..Len(files) |-> KeptAfter(index, cache, files, n, after)]

LEMMA RememberIsChosen ==
    ASSUME NEW index, NEW cache, NEW files
    PROVE  Remember(index, cache, files) =
               (CHOOSE after : after = KeptAll(index, cache, files, after))[Len(files)]
BY DEF Remember, KeptAll, KeptAfter

LEMMA KeptExists ==
    ASSUME NEW index, NEW cache, NEW S, NEW files \in Seq(S)
    PROVE  \E after : after = KeptAll(index, cache, files, after)
<1> DEFINE L == Len(files)
           K(n, f) == KeptAfter(index, cache, files, n, f)
           Upto(f, n) == \A m \in 0..L : m <= n => f[m] = K(m, f)
           Bad == {n \in Nat : ~ \E f : Upto(f, n)}
<1>1. L \in Nat
  OBVIOUS
<1>2. ASSUME NEW f, NEW g, NEW m \in 0..L, m # 0 => f[m - 1] = g[m - 1]
      PROVE  K(m, f) = K(m, g)
  BY <1>2 DEF KeptAfter
<1>3. ASSUME NEW n \in Nat, NEW f, \A m \in 0..L : m < n => f[m] = K(m, f)
      PROVE  Upto([m \in 0..L |-> K(m, f)], n)
  <2> DEFINE g == [m \in 0..L |-> K(m, f)]
  <2>1. \A m \in 0..L : g[m] = K(m, f)
    OBVIOUS
  <2> HIDE DEF g
  <2>2. ASSUME NEW m \in 0..L, m <= n PROVE K(m, f) = K(m, g)
    <3>1. m # 0 => m - 1 \in 0..L /\ m - 1 < n
      BY <1>1, <2>2
    <3>2. m # 0 => f[m - 1] = g[m - 1]
      BY <1>3, <2>1, <3>1
    <3> HIDE DEF K
    <3> QED BY <1>2, <3>2
  <2> HIDE DEF K
  <2>3. Upto(g, n)
    BY <2>1, <2>2
  <2> QED BY <2>3 DEF g
<1>4. Bad = {}
  <2> SUFFICES ASSUME Bad # {} PROVE FALSE
    OBVIOUS
  <2>1. PICK n \in Bad : \A m \in Bad : n <= m
    <3>1. Bad \subseteq Nat
      OBVIOUS
    <3> HIDE DEF Bad
    <3> QED BY <3>1, NatMin
  <2>2. n \in Nat
    OBVIOUS
  <2> HIDE DEF K
  <2>3. \E f : \A m \in 0..L : m < n => f[m] = K(m, f)
    <3>1. CASE n = 0
      BY <1>1, <3>1
    <3>2. CASE n # 0
      <4>1. n - 1 \in Nat /\ n - 1 \notin Bad
        <5> HIDE DEF Bad
        <5> QED BY <2>1, <2>2, <3>2
      <4>2. PICK f : Upto(f, n - 1)
        BY <4>1
      <4>3. \A m \in 0..L : m < n => m <= n - 1
        BY <1>1, <2>2
      <4> QED BY <4>2, <4>3
    <3> QED BY <3>1, <3>2
  <2>4. \E f : Upto(f, n)
    <3> HIDE DEF Upto
    <3> QED BY <1>3, <2>2, <2>3
  <2> QED BY <2>1, <2>4
<1>5. PICK f : Upto(f, L)
  BY <1>1, <1>4
<1>6. \A m \in 0..L : f[m] = K(m, f)
  <2> HIDE DEF K
  <2> QED BY <1>1, <1>5
<1> DEFINE g == [m \in 0..L |-> K(m, f)]
<1>7. \A m \in 0..L : K(m, f) = K(m, g)
  <2> TAKE m \in 0..L
  <2>1. m # 0 => m - 1 \in 0..L
    BY <1>1
  <2>2. \A k \in 0..L : g[k] = f[k]
    BY <1>6
  <2> HIDE DEF K, g
  <2> QED BY <1>2, <2>1, <2>2
<1>8. g = [m \in 0..L |-> K(m, g)]
  <2>1. g = [m \in 0..L |-> K(m, f)]
    OBVIOUS
  <2> HIDE DEF K, g
  <2> QED BY <1>7, <2>1
<1>9. g = KeptAll(index, cache, files, g)
  <2> HIDE DEF g
  <2> QED BY <1>8 DEF KeptAll
<1> QED BY <1>9

IsCache(index, cache) == cache = [f \in Files |-> cache[f]] /\ CacheExact(index, cache)

LEMMA KeepIsExact ==
    ASSUME NEW index \in Indexes, NEW cache, IsCache(index, cache), IsFiniteSet(Files),
           NEW rel \in Files
    PROVE  LET c == Keep(index, cache, rel)
           IN  /\ IsCache(index, c)
               /\ Exact(index, rel, c[rel])
               /\ \A f \in Files : Exact(index, f, cache[f]) => Exact(index, f, c[f])
<1>1. CASE cache[rel] # None
  BY <1>1 DEF Keep, IsCache, CacheExact
<1>2. CASE cache[rel] = None
  <2> DEFINE new == ModuleNames(index, cache)[{}][rel]
             c == [cache EXCEPT ![rel] = new]
  <2>1. Exact(index, rel, new)
    BY NamesAreExact DEF IsCache
  <2>2. Keep(index, cache, rel) = c
    BY <1>2 DEF Keep
  <2> HIDE DEF new
  <2>3. c[rel] = new /\ (\A f \in Files \ {rel} : c[f] = cache[f]) /\ c = [f \in Files |-> c[f]]
    BY DEF IsCache
  <2> HIDE DEF c
  <2> QED BY <2>1, <2>2, <2>3 DEF IsCache, CacheExact
<1> QED BY <1>1, <1>2

\* The caches stay right, and hold the files that were asked for.
LEMMA RememberIsExact ==
    ASSUME NEW index \in Indexes, NEW cache, IsCache(index, cache), IsFiniteSet(Files),
           NEW files \in Seq(Files)
    PROVE  /\ IsCache(index, Remember(index, cache, files))
           /\ \A f \in Range(files) : Exact(index, f, Remember(index, cache, files)[f])
<1> DEFINE L == Len(files)
           after == CHOOSE f : f = KeptAll(index, cache, files, f)
<1>1. L \in Nat /\ \A n \in 1..L : files[n] \in Files
  OBVIOUS
<1>2. after = KeptAll(index, cache, files, after)
  BY KeptExists
<1>3. Remember(index, cache, files) = after[L]
  BY RememberIsChosen
<1> HIDE DEF after
<1>4. after[0] = cache /\ \A n \in 1..L : after[n] = Keep(index, after[n - 1], files[n])
  <2>1. \A n \in 0..L : after[n] = KeptAfter(index, cache, files, n, after)
    BY <1>2 DEF KeptAll
  <2> QED BY <1>1, <2>1 DEF KeptAfter
<1> DEFINE Ok(n) == IsCache(index, after[n])
                    /\ \A k \in 1..n : Exact(index, files[k], after[n][files[k]])
           Bad == {n \in 0..L : ~Ok(n)}
<1>5. Bad = {}
  <2> SUFFICES ASSUME Bad # {} PROVE FALSE
    OBVIOUS
  <2>1. PICK n \in Bad : \A m \in Bad : n <= m
    <3>1. Bad \subseteq Nat
      BY <1>1
    <3> HIDE DEF Bad
    <3> QED BY <3>1, NatMin
  <2>2. n # 0
    <3>1. Ok(0)
      BY <1>4
    <3> QED BY <3>1
  <2>3. n \in 1..L /\ n - 1 \in 0..L
    BY <1>1, <2>2
  <2>4. Ok(n - 1)
    <3>1. n - 1 \notin Bad
      <4> HIDE DEF Bad
      <4> QED BY <2>1, <2>3
    <3> QED BY <2>3, <3>1
  <2>5. after[n] = Keep(index, after[n - 1], files[n]) /\ files[n] \in Files
    BY <1>1, <1>4, <2>3
  <2>6. IsCache(index, after[n]) /\ Exact(index, files[n], after[n][files[n]])
        /\ \A f \in Files : Exact(index, f, after[n - 1][f]) => Exact(index, f, after[n][f])
    BY <2>4, <2>5, KeepIsExact
  <2>7. \A k \in 1..n : k = n \/ k \in 1..(n - 1)
    BY <2>3
  <2>8. \A k \in 1..n : Exact(index, files[k], after[n][files[k]])
    BY <1>1, <2>3, <2>4, <2>6, <2>7
  <2>9. Ok(n)
    BY <2>6, <2>8
  <2> QED BY <2>9
<1>6. Ok(L)
  BY <1>1, <1>5
<1>7. \A f \in Range(files) : \E k \in 1..L : f = files[k]
  BY DEF Range
<1> QED BY <1>3, <1>6, <1>7
-----------------------------------------------------------------------------
(* What is answered for a file, and for a module *)

LEMMA FileAnswer ==
    ASSUME NEW index, NEW cache, NEW rel \in index.py, NEW name \in Names,
           index \in Indexes, rel \in Files, Exact(index, rel, cache[rel])
    PROVE  /\ FileHas(index, cache, rel, name) \in {"yes", "no", "unknown"}
           /\ FileHas(index, cache, rel, name) = "yes" <=> Binds(index, rel, name)
           /\ FileHas(index, cache, rel, name) = "no" <=> ~MayBind(index, rel, name)
<1>1. name \in cache[rel].names <=> Binds(index, rel, name)
  BY GivesIsBinds DEF Exact
<1>2. cache[rel].dynamic <=> Obscure(index, rel)
  BY DEF Exact
<1>3. MayBind(index, rel, name) <=> Binds(index, rel, name) \/ Obscure(index, rel)
  BY DEF MayBind, Obscure
<1>4. FileHas(index, cache, rel, name) = Answer(name \in cache[rel].names, cache[rel].dynamic)
  BY DEF FileHas
<1>5. CASE name \in cache[rel].names
  BY <1>1, <1>3, <1>4, <1>5 DEF Answer
<1>6. CASE name \notin cache[rel].names /\ cache[rel].dynamic
  <2>1. FileHas(index, cache, rel, name) = "unknown"
    BY <1>4, <1>6, Zenon DEF Answer
  <2> QED BY <2>1, <1>1, <1>2, <1>3, <1>6
<1>7. CASE name \notin cache[rel].names /\ ~cache[rel].dynamic
  <2>1. FileHas(index, cache, rel, name) = "no"
    BY <1>4, <1>7, Zenon DEF Answer
  <2> QED BY <2>1, <1>1, <1>2, <1>3, <1>7
<1> QED BY <1>5, <1>6, <1>7

LEMMA ConsensusMeaning ==
    ASSUME NEW answers, answers \subseteq {"yes", "no", "unknown"}, answers # {},
           NEW a \in {"yes", "no"}
    PROVE  Consensus(answers) = a <=> answers = {a}
<1>1. IsFiniteSet(answers)
  <2>1. IsFiniteSet({} \cup {"yes"} \cup {"no"} \cup {"unknown"})
    BY FS_EmptySet, FS_AddElement
  <2>2. answers \in SUBSET ({} \cup {"yes"} \cup {"no"} \cup {"unknown"})
    OBVIOUS
  <2> QED BY <2>1, <2>2, FS_Subset
<1>2. CASE Cardinality(answers) = 1
  <2>1. PICK x : answers = {x}
    BY <1>1, <1>2, FS_Singleton
  <2>2. (CHOOSE y \in answers : TRUE) = x
    BY <2>1
  <2> QED BY <1>2, <2>1, <2>2 DEF Consensus
<1>3. CASE Cardinality(answers) # 1
  <2>1. answers # {a}
    BY <1>3, FS_Singleton
  <2> QED BY <1>3, <2>1 DEF Consensus
<1> QED BY <1>2, <1>3

LEMMA ModuleAnswer ==
    ASSUME NEW index \in Indexes, NEW cache, NEW module \in Modules, NEW name \in Names,
           Range(index.modules[module]) # {},
           \A f \in Range(index.modules[module]) : Exact(index, f, cache[f])
    PROVE  LET files == Range(index.modules[module])
               has == ModuleHas(index, cache, module, name)
           IN  /\ has \in {"yes", "no", "unknown"}
               /\ has = "yes" <=> \A f \in files : Binds(index, f, name)
               /\ has = "no" <=> \A f \in files : ~MayBind(index, f, name)
<1> DEFINE files == Range(index.modules[module])
           answers == {FileHas(index, cache, f, name) : f \in files}
<1>1. index.py \subseteq Files /\ files \subseteq index.py /\ index.modules[module] \in Seq(Files)
  BY DEF Indexes
<1>2. \A f \in files : /\ FileHas(index, cache, f, name) \in {"yes", "no", "unknown"}
                       /\ FileHas(index, cache, f, name) = "yes" <=> Binds(index, f, name)
                       /\ FileHas(index, cache, f, name) = "no" <=> ~MayBind(index, f, name)
  BY <1>1, FileAnswer
<1>3. index.modules[module] # <<>>
  BY DEF Range
<1>4. ModuleHas(index, cache, module, name) = Consensus(answers)
  BY <1>3 DEF ModuleHas
<1> HIDE DEF files
<1>5. answers \subseteq {"yes", "no", "unknown"} /\ answers # {}
  BY <1>2 DEF files
<1>6. \A a : answers = {a} <=> \A f \in files : FileHas(index, cache, f, name) = a
  BY <1>5
<1>7. Consensus(answers) = "yes" <=> answers = {"yes"}
  <2> HIDE DEF answers
  <2> QED BY <1>5, ConsensusMeaning
<1>8. Consensus(answers) = "no" <=> answers = {"no"}
  <2> HIDE DEF answers
  <2> QED BY <1>5, ConsensusMeaning
<1>9. Consensus(answers) \in {"yes", "no", "unknown"}
  <2> HIDE DEF answers
  <2>1. Cardinality(answers) = 1 => (CHOOSE a \in answers : TRUE) \in answers
    BY <1>5
  <2> QED BY <1>5, <2>1 DEF Consensus
<1> HIDE DEF answers
<1>10. (Consensus(answers) = "yes" <=> \A f \in files : Binds(index, f, name))
       /\ (Consensus(answers) = "no" <=> \A f \in files : ~MayBind(index, f, name))
  BY <1>2, <1>6, <1>7, <1>8
<1> QED BY <1>4, <1>9, <1>10 DEF files
-----------------------------------------------------------------------------
(* Attribution to a name that only head has *)

CachesInv ==
    /\ project \in Projects
    /\ IsCache(project.base, baseCache)
    /\ IsCache(project.head, headCache)

LEMMA FilesAskedType ==
    ASSUME NEW index \in Indexes, NEW msg \in Messages
    PROVE  FilesAsked(index, msg) \in Seq(Files)
<1>1. index.modules \in [Modules -> Seq(Files)] /\ index.py \subseteq Files
  BY DEF Indexes
<1>2. <<>> \in Seq(Files) /\ \A f \in Files : <<f>> \in Seq(Files)
  OBVIOUS
<1>3. CASE msg.kind = "attribute"
  BY <1>1, <1>3 DEF Messages, FilesAsked
<1>4. CASE msg.kind = "name"
  BY <1>1, <1>2, <1>4 DEF Messages, FilesAsked
<1>5. CASE msg.kind \notin {"attribute", "name"}
  BY <1>2, <1>5 DEF FilesAsked
<1> QED BY <1>3, <1>4, <1>5

LEMMA DecideMeaning ==
    ASSUME NEW b, NEW h
    PROVE  /\ Decide(b, h) = "present" <=> b = "yes"
           /\ Decide(b, h) = "absent" <=> b \notin {"yes", "unknown"} /\ h = "yes"
BY DEF Decide

LEMMA AskIsExact ==
    ASSUME CachesInv, IsFiniteSet(Files), None \notin Files,
           NEW msg \in project.messages, NEW collecting \in BOOLEAN, Ask(msg, collecting)
    PROVE  CachesInv' /\ AbsenceIsExact'
<1> DEFINE b == project.base
           h == project.head
<1>1. b \in Indexes /\ h \in Indexes /\ msg \in Messages
  BY DEF CachesInv, Projects
<1>2. /\ project' = project /\ message' = msg
      /\ baseCache' = Remember(b, baseCache, FilesAsked(b, msg))
      /\ headCache' = Remember(h, headCache, FilesAsked(h, msg))
      /\ kind' = Attribute(b, h, baseCache', headCache', msg)
  BY DEF Ask
<1>3. /\ IsCache(b, baseCache')
      /\ \A f \in Range(FilesAsked(b, msg)) : Exact(b, f, baseCache'[f])
  BY <1>1, <1>2, FilesAskedType, RememberIsExact DEF CachesInv
<1>4. /\ IsCache(h, headCache')
      /\ \A f \in Range(FilesAsked(h, msg)) : Exact(h, f, headCache'[f])
  BY <1>1, <1>2, FilesAskedType, RememberIsExact DEF CachesInv
<1>5. CachesInv'
  BY <1>2, <1>3, <1>4 DEF CachesInv
<1>6. CASE msg.kind = "attribute"
  <2> DEFINE files(index) == Range(index.modules[msg.module])
             baseHas == ModuleHas(b, baseCache', msg.module, msg.name)
             headHas == ModuleHas(h, headCache', msg.module, msg.name)
  <2>1. msg.module \in Modules /\ msg.name \in Names
    BY <1>1, <1>6 DEF Messages
  <2>2. FilesAsked(b, msg) = b.modules[msg.module] /\ FilesAsked(h, msg) = h.modules[msg.module]
    BY <1>6 DEF FilesAsked
  <2>3. kind' = AttributeAttribute(b, h, baseCache', headCache', msg.module, msg.name)
    BY <1>2, <1>6 DEF Attribute
  <2>4. ASSUME files(b) # {}, files(h) # {}
        PROVE  /\ kind' = "present" <=> \A f \in files(b) : Binds(b, f, msg.name)
               /\ kind' = "absent" <=>
                     /\ ~ \E f \in files(b) : MayBind(b, f, msg.name)
                     /\ \A f \in files(h) : Binds(h, f, msg.name)
    <3>1. /\ baseHas \in {"yes", "no", "unknown"}
          /\ baseHas = "yes" <=> \A f \in files(b) : Binds(b, f, msg.name)
          /\ baseHas = "no" <=> \A f \in files(b) : ~MayBind(b, f, msg.name)
      BY <1>1, <1>3, <2>1, <2>2, <2>4, ModuleAnswer
    <3>2. headHas = "yes" <=> \A f \in files(h) : Binds(h, f, msg.name)
      BY <1>1, <1>4, <2>1, <2>2, <2>4, ModuleAnswer
    <3>3. kind' = Decide(baseHas, headHas)
      BY <2>3, <3>1 DEF AttributeAttribute
    <3> HIDE DEF baseHas, headHas, files
    <3> QED BY <3>1, <3>2, <3>3, DecideMeaning
  <2>5. Meant(b, msg) = files(b) /\ Meant(h, msg) = files(h)
    BY <1>6 DEF Meant
  <2> HIDE DEF files
  <2> QED BY <1>2, <1>5, <2>4, <2>5 DEF AbsenceIsExact, AllBind, SomeMayBind
<1>7. CASE msg.kind = "name"
  <2> DEFINE f == msg.file
             baseHas == FileHas(b, baseCache', f, msg.name)
             headHas == FileHas(h, headCache', f, msg.name)
  <2>1. f \in {None} \cup Files /\ msg.name \in Names
    BY <1>1, <1>7 DEF Messages
  <2>2. ASSUME f \in b.py, f \in h.py
        PROVE  /\ kind' = "present" <=> Binds(b, f, msg.name)
               /\ kind' = "absent" <=> ~MayBind(b, f, msg.name) /\ Binds(h, f, msg.name)
    <3>1. f \in Files
      BY <1>1, <2>2 DEF Indexes
    <3>2. FilesAsked(b, msg) = <<f>> /\ FilesAsked(h, msg) = <<f>>
      BY <1>7, <2>2 DEF FilesAsked
    <3>3. f \in Range(<<f>>)
      BY DEF Range
    <3>4. Exact(b, f, baseCache'[f]) /\ Exact(h, f, headCache'[f])
      BY <1>3, <1>4, <3>2, <3>3
    <3>5. /\ baseHas \in {"yes", "no", "unknown"}
          /\ baseHas = "yes" <=> Binds(b, f, msg.name)
          /\ baseHas = "no" <=> ~MayBind(b, f, msg.name)
      BY <1>1, <2>1, <2>2, <3>1, <3>4, FileAnswer
    <3>6. headHas = "yes" <=> Binds(h, f, msg.name)
      BY <1>1, <2>1, <2>2, <3>1, <3>4, FileAnswer
    <3>7. kind' = Decide(baseHas, headHas)
      BY <1>2, <1>7, <3>1 DEF Attribute
    <3> HIDE DEF baseHas, headHas
    <3> QED BY <3>5, <3>6, <3>7, DecideMeaning
  <2>3. Meant(b, msg) = {f} \cap b.py /\ Meant(h, msg) = {f} \cap h.py
    BY <1>7 DEF Meant
  <2> QED BY <1>2, <1>5, <2>2, <2>3 DEF AbsenceIsExact, AllBind, SomeMayBind
<1>8. CASE msg.kind \notin {"attribute", "name"}
  BY <1>2, <1>5, <1>8 DEF AbsenceIsExact
<1> QED BY <1>5, <1>6, <1>7, <1>8

LEMMA CachesNext ==
    ASSUME IsFiniteSet(Files), None \notin Files, CachesInv, AbsenceIsExact, [Next]_vars
    PROVE  CachesInv' /\ AbsenceIsExact'
<1>1. CASE \E msg \in project.messages, collecting \in BOOLEAN : Ask(msg, collecting)
  BY <1>1, AskIsExact
<1>2. CASE UNCHANGED <<project, baseCache, headCache, message, kind>>
  BY <1>2 DEF CachesInv, AbsenceIsExact
<1> QED BY <1>1, <1>2 DEF Next, Visit, Conclude, vars

LEMMA CachesInit == (\E p \in Projects : Start(p)) => CachesInv /\ AbsenceIsExact
<1> SUFFICES ASSUME NEW p \in Projects, Start(p) PROVE CachesInv /\ AbsenceIsExact
  OBVIOUS
<1>1. project = p /\ baseCache = Empty /\ headCache = Empty /\ message = None
  BY DEF Start
<1>2. \A index : IsCache(index, Empty)
  BY DEF IsCache, CacheExact, Empty
<1> QED BY <1>1, <1>2 DEF CachesInv, AbsenceIsExact

\* However star imports are arranged and in whatever order messages come and fill
\* the caches, a name is attributed (attribute, module_names) by what the files
\* that may be meant can bind.
THEOREM AbsenceIsAlwaysExact == SpecOfAny => []AbsenceIsExact
<1>1. CachesInv /\ AbsenceIsExact /\ [Next]_vars => (CachesInv /\ AbsenceIsExact)'
  BY CachesNext, TableAssumption
<1> QED BY <1>1, CachesInit, PTL DEF SpecOfAny
-----------------------------------------------------------------------------
(* The recursion of class_has *)

Results(of, index, seen, k, b) == {of[c] : c \in Candidates(index, k, b) \ seen}

\* One class's answer, of those of its bases.
Ancestors(index, name, of, seen, k) ==
    LET bases == index.classes[k].bases
    IN  IF name \in index.classes[k].attrs \/ \E b \in bases : BaseHas(Results(of, index, seen, k, b))
        THEN "yes"
        ELSE Answer(FALSE, \/ index.classes[k].dynamic
                           \/ \E b \in bases :
                                 Results(of, index, seen, k, b) \cap {"yes", "unknown"} # {})

ClassRow(index, name, C, seen) ==
    [k \in Keys \ seen |-> Ancestors(index, name, C[seen \cup {k}], seen, k)]

ClassRows(index, name, C) == [seen \in SUBSET Keys |-> ClassRow(index, name, C, seen)]

ClassAnswers(index, name) == CHOOSE C : C = ClassRows(index, name, C)

LEMMA ClassHasIsChosen ==
    ASSUME NEW index, NEW key, NEW name
    PROVE  ClassHas(index, key, name) = ClassAnswers(index, name)[{}][key]
BY DEF ClassHas, ClassAnswers, ClassRows, ClassRow, Ancestors, Results

ClassUpto(index, name, C, n) ==
    \A seen \in SUBSET Keys :
        Cardinality(Keys \ seen) <= n => C[seen] = ClassRow(index, name, C, seen)

LEMMA ClassMore ==
    ASSUME NEW index, NEW name, IsFiniteSet(Keys), NEW C, NEW n \in Nat,
           \A seen \in SUBSET Keys :
               Cardinality(Keys \ seen) < n => C[seen] = ClassRow(index, name, C, seen)
    PROVE  ClassUpto(index, name, ClassRows(index, name, C), n)
<1> DEFINE M == ClassRows(index, name, C)
<1>1. \A seen \in SUBSET Keys : M[seen] = ClassRow(index, name, C, seen)
  BY DEF ClassRows
<1>2. ASSUME NEW seen \in SUBSET Keys, Cardinality(Keys \ seen) <= n
      PROVE  ClassRow(index, name, C, seen) = ClassRow(index, name, M, seen)
  <2>1. ASSUME NEW k \in Keys \ seen PROVE M[seen \cup {k}] = C[seen \cup {k}]
    <3>1. seen \cup {k} \in SUBSET Keys
      OBVIOUS
    <3>2. Cardinality(Keys \ (seen \cup {k})) < n
      BY <1>2, Left
    <3> QED BY <1>1, <3>1, <3>2
  <2> HIDE DEF M
  <2> QED BY <2>1 DEF ClassRow
<1> HIDE DEF M
<1> QED BY <1>1, <1>2 DEF ClassUpto, M

LEMMA ClassAll ==
    ASSUME NEW index, NEW name, IsFiniteSet(Keys)
    PROVE  \E C : C = ClassRows(index, name, C)
<1> DEFINE Bad == {n \in Nat : ~ \E C : ClassUpto(index, name, C, n)}
<1>1. Bad = {}
  <2> SUFFICES ASSUME Bad # {} PROVE FALSE
    OBVIOUS
  <2>1. PICK n \in Bad : \A m \in Bad : n <= m
    <3>1. Bad \subseteq Nat
      OBVIOUS
    <3> HIDE DEF Bad
    <3> QED BY <3>1, NatMin
  <2>2. n \in Nat
    OBVIOUS
  <2>3. \E C : \A seen \in SUBSET Keys :
            Cardinality(Keys \ seen) < n => C[seen] = ClassRow(index, name, C, seen)
    <3>1. CASE n = 0
      BY <3>1, Left
    <3>2. CASE n # 0
      <4>1. n - 1 \in Nat /\ n - 1 \notin Bad
        <5> HIDE DEF Bad
        <5> QED BY <2>1, <2>2, <3>2
      <4>2. PICK C : ClassUpto(index, name, C, n - 1)
        BY <4>1
      <4>3. \A seen \in SUBSET Keys : Cardinality(Keys \ seen) < n =>
                Cardinality(Keys \ seen) <= n - 1
        BY <2>2, Left
      <4> QED BY <4>2, <4>3 DEF ClassUpto
    <3> QED BY <3>1, <3>2
  <2>4. \E C : ClassUpto(index, name, C, n)
    BY <2>2, <2>3, ClassMore
  <2> QED BY <2>1, <2>4
<1>2. Cardinality(Keys) \in Nat
  BY FS_CardinalityType
<1>3. PICK C : ClassUpto(index, name, C, Cardinality(Keys))
  BY <1>1, <1>2
<1>4. \A seen \in SUBSET Keys : C[seen] = ClassRow(index, name, C, seen)
  BY <1>3, Left DEF ClassUpto
<1> DEFINE M == ClassRows(index, name, C)
<1>5. \A seen \in SUBSET Keys : M[seen] = C[seen]
  BY <1>4 DEF ClassRows
<1>6. \A seen \in SUBSET Keys : ClassRow(index, name, M, seen) = ClassRow(index, name, C, seen)
  <2>1. \A seen \in SUBSET Keys, k \in Keys : seen \cup {k} \in SUBSET Keys
    OBVIOUS
  <2> HIDE DEF M
  <2> QED BY <1>5, <2>1 DEF ClassRow
<1>7. M = ClassRows(index, name, M)
  <2>1. M = ClassRows(index, name, C)
    OBVIOUS
  <2> HIDE DEF M
  <2> QED BY <1>6, <2>1 DEF ClassRows
<1> HIDE DEF M
<1> QED BY <1>7

\* The recursion ends, so class_has is what its body says.
LEMMA ClassAnswerOf ==
    ASSUME NEW index, NEW name, IsFiniteSet(Keys),
           NEW seen \in SUBSET Keys, NEW k \in Keys \ seen
    PROVE  ClassAnswers(index, name)[seen][k] =
               Ancestors(index, name, ClassAnswers(index, name)[seen \cup {k}], seen, k)
<1> DEFINE C == ClassAnswers(index, name)
<1>1. C = ClassRows(index, name, C)
  BY ClassAll DEF ClassAnswers
<1> HIDE DEF C
<1>2. ClassRows(index, name, C)[seen][k] = Ancestors(index, name, C[seen \cup {k}], seen, k)
  BY DEF ClassRows, ClassRow
<1>3. C[seen][k] = Ancestors(index, name, C[seen \cup {k}], seen, k)
  BY <1>1, <1>2
<1> QED BY <1>3 DEF C
-----------------------------------------------------------------------------
(* What class_has finds is what the classes inherit *)

BaseEdges(index) ==
    {e \in Keys \X Keys : \E b \in index.classes[e[1]].bases : e[2] \in Candidates(index, e[1], b)}

LEMMA AnswerOfBases ==
    ASSUME NEW index, NEW name, NEW of, NEW seen, NEW k
    PROVE  LET answer == Ancestors(index, name, of, seen, k)
               bases == index.classes[k].bases
           IN  /\ answer \in {"yes", "no", "unknown"}
               /\ answer = "yes" <=>
                     \/ name \in index.classes[k].attrs
                     \/ \E b \in bases : Results(of, index, seen, k, b) = {"yes"}
               /\ answer = "no" =>
                     /\ name \notin index.classes[k].attrs /\ ~index.classes[k].dynamic
                     /\ \A b \in bases : Results(of, index, seen, k, b) \cap {"yes", "unknown"} = {}
<1> DEFINE bases == index.classes[k].bases
           has == name \in index.classes[k].attrs
                  \/ \E b \in bases : BaseHas(Results(of, index, seen, k, b))
           more == \/ index.classes[k].dynamic
                   \/ \E b \in bases : Results(of, index, seen, k, b) \cap {"yes", "unknown"} # {}
           answer == Ancestors(index, name, of, seen, k)
<1>1. answer = IF has THEN "yes" ELSE IF more THEN "unknown" ELSE "no"
  BY Zenon DEF Ancestors, Answer
<1>2. has <=> name \in index.classes[k].attrs
              \/ \E b \in bases : Results(of, index, seen, k, b) = {"yes"}
  BY DEF BaseHas
<1>3. ~more => /\ ~index.classes[k].dynamic
               /\ \A b \in bases : Results(of, index, seen, k, b) \cap {"yes", "unknown"} = {}
  OBVIOUS
<1>4. ~has => name \notin index.classes[k].attrs
  OBVIOUS
<1> HIDE DEF answer, has, more
<1>5. answer \in {"yes", "no", "unknown"} /\ (answer = "yes" <=> has)
      /\ (answer = "no" => ~has /\ ~more)
  BY <1>1
<1> QED BY <1>2, <1>3, <1>4, <1>5 DEF answer

LEMMA CandidateType ==
    ASSUME NEW index \in Indexes, NEW k, NEW b, NEW c \in Candidates(index, k, b)
    PROVE  c \in index.keys /\ c \in Keys /\ c # k /\ SimpleName[c] = b /\ b \in Range(SimpleName)
<1>1. index.keys \subseteq Keys
  BY DEF Indexes
<1>2. c \in index.keys /\ c # k /\ SimpleName[c] = b
  BY DEF Candidates, Named
<1> QED BY <1>1, <1>2, TableAssumption DEF Range

\* An answer of no: whatever classes the bases are, none has the name.
LEMMA NoMeans ==
    ASSUME NEW index \in Indexes, NEW name, IsFiniteSet(Keys), NEW key \in Keys,
           ClassHas(index, key, name) = "no"
    PROVE  \A j \in {key} \cup Reachable(Keys, BaseEdges(index), key) :
               name \notin index.classes[j].attrs /\ ~index.classes[j].dynamic
<1> DEFINE C == ClassAnswers(index, name)
           E == BaseEdges(index)
           H == {p \in (SUBSET Keys) \X Keys : p[2] \notin p[1] /\ C[p[1]][p[2]] = "no"}
           Good == {j \in Keys : name \notin index.classes[j].attrs /\ ~index.classes[j].dynamic}
<1>0. \A seen \in SUBSET Keys, x \in Keys :
        <<seen, x>> \in H <=> x \notin seen /\ C[seen][x] = "no"
  <2> HIDE DEF C
  <2> QED OBVIOUS
<1>1. ASSUME NEW seen \in SUBSET Keys, NEW x \in Keys \ seen, <<seen, x>> \in H
      PROVE  /\ x \in Good
             /\ \A y \in Keys \ (seen \cup {x}) : <<x, y>> \in E => <<seen \cup {x}, y>> \in H
  <2>1. C[seen][x] = "no"
    <3> HIDE DEF H, C
    <3> QED BY <1>0, <1>1
  <2>2. C[seen][x] = Ancestors(index, name, C[seen \cup {x}], seen, x)
    BY ClassAnswerOf
  <2>3. seen \cup {x} \in SUBSET Keys
    OBVIOUS
  <2> HIDE DEF C, H
  <2>4. /\ x \in Good
        /\ \A b \in index.classes[x].bases :
              Results(C[seen \cup {x}], index, seen, x, b) \cap {"yes", "unknown"} = {}
    BY <2>1, <2>2, AnswerOfBases
  <2>5. ASSUME NEW y \in Keys \ (seen \cup {x}), <<x, y>> \in E
        PROVE  <<seen \cup {x}, y>> \in H
    <3>1. PICK b \in index.classes[x].bases : y \in Candidates(index, x, b)
      BY <2>5 DEF BaseEdges
    <3>2. C[seen \cup {x}][y] \in Results(C[seen \cup {x}], index, seen, x, b)
      BY <3>1 DEF Results
    <3>3. C[seen \cup {x}][y] \in {"yes", "no", "unknown"}
      <4> DEFINE after == seen \cup {x}
      <4>1. after \in SUBSET Keys /\ y \in Keys \ after
        BY <2>3, <2>5
      <4> HIDE DEF after
      <4>2. C[after][y] = Ancestors(index, name, C[after \cup {y}], after, y)
        BY <4>1, ClassAnswerOf DEF C
      <4>3. C[after][y] \in {"yes", "no", "unknown"}
        BY <4>2, AnswerOfBases
      <4> QED BY <4>3 DEF after
    <3>4. C[seen \cup {x}][y] = "no"
      BY <2>4, <3>1, <3>2, <3>3
    <3> QED BY <1>0, <2>3, <3>4
  <2> QED BY <2>4, <2>5
<1>2. <<{}, key>> \in H
  <2>1. C[{}][key] = "no"
    BY ClassHasIsChosen
  <2>2. {} \in SUBSET Keys
    OBVIOUS
  <2> HIDE DEF H, C
  <2> QED BY <1>0, <2>1, <2>2
<1>3. E \subseteq Keys \X Keys
  BY DEF BaseEdges
<1>4. {key} \cup Reachable(Keys, E, key) \subseteq Good
  <2>1. PassedOn(Keys, E, Good, H)
    <3> HIDE DEF E, H, Good
    <3> QED BY <1>1 DEF PassedOn
  <2> HIDE DEF E, H, Good
  <2> QED BY <1>2, <1>3, <2>1, SearchReaches
<1> QED BY <1>4

Resolvable(index) ==
    {ref \in index.keys \X Range(SimpleName) :
        ref[2] \in index.classes[ref[1]].bases /\ Candidates(index, ref[1], ref[2]) # {}}

LEMMA ResolutionMeaning ==
    ASSUME NEW index \in Indexes, NEW edges \in Resolutions(index)
    PROVE  /\ edges \subseteq BaseEdges(index)
           /\ edges \subseteq index.keys \X index.keys
           /\ index.keys \subseteq Keys
           /\ \A k \in index.keys : k \notin Reachable(index.keys, edges, k)
           /\ \A k \in index.keys : \A b \in index.classes[k].bases :
                 Candidates(index, k, b) # {} =>
                     \E c \in Candidates(index, k, b) : <<k, c>> \in edges
<1> DEFINE refs == Resolvable(index)
           edgesOf(r) == {<<ref[1], r[ref]>> : ref \in refs}
<1>1. PICK r \in [refs -> index.keys] :
        /\ \A ref \in refs : r[ref] \in Candidates(index, ref[1], ref[2])
        /\ \A k \in index.keys : k \notin Reachable(index.keys, edgesOf(r), k)
        /\ edges = edgesOf(r)
  BY DEF Resolutions, Resolvable
<1>2. index.keys \subseteq Keys
  BY DEF Indexes
<1>3. \A e \in edges : \E ref \in refs : e = <<ref[1], r[ref]>>
  BY <1>1
<1>4. ASSUME NEW e \in edges
      PROVE  e \in BaseEdges(index) /\ e \in index.keys \X index.keys
  <2>1. PICK ref \in refs : e = <<ref[1], r[ref]>>
    BY <1>3
  <2>2. ref[1] \in index.keys /\ ref[2] \in index.classes[ref[1]].bases
    BY DEF Resolvable
  <2>3. r[ref] \in index.keys /\ r[ref] \in Candidates(index, ref[1], ref[2])
    BY <1>1
  <2> QED BY <1>2, <2>1, <2>2, <2>3 DEF BaseEdges
<1>5. ASSUME NEW k \in index.keys, NEW b \in index.classes[k].bases, Candidates(index, k, b) # {}
      PROVE  \E c \in Candidates(index, k, b) : <<k, c>> \in edges
  <2>1. b \in Range(SimpleName)
    BY <1>5, CandidateType
  <2>2. <<k, b>> \in refs
    BY <1>5, <2>1 DEF Resolvable
  <2>3. r[<<k, b>>] \in Candidates(index, k, b)
    BY <1>1, <2>2
  <2>4. <<k, r[<<k, b>>]>> \in edgesOf(r)
    BY <2>2
  <2> QED BY <1>1, <2>3, <2>4
<1> QED BY <1>1, <1>2, <1>4, <1>5

\* An answer of yes: whichever of the classes with its name a base turns out to
\* be, the class inherits the name.
LEMMA YesMeans ==
    ASSUME NEW index \in Indexes, NEW name, IsFiniteSet(Keys), NEW key \in index.keys,
           ClassHas(index, key, name) = "yes", NEW edges \in Resolutions(index)
    PROVE  Inherits(index, edges, key, name)
<1> DEFINE C == ClassAnswers(index, name)
           Bad == {seen \in SUBSET Keys :
                      \E x \in index.keys \ seen :
                         /\ C[seen][x] = "yes" /\ ~Inherits(index, edges, x, name)
                         /\ \A s \in seen : x \in Reachable(index.keys, edges, s)}
<1>1. edges \subseteq index.keys \X index.keys /\ index.keys \subseteq Keys
  BY ResolutionMeaning
<1>2. ASSUME NEW seen \in Bad
      PROVE  seen \subseteq Keys /\ \E x \in Keys \ seen : seen \cup {x} \in Bad
  <2>1. PICK x \in index.keys \ seen :
          /\ C[seen][x] = "yes" /\ ~Inherits(index, edges, x, name)
          /\ \A s \in seen : x \in Reachable(index.keys, edges, s)
    OBVIOUS
  <2>2. seen \in SUBSET Keys /\ x \in Keys \ seen
    BY <1>1
  <2>3. C[seen][x] = Ancestors(index, name, C[seen \cup {x}], seen, x)
    <3> HIDE DEF Bad
    <3> QED BY <2>2, ClassAnswerOf
  <2> HIDE DEF C
  <2>4. name \notin index.classes[x].attrs
    BY <2>1 DEF Inherits, Ancestry
  <2>5. PICK b \in index.classes[x].bases :
          Results(C[seen \cup {x}], index, seen, x, b) = {"yes"}
    BY <2>1, <2>3, <2>4, AnswerOfBases
  <2>6. Candidates(index, x, b) # {}
    BY <2>5 DEF Results
  <2>7. PICK y \in Candidates(index, x, b) : <<x, y>> \in edges
    BY <2>6, ResolutionMeaning
  <2>8. y \in index.keys /\ y \in Keys /\ y # x
    BY <2>7, CandidateType
  <2>9. ASSUME NEW s \in seen \cup {x} PROVE y \in Reachable(index.keys, edges, s)
    <3>1. x \in {s} \cup Reachable(index.keys, edges, s)
      BY <2>1
    <3> QED BY <2>7, <2>8, <3>1, ReachStep
  <2>10. y \notin seen
    BY <2>8, <2>9, ResolutionMeaning
  <2>11. C[seen \cup {x}][y] = "yes"
    BY <2>5, <2>7, <2>10 DEF Results
  <2>12. ~Inherits(index, edges, y, name)
    <3>1. edges \in SUBSET (Keys \X Keys)
      BY <1>1
    <3>2. y \in Reachable(Keys, edges, x)
      BY <2>7, <2>8, ReachStep
    <3>3. Reachable(Keys, edges, y) \subseteq Reachable(Keys, edges, x)
      BY <3>1, <3>2, ReachOn
    <3> QED BY <2>1, <3>2, <3>3 DEF Inherits, Ancestry
  <2>13. seen \cup {x} \in SUBSET Keys /\ y \in index.keys \ (seen \cup {x})
    BY <2>2, <2>8, <2>10
  <2>14. seen \cup {x} \in Bad
    BY <2>9, <2>11, <2>12, <2>13
  <2> QED BY <2>2, <2>14
<1>3. Bad = {}
  <2> HIDE DEF Bad
  <2> QED BY <1>2, NoneBad
<1>4. C[{}][key] = "yes" /\ {} \in SUBSET Keys
  BY ClassHasIsChosen
<1> HIDE DEF C
<1> QED BY <1>3, <1>4

LEMMA ReachMono ==
    ASSUME NEW N, NEW E, NEW F, E \subseteq F, NEW x
    PROVE  Reachable(N, E, x) \subseteq Reachable(N, F, x)
BY DEF Reachable

\* What an answer of no rules out, whichever classes the bases turn out to be.
LEMMA NoInheritance ==
    ASSUME NEW index \in Indexes, NEW name, NEW key \in index.keys,
           ClassHas(index, key, name) = "no", NEW edges \in Resolutions(index)
    PROVE  /\ ~Inherits(index, edges, key, name)
           /\ \A j \in Ancestry(edges, key) : ~index.classes[j].dynamic
<1>1. key \in Keys /\ edges \subseteq BaseEdges(index)
  BY ResolutionMeaning
<1>2. Ancestry(edges, key) \subseteq {key} \cup Reachable(Keys, BaseEdges(index), key)
  BY <1>1, ReachMono DEF Ancestry
<1>3. IsFiniteSet(Keys)
  BY TableAssumption
<1> QED BY <1>1, <1>2, <1>3, NoMeans DEF Inherits

\* What AttributeClass says of the answers.
LEMMA ClassMeaning ==
    ASSUME NEW base, NEW head, NEW class, NEW name
    PROVE  LET keys == Named(base, class)
               k == AttributeClass(base, head, class, name)
           IN  /\ k = "absent" =>
                     /\ keys \subseteq head.keys
                     /\ \A key \in keys : ClassHas(base, key, name) = "no"
                                          /\ ClassHas(head, key, name) = "yes"
               /\ k = "present" /\ keys # {} =>
                     \A key \in keys : ClassHas(base, key, name) = "yes"
<1> DEFINE keys == Named(base, class)
           baseHas == {ClassHas(base, key, name) : key \in keys}
           headHas == {ClassHas(head, key, name) : key \in keys}
           k == AttributeClass(base, head, class, name)
<1>1. k = IF keys = {} /\ Named(head, class) = {} THEN "present"
          ELSE IF keys = {} \/ ~(keys \subseteq head.keys) THEN "unattributed"
          ELSE IF baseHas = {"yes"} THEN "present"
          ELSE IF baseHas = {"no"} /\ headHas = {"yes"} THEN "absent"
          ELSE "unattributed"
  BY DEF AttributeClass
<1>2. \A a : baseHas = {a} => \A key \in keys : ClassHas(base, key, name) = a
  OBVIOUS
<1>3. \A a : headHas = {a} => \A key \in keys : ClassHas(head, key, name) = a
  OBVIOUS
<1> HIDE DEF baseHas, headHas, keys, k
<1>4. k = "absent" => keys \subseteq head.keys /\ baseHas = {"no"} /\ headHas = {"yes"}
  BY <1>1
<1>5. k = "present" /\ keys # {} => baseHas = {"yes"}
  BY <1>1
<1>6. /\ k = "absent" =>
            /\ keys \subseteq head.keys
            /\ \A key \in keys : ClassHas(base, key, name) = "no"
                                 /\ ClassHas(head, key, name) = "yes"
      /\ k = "present" /\ keys # {} => \A key \in keys : ClassHas(base, key, name) = "yes"
  BY <1>2, <1>3, <1>4, <1>5
<1> QED BY <1>6 DEF keys, k

\* The attribution of the last message, whenever it was about a class.
ClassInv ==
    message # None /\ message.kind = "class" =>
        kind = AttributeClass(project.base, project.head, message.class, message.name)

LEMMA ClassInvCertain == project \in Projects /\ ClassInv => ClassAbsenceIsCertain
<1> SUFFICES ASSUME project \in Projects, ClassInv, message # None, message.kind = "class"
             PROVE  LET keys == Named(project.base, message.class)
                    IN  /\ kind = "absent" =>
                              /\ \A k \in keys, edges \in Resolutions(project.base) :
                                    /\ ~Inherits(project.base, edges, k, message.name)
                                    /\ \A j \in Ancestry(edges, k) :
                                          ~project.base.classes[j].dynamic
                              /\ \A k \in keys, edges \in Resolutions(project.head) :
                                    Inherits(project.head, edges, k, message.name)
                        /\ kind = "present" /\ keys # {} =>
                              \A k \in keys, edges \in Resolutions(project.base) :
                                  Inherits(project.base, edges, k, message.name)
  BY DEF ClassAbsenceIsCertain
<1> DEFINE b == project.base
           h == project.head
           keys == Named(b, message.class)
           name == message.name
<1>1. b \in Indexes /\ h \in Indexes /\ IsFiniteSet(Keys)
  BY TableAssumption DEF Projects
<1>2. keys \subseteq b.keys
  BY DEF Named
<1>3. /\ kind = "absent" =>
            /\ keys \subseteq h.keys
            /\ \A k \in keys : ClassHas(b, k, name) = "no" /\ ClassHas(h, k, name) = "yes"
      /\ kind = "present" /\ keys # {} => \A k \in keys : ClassHas(b, k, name) = "yes"
  BY ClassMeaning DEF ClassInv
<1> HIDE DEF b, h, keys, name
<1>4. ASSUME kind = "absent", NEW k \in keys, NEW edges \in Resolutions(b)
      PROVE  ~Inherits(b, edges, k, name) /\ \A j \in Ancestry(edges, k) : ~b.classes[j].dynamic
  BY <1>1, <1>2, <1>3, <1>4, NoInheritance
<1>5. ASSUME kind = "absent", NEW k \in keys, NEW edges \in Resolutions(h)
      PROVE  Inherits(h, edges, k, name)
  <2>1. k \in h.keys /\ ClassHas(h, k, name) = "yes"
    BY <1>3, <1>5
  <2> QED BY <1>1, <2>1, YesMeans
<1>6. ASSUME kind = "present", NEW k \in keys, NEW edges \in Resolutions(b)
      PROVE  Inherits(b, edges, k, name)
  <2>1. k \in b.keys /\ ClassHas(b, k, name) = "yes"
    BY <1>2, <1>3, <1>6
  <2> QED BY <1>1, <2>1, YesMeans
<1> QED BY <1>4, <1>5, <1>6 DEF b, h, keys, name

LEMMA ClassNext ==
    ASSUME project \in Projects, ClassInv, [Next]_vars
    PROVE  (project \in Projects)' /\ ClassInv'
<1>1. CASE \E msg \in project.messages, collecting \in BOOLEAN : Ask(msg, collecting)
  <2>1. PICK msg \in project.messages, collecting \in BOOLEAN : Ask(msg, collecting)
    BY <1>1
  <2>2. project' = project /\ message' = msg
        /\ kind' = Attribute(project.base, project.head, baseCache', headCache', msg)
    BY <2>1 DEF Ask
  <2>3. msg.kind = "class" =>
          kind' = AttributeClass(project.base, project.head, msg.class, msg.name)
    BY <2>2 DEF Attribute
  <2> QED BY <2>2, <2>3 DEF ClassInv
<1>2. CASE UNCHANGED <<project, message, kind>>
  BY <1>2 DEF ClassInv
<1> QED BY <1>1, <1>2 DEF Next, Visit, Conclude, vars

\* However the classes of a project derive from each other, and whichever of the
\* classes with its name a base turns out to be, an attribute is called absent
\* only if base certainly lacks it and head certainly has it, and present only if
\* base certainly has it (attribute, class_has).
THEOREM ClassAbsenceIsAlwaysCertain == SpecOfAny => []ClassAbsenceIsCertain
<1>1. (\E p \in Projects : Start(p)) => project \in Projects /\ ClassInv
  BY DEF Start, ClassInv
<1>2. project \in Projects /\ ClassInv /\ [Next]_vars => (project \in Projects /\ ClassInv)'
  BY ClassNext
<1> QED BY <1>1, <1>2, ClassInvCertain, PTL DEF SpecOfAny
=============================================================================
