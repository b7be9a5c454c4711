----------------------------- MODULE Attribution -----------------------------
(***************************************************************************)
(* The attributor of one probe, _Attributor of validity_audit/fbpa.py, as  *)
(* its claims use it: messages arrive in any order and share the caches of *)
(* the two indexes.  A collection failure goes on to ask whether the test  *)
(* can reach the missing name at all (_reference_closure).                 *)
(*                                                                         *)
(* A source is what that search reads of a test module: per item (the test *)
(* function, other definitions) the names it uses, the attributes it reads *)
(* of other objects and those it reads of self; module level definitions   *)
(* and members of the enclosing class by name; which items are fixtures;   *)
(* and the local names of the failing import that stand for the target.    *)
(* A project is the two indexes, a source and the messages its tests leave.*)
(***************************************************************************)
EXTENDS SymbolTables

CONSTANTS
    Items, Refs   \* definitions of a test module, names it uses

VARIABLES
    project,
    baseCache, headCache,
    pc,
    message, kind,                  \* the last message and its attribution
    worklist, visited, referenced, attributes,
    reached                         \* whether the test references the target

searching == <<worklist, visited, referenced, attributes>>
vars == <<project, baseCache, headCache, pc, message, kind, searching, reached>>

source == project.source

Empty == [f \in Files |-> None]

Start(p) ==
    /\ project = p
    /\ baseCache = Empty /\ headCache = Empty
    /\ pc = "ready" /\ message = None /\ kind = None
    /\ worklist = {} /\ visited = {} /\ referenced = {} /\ attributes = {}
    /\ reached = None
-----------------------------------------------------------------------------
\* attribute(), for a case, a conftest or a collection failure.
Ask(msg, collecting) ==
    /\ pc = "ready"
    /\ baseCache' = Remember(project.base, baseCache, FilesAsked(project.base, msg))
    /\ headCache' = Remember(project.head, headCache, FilesAsked(project.head, msg))
    /\ message' = msg
    /\ kind' = Attribute(project.base, project.head, baseCache', headCache', msg)
    /\ reached' = None
    /\ IF collecting /\ kind' = "absent"
       THEN /\ pc' = "search" /\ worklist' = {source.func}
            /\ visited' = {} /\ referenced' = {} /\ attributes' = {}
       ELSE UNCHANGED <<pc, searching>>
    /\ UNCHANGED project

\* Definitions that a name leads to: those of the module, and a fixture of the
\* enclosing class.
Leads(name) ==
    source.defs[name] \cup ({source.members[name]} \cap source.fixtures)

\* Members of the class that an item reads of self.
Members(item) == {source.members[name] : name \in source.selfs[item]} \ {None}

\* Mutant: names count as referenced before their definitions are looked up.
VisitLate(item) ==
    /\ pc = "search" /\ item \in worklist \ visited
    /\ visited' = visited \cup {item}
    /\ referenced' = referenced \cup source.names[item]
    /\ attributes' = attributes \cup source.attrs[item] \cup source.selfs[item]
    /\ worklist' = (worklist \ {item}) \cup Members(item)
          \cup UNION {Leads(name) : name \in source.names[item] \ referenced'}
    /\ UNCHANGED <<project, baseCache, headCache, pc, message, kind, reached>>

\* The order is that of a set of strings, which differs from one interpreter to
\* the next.
Visit(item) ==
    /\ pc = "search" /\ item \in worklist \ visited
    /\ visited' = visited \cup {item}
    /\ referenced' = referenced \cup source.names[item]
    /\ attributes' = attributes \cup source.attrs[item] \cup source.selfs[item]
    /\ worklist' = (worklist \ {item}) \cup Members(item)
          \cup UNION {Leads(name) : name \in source.names[item] \ referenced}
    /\ UNCHANGED <<project, baseCache, headCache, pc, message, kind, reached>>

Conclude ==
    /\ pc = "search" /\ worklist \subseteq visited
    /\ reached' = (source.local \cap (referenced \cup attributes) # {})
    /\ pc' = "ready"
    /\ UNCHANGED <<project, baseCache, headCache, message, kind, searching>>

Next ==
    \/ \E msg \in project.messages, collecting \in BOOLEAN : Ask(msg, collecting)
    \/ \E item \in Items : Visit(item)
    \/ Conclude
-----------------------------------------------------------------------------
\* Any project.

Tables == [names: SUBSET Names, stars: SUBSET SUBSET Files,
           all: {None} \cup SUBSET Names, dynamic: BOOLEAN]

Classes == [attrs: SUBSET Names, bases: SUBSET Range(SimpleName), dynamic: BOOLEAN]

\* What star imports mean, without following them one by one: rel binds name if
\* a file binds it, or lists it in __all__, that star imports lead to from rel
\* through files that pass it on.
PassesOn(index, f, name) ==
    IF index.tables[f].all = None THEN name \notin Private ELSE name \in index.tables[f].all

Binds(index, rel, name) ==
    LET edges == {e \in Stars(index) : PassesOn(index, e[2], name)}
        reach == Reachable(Files, edges, rel) \ {rel}
    IN  \/ name \in index.tables[rel].names
        \/ \E f \in reach : \/ name \in index.tables[f].names
                            \/ index.tables[f].all # None

\* A star import of a module whose __all__ lists a name it does not bind fails; a
\* module that leaves such a name to its __getattr__ is left out.
Loads(index) ==
    \A star \in Stars(index) :
        LET all == index.tables[star[2]].all
        IN  all # None => \A name \in all : Binds(index, star[2], name)

Indexes ==
    {index \in [py: SUBSET Files, tables: [Files -> Tables],
                modules: [Modules -> Seq(Files)],
                packages: [Modules -> {None} \cup SUBSET Names],
                basenames: SUBSET Modules, keys: SUBSET Keys, classes: [Keys -> Classes]] :
        /\ Loads(index)
        /\ \A module \in Modules : Range(index.modules[module]) \subseteq index.py}

Sources ==
    [func: Items, names: [Items -> SUBSET Refs], attrs: [Items -> SUBSET Refs],
     selfs: [Items -> SUBSET Refs], defs: [Refs -> SUBSET Items],
     members: [Refs -> {None} \cup Items], fixtures: SUBSET Items, local: SUBSET Refs]

Messages ==
    [kind: {"attribute"}, module: Modules, name: Names]
    \cup [kind: {"name"}, file: {None} \cup Files, name: Names]
    \cup [kind: {"class"}, class: Range(SimpleName), name: Names]
    \cup [kind: {"no module"}, module: Modules]
    \cup [kind: {"other"}]

Projects == [base: Indexes, head: Indexes, source: Sources, messages: SUBSET Messages]

SpecOfAny == (\E p \in Projects : Start(p)) /\ [][Next]_vars
-----------------------------------------------------------------------------
\* What files there are may bind a name, if some cannot be read in full.
MayBind(index, rel, name) ==
    \/ Binds(index, rel, name)
    \/ \E f \in {rel} \cup Reachable(Files, Stars(index), rel) :
          index.tables[f].dynamic \/ {} \in index.tables[f].stars

\* The files a message may mean.
Meant(index, msg) ==
    IF msg.kind = "name" THEN {msg.file} \cap index.py ELSE Range(index.modules[msg.module])

AllBind(index, msg) == \A f \in Meant(index, msg) : Binds(index, f, msg.name)

SomeMayBind(index, msg) == \E f \in Meant(index, msg) : MayBind(index, f, msg.name)

\* A name is called absent exactly if no file that may be meant can bind it at
\* base and every one binds it at head, and present exactly if every one binds it
\* at base, in whatever order the messages came (section 3.1).
AbsenceIsExact ==
    message # None /\ message.kind \in {"attribute", "name"} =>
        (Meant(project.base, message) # {} /\ Meant(project.head, message) # {} =>
            /\ kind = "present" <=> AllBind(project.base, message)
            /\ kind = "absent" <=>
                  ~SomeMayBind(project.base, message) /\ AllBind(project.head, message))

\* The classes a base may turn out to be, for every base the index can resolve:
\* one choice per class statement, without a cycle.
Resolutions(index) ==
    LET refs == {ref \in index.keys \X Range(SimpleName) :
                    /\ ref[2] \in index.classes[ref[1]].bases
                    /\ Candidates(index, ref[1], ref[2]) # {}}
        edges(r) == {<<ref[1], r[ref]>> : ref \in refs}
    IN  {edges(r) :
            r \in {r \in [refs -> index.keys] :
                      /\ \A ref \in refs : r[ref] \in Candidates(index, ref[1], ref[2])
                      /\ \A k \in index.keys : k \notin Reachable(index.keys, edges(r), k)}}

Ancestry(edges, key) == {key} \cup Reachable(Keys, edges, key)

Inherits(index, edges, key, name) ==
    \E k \in Ancestry(edges, key) : name \in index.classes[k].attrs

\* An attribute of a class is called absent only if no class of that name has it
\* at base and every one has it at head, whichever of the classes with its name a
\* base turns out to be; and present only if every one has it at base.
ClassAbsenceIsCertain ==
    message # None /\ message.kind = "class" =>
        LET keys == Named(project.base, message.class)
        IN  /\ kind = "absent" =>
                  /\ \A k \in keys, edges \in Resolutions(project.base) :
                        /\ ~Inherits(project.base, edges, k, message.name)
                        /\ \A j \in Ancestry(edges, k) : ~project.base.classes[j].dynamic
                  /\ \A k \in keys, edges \in Resolutions(project.head) :
                        Inherits(project.head, edges, k, message.name)
            /\ kind = "present" /\ keys # {} =>
                  \A k \in keys, edges \in Resolutions(project.base) :
                      Inherits(project.base, edges, k, message.name)

\* A definition leads to another that it names, or reads of self.
Uses ==
    {use \in Items \X Items :
        \/ \E name \in source.names[use[1]] : use[2] \in Leads(name)
        \/ use[2] \in Members(use[1])}

\* The search finds the names of the definitions reachable from the test, in
\* whatever order it visits them, so that a second run gives the same report.
ClosureIsReachability ==
    reached # None =>
        (reached <=>
            \E i \in {source.func} \cup Reachable(Items, Uses, source.func) :
                source.local \cap (source.names[i] \cup source.attrs[i] \cup source.selfs[i]) # {})
=============================================================================
