---------------------------- MODULE SymbolTables ----------------------------
(***************************************************************************)
(* The scoped symbol tables of validity_audit/fbpa.py: what the index of   *)
(* one worktree knows of the names a module binds, star imports expanded,  *)
(* and of the attributes a class has through its bases, and how an error   *)
(* message is attributed to a name that only head has.                     *)
(*                                                                         *)
(* An index is a record:                                                   *)
(*   py         the files of the worktree                                  *)
(*   tables     of every file: names it binds itself, its star imports     *)
(*              (each the set of files it may mean, {} if unreadable), its *)
(*              __all__ or None, whether it has a module __getattr__       *)
(*   modules    of every dotted name: its files, in order                  *)
(*   packages   of every dotted name without files: its children, or None  *)
(*   basenames  dotted names whose top level is a file or directory name   *)
(*   keys       the classes of the worktree                                *)
(*   classes    of every class: attributes, simple names of bases, dynamic *)
(***************************************************************************)
EXTENDS Integers, Sequences, FiniteSets, Functions, SequencesExt

CONSTANTS
    Files, Modules,
    Names,
    Private,     \* names that begin with an underscore
    Keys,        \* classes, by file and qualified name
    SimpleName,  \* the last part of a key
    None

ASSUME TableAssumption ==
    /\ IsFiniteSet(Files) /\ IsFiniteSet(Keys)
    /\ None \notin Files
    /\ Private \subseteq Names /\ DOMAIN SimpleName = Keys

\* Answers of the lookups.
Answers == {"yes", "no", "unknown", "missing"}

\* True for a name in the table, None under a dynamic table, else False.
Answer(has, dynamic) == IF has THEN "yes" ELSE IF dynamic THEN "unknown" ELSE "no"

\* The one answer all of a set agree on.
Consensus(answers) ==
    IF Cardinality(answers) = 1 THEN CHOOSE a \in answers : TRUE ELSE "unknown"
-----------------------------------------------------------------------------
\* Module names

\* What a star import takes from a module.
Exported(table, names) == IF table.all = None THEN names \ Private ELSE table.all

\* module_names: the names of a file and whether it may have others, where the
\* files of seen are being expanded already and cached results are taken as they
\* are.
ModuleNames(index, cache) ==
    LET N[seen \in SUBSET Files] == [rel \in Files \ seen |->
            LET table == index.tables[rel]
                targets == (UNION table.stars) \ (seen \cup {rel})
                of(target) == N[seen \cup {rel}][target]
            IN  IF cache[rel] # None THEN cache[rel]
                ELSE [names |-> table.names \cup
                          UNION {Exported(index.tables[t], of(t).names) : t \in targets},
                      dynamic |-> \/ table.dynamic \/ {} \in table.stars
                                  \/ \E t \in targets : of(t).dynamic]]
    IN  N

Stars(index) ==
    {edge \in Files \X Files : edge[2] \in UNION index.tables[edge[1]].stars}

\* What edges lead to from x, in one step or more: all that belongs to every set
\* closed under them.
Reachable(nodes, edges, x) ==
    {y \in nodes :
        \A S \in SUBSET nodes : (\A e \in edges : e[1] \in S \cup {x} => e[2] \in S) => y \in S}

\* Mutant: the results for files met on the way are kept, too.
RememberInner(index, cache, files) ==
    LET add(c, rel) ==
            [f \in Files |->
                IF c[f] # None \/ f \notin {rel} \cup Reachable(Files, Stars(index), rel) THEN c[f]
                ELSE ModuleNames(index, c)[IF f = rel THEN {} ELSE {rel}][f]]
    IN  FoldLeft(add, cache, files)

\* The result is kept for the file that was asked for only.
Keep(index, cache, rel) ==
    IF cache[rel] # None THEN cache
    ELSE [cache EXCEPT ![rel] = ModuleNames(index, cache)[{}][rel]]

\* The caches after some files were asked for one after another.
Remember(index, cache, files) ==
    LET after[n \in 0..Len(files)] ==
            IF n = 0 THEN cache ELSE Keep(index, after[n - 1], files[n])
    IN  after[Len(files)]

\* file_has and module_has, for files whose names the cache holds by now.
FileHas(index, cache, rel, name) ==
    IF rel \notin index.py THEN "unknown"
    ELSE Answer(name \in cache[rel].names, cache[rel].dynamic)

ModuleHas(index, cache, module, name) ==
    IF index.modules[module] # <<>>
    THEN Consensus({FileHas(index, cache, rel, name) : rel \in Range(index.modules[module])})
    ELSE IF index.packages[module] = None THEN "missing"
    ELSE Answer(name \in index.packages[module], FALSE)

ModuleExists(index, module) ==
    index.modules[module] # <<>> \/ index.packages[module] # None
-----------------------------------------------------------------------------
\* Classes

Named(index, simple) == {k \in index.keys : SimpleName[k] = simple}

Candidates(index, key, base) == Named(index, base) \ {key}

\* Mutant: a base that may not have the name is as good as one that has it.
BaseHasAny(answers) == "yes" \in answers

BaseHas(answers) == answers = {"yes"}

\* class_has: base classes are found by their simple names, in any file.
ClassHas(index, key, name) ==
    LET H[seen \in SUBSET Keys] == [k \in Keys \ seen |->
            LET results(base) ==
                    {H[seen \cup {k}][c] : c \in Candidates(index, k, base) \ seen}
                bases == index.classes[k].bases
            IN  IF name \in index.classes[k].attrs \/ \E b \in bases : BaseHas(results(b))
                THEN "yes"
                ELSE Answer(FALSE, \/ index.classes[k].dynamic
                                   \/ \E b \in bases : results(b) \cap {"yes", "unknown"} # {})]
    IN  H[{}][key]
-----------------------------------------------------------------------------
\* Attribution of a message:
\*   [kind |-> "no module", module]      No module named 'm'
\*   [kind |-> "attribute", module, name]  cannot import name, module has no attribute
\*   [kind |-> "class", class, name]     'C' object has no attribute
\*   [kind |-> "name", file, name]       name is not defined; file None outside the project
\*   [kind |-> "other"]                  anything else

Mentioned(base, head, module) ==
    \E index \in {base, head} : module \in index.basenames \/ ModuleExists(index, module)

Decide(baseHas, headHas) ==
    IF baseHas = "yes" THEN "present"
    ELSE IF baseHas = "unknown" THEN "unattributed"
    ELSE IF headHas = "yes" THEN "absent" ELSE "unattributed"

AttributeModule(base, head, module) ==
    IF ModuleExists(base, module) THEN "present"
    ELSE IF ModuleExists(head, module) THEN "absent"
    ELSE IF Mentioned(base, head, module) THEN "unattributed" ELSE "present"

AttributeAttribute(base, head, baseCache, headCache, module, name) ==
    LET baseHas == ModuleHas(base, baseCache, module, name)
        headHas == ModuleHas(head, headCache, module, name)
    IN  IF baseHas = "missing" /\ headHas = "missing"
        THEN IF Mentioned(base, head, module) THEN "unattributed" ELSE "present"
        ELSE Decide(IF baseHas = "missing" THEN "no" ELSE baseHas, headHas)

AttributeClass(base, head, class, name) ==
    LET keys == Named(base, class)
        baseHas == {ClassHas(base, k, name) : k \in keys}
        headHas == {ClassHas(head, k, name) : k \in keys}
    IN  IF keys = {} /\ Named(head, class) = {} THEN "present"
        ELSE IF keys = {} \/ ~(keys \subseteq head.keys) THEN "unattributed"
        ELSE IF baseHas = {"yes"} THEN "present"
        ELSE IF baseHas = {"no"} /\ headHas = {"yes"} THEN "absent"
        ELSE "unattributed"

Attribute(base, head, baseCache, headCache, message) ==
    CASE message.kind = "no module" -> AttributeModule(base, head, message.module)
      [] message.kind = "attribute" ->
            AttributeAttribute(base, head, baseCache, headCache, message.module, message.name)
      [] message.kind = "class" -> AttributeClass(base, head, message.class, message.name)
      [] message.kind = "name" ->
            IF message.file = None THEN "present"
            ELSE Decide(FileHas(base, baseCache, message.file, message.name),
                        FileHas(head, headCache, message.file, message.name))
      [] OTHER -> "unattributed"

\* The files a message makes one side expand.
FilesAsked(index, message) ==
    CASE message.kind = "attribute" -> index.modules[message.module]
      [] message.kind = "name" ->
            IF message.file \in index.py THEN <<message.file>> ELSE <<>>
      [] OTHER -> <<>>
=============================================================================
