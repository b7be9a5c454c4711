---------------------------- MODULE MCAttribution ----------------------------
(***************************************************************************)
(* Three families of projects: three files a, b, c with every arrangement  *)
(* of star imports between them; four classes with every arrangement of    *)
(* base names; and test modules with two helper definitions.               *)
(***************************************************************************)
EXTENDS Attribution

CONSTANTS a, b, c, pkg, both, space, gone, n, _n, c1, c2, d1, d2, C, D,
          test, helper, member, target

MCSimpleName == [k \in {c1, c2, d1, d2} |-> IF k \in {c1, c2} THEN C ELSE D]

Table(names, stars, all, dynamic) ==
    [names |-> names, stars |-> stars, all |-> all, dynamic |-> dynamic]
Plain(names) == Table(names, {}, None, FALSE)

Class(attrs, bases, dynamic) == [attrs |-> attrs, bases |-> bases, dynamic |-> dynamic]
NoClasses == [k \in Keys |-> Class({}, {}, FALSE)]

\* pkg is file a, both is b or c, space a namespace package, gone nothing.
Index(tables, keys, classes) ==
    [py |-> Files, tables |-> tables,
     modules |-> [m \in Modules |->
         IF m = pkg THEN <<a>> ELSE IF m = both THEN <<b, c>> ELSE <<>>],
     packages |-> [m \in Modules |-> IF m = space THEN {n} ELSE None],
     basenames |-> {pkg, both}, keys |-> keys, classes |-> classes]

StarsOf(f) == SUBSET {{g} : g \in Files \ {f}}

\* Star imports: a binds nothing itself, b and c may bind n or _n.
StarTables ==
    {[f \in Files |-> IF f = a THEN ta ELSE IF f = b THEN tb ELSE tc] :
        ta \in {Table({}, s, all, FALSE) : s \in StarsOf(a), all \in {None, {n}}},
        tb \in {Table(names, s, all, FALSE) :
                   names \in SUBSET {n}, s \in StarsOf(b), all \in {None, {}, {n}}},
        tc \in {Table(names, s, all, FALSE) :
                   names \in {{}, {n}, {_n}}, s \in StarsOf(c) \cup {{{a, b}}},
                   all \in {None, {_n}}}
               \cup {Table({}, s, None, TRUE) : s \in StarsOf(c)}
               \cup {Table({}, {{}}, None, FALSE), Table({}, {{c}, {a}}, {}, FALSE)}}

Everything == [f \in Files |-> Plain({n, _n})]
Nothing == [f \in Files |-> Plain({})]

Attr(module, name) == [kind |-> "attribute", module |-> module, name |-> name]
OfFile(f, name) == [kind |-> "name", file |-> f, name |-> name]
OfClass(k) == [kind |-> "class", class |-> k, name |-> n]
NoModule(m) == [kind |-> "no module", module |-> m]

Project(base, head, src, asked) ==
    [base |-> base, head |-> head, source |-> src, messages |-> asked]

NoTest ==
    [func |-> test, names |-> [i \in Items |-> {}], attrs |-> [i \in Items |-> {}],
     selfs |-> [i \in Items |-> {}], defs |-> [r \in Refs |-> {}],
     members |-> [r \in Refs |-> None], fixtures |-> {}, local |-> {}]

Absent == Index(Nothing, {}, NoClasses)
Present == Index(Everything, {}, NoClasses)

\* An arrangement at base against a head with every name, or the reverse.
StarInit ==
    \E tables \in StarTables :
        LET index == Index(tables, {}, NoClasses)
        IN  /\ Loads(index)
            /\ \/ Start(Project(index, Present, NoTest,
                               {Attr(pkg, n), Attr(pkg, _n), Attr(both, n), OfFile(b, n)}))
               \/ Start(Project(Absent, index, NoTest, {Attr(pkg, n), OfFile(b, n), OfFile(c, n)}))

ClassTables ==
    {[k \in Keys |-> Class(IF k \in has THEN {n} ELSE {}, bases[k], k = d1 /\ dynamic)] :
        has \in SUBSET Keys, dynamic \in BOOLEAN,
        bases \in {f \in [Keys -> SUBSET {C, D}] : f[c2] \subseteq {D} /\ f[d2] \subseteq {C}}}

\* Every class has the name at head; or the arrangement is head's, and one class
\* of it is new or gone.
ClassInit ==
    \E classes \in ClassTables :
        \/ Start(Project(Index(Nothing, Keys, classes),
                         Index(Nothing, Keys, [k \in Keys |-> Class({n}, {}, FALSE)]),
                         NoTest, {OfClass(C), OfClass(D)}))
        \/ \E keys \in {{}, {c1}, {c1, c2}} :
              Start(Project(Index(Nothing, keys, NoClasses),
                            Index(Nothing, Keys \ {c2}, classes), NoTest, {OfClass(C)}))

\* The test may use a name of helper, and helper and member each other, as names
\* or through self; member is a member of the test's class, a fixture or not, or
\* a definition of the module.
MCSources ==
    {[func |-> test, names |-> names, attrs |-> [i \in Items |-> {}], selfs |-> selfs,
      defs |-> [r \in Refs |->
          IF r = helper THEN {helper} ELSE IF r = member /\ ~inClass THEN {member} ELSE {}],
      members |-> [r \in Refs |-> IF r = member /\ inClass THEN member ELSE None],
      fixtures |-> IF fixture THEN {member} ELSE {}, local |-> {target}] :
        names \in [Items -> SUBSET Refs],
        selfs \in [Items -> SUBSET {member}], inClass \in BOOLEAN, fixture \in BOOLEAN}

TestInit ==
    \/ \E src \in MCSources : Start(Project(Absent, Present, src, {Attr(pkg, n)}))
    \/ Start(Project(Absent, Present, NoTest,
             {Attr(space, n), Attr(gone, n), OfFile(None, n), NoModule(pkg), NoModule(gone),
              NoModule(both), [kind |-> "other"]}))
    \/ Start(Project([Absent EXCEPT !.py = {a, c}, !.modules[both] = <<c>>], Present, NoTest, {OfFile(b, n)}))

AttributionInit == StarInit \/ ClassInit \/ TestInit
=============================================================================
