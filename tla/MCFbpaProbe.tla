---------------------------- MODULE MCFbpaProbe ----------------------------
(***************************************************************************)
(* What pytest may leave behind for one function with the cases p and q:   *)
(* Thorough varies every way one run can go, Brief keeps a few so that two *)
(* claims can be judged together.                                          *)
(***************************************************************************)
EXTENDS ReportUse

CONSTANTS p, q, module, x, y

MCCaseNames == {p, q, module}

Trouble1(exc, attribution, target, references) ==
    [exc |-> exc, attribution |-> attribution, target |-> target, references |-> references]
Plain(exc) == Trouble1(exc, "present", x, FALSE)
Missing(target, references) == Trouble1("absence", "absent", target, references)
Obscure == Trouble1("absence", "unattributed", x, FALSE)

C(name, outcome, phase, trouble) ==
    [name |-> name, outcome |-> outcome, phase |-> phase, existence |-> None,
     trouble |-> trouble, line |-> "first-line"]

Pass(name) == C(name, "pass", None, Plain(None))
Skip(name) == C(name, "skipped", None, Plain(None))
XPass(name) == C(name, "skipped", None, Plain("xpass"))
Fail(name, exc) == C(name, "failure", "call", Plain(exc))
Error(name, phase) == C(name, "error", phase, Plain("other"))

\* Ways one case can end.
Endings(name) ==
    {Pass(name), Skip(name), XPass(name), Fail(name, "other"), Fail(name, "Failed"),
     Fail(name, "AssertionError"), Fail(name, "MemoryError"), Error(name, "setup"),
     Error(name, "teardown"), [Fail(name, "other") EXCEPT !.line = "other-line"],
     [Fail(name, "AssertionError") EXCEPT !.existence = "absent"],
     [Fail(name, "AssertionError") EXCEPT !.existence = "unattributed"],
     C(name, "failure", "call", Plain("absence")), C(name, "failure", "call", Obscure),
     C(name, "failure", "call", Missing(x, FALSE)), C(name, "failure", "call", Missing(y, FALSE)),
     C(name, "error", "setup", Plain("absence")), C(name, "error", "setup", Missing(x, FALSE))}

FewEndings(name) ==
    {Pass(name), Skip(name), Fail(name, "AssertionError"),
     C(name, "failure", "call", Missing(x, FALSE)), Error(name, "setup")}

Exit(code, cases) ==
    [code |-> code, timedOut |-> FALSE, conftest |-> FALSE, report |-> TRUE,
     cases |-> cases, outside |-> "none", stderr |-> Plain(None)]

Bad(c) == c.outcome \in {"failure", "error"} \/ c.trouble.exc = "xpass"
Honest(cases) == Exit(IF \E c \in Range(cases) : Bad(c) THEN 1 ELSE 0, cases)
Killed(code) ==
    [Exit(code, <<>>) EXCEPT !.report = FALSE, !.outside = "missing"]
Uncollected(trouble) == Exit(2, <<C(module, "error", "collection", trouble)>>)
BadConftest(trouble) == [Killed(4) EXCEPT !.conftest = TRUE, !.stderr = trouble]
NoTests(trouble) == [Exit(5, <<>>) EXCEPT !.stderr = trouble]

Messages == {Plain("other"), Plain("absence"), Plain("SyntaxError"), Obscure,
             Missing(x, TRUE), Missing(y, TRUE), Missing(x, FALSE)}

\* Killed, timed out, usage error, no report, contradictory or foreign runs, and
\* runs interrupted after the first case.
Oddities ==
    {[Killed(124) EXCEPT !.timedOut = TRUE], [Killed(137) EXCEPT !.timedOut = TRUE],
     Killed(137), Killed(-9), Killed(-15), Killed(1), Killed(3), Killed(4), Killed(0),
     Exit(0, <<Fail(p, "other"), Pass(q)>>), Exit(1, <<Pass(p), Pass(q)>>),
     Exit(2, <<Pass(p)>>), Exit(2, <<Fail(p, "AssertionError")>>), Exit(2, <<>>),
     [Exit(0, <<Pass(p), Pass(q)>>) EXCEPT !.outside = "some"],
     [Exit(1, <<Fail(p, "AssertionError"), Pass(q)>>) EXCEPT !.outside = "some"],
     [Exit(5, <<>>) EXCEPT !.outside = "some"], [Exit(0, <<>>) EXCEPT !.outside = "some"],
     [Exit(0, <<Pass(p), Pass(q)>>) EXCEPT !.outside = "missing"]}

ThoroughBase ==
    {Honest(<<a, Pass(q)>>) : a \in Endings(p)}
    \cup {Honest(<<a, b>>) : a \in FewEndings(p), b \in FewEndings(q)}
    \cup {Uncollected(t) : t \in Messages} \cup {BadConftest(t) : t \in Messages}
    \cup {NoTests(t) : t \in Messages} \cup Oddities

ThoroughHead ==
    {Honest(<<a, Pass(q)>>) : a \in FewEndings(p) \cup {XPass(p), Fail(p, "MemoryError")}}
    \cup {Uncollected(Plain("other")), BadConftest(Plain("other")), NoTests(Plain("other")),
          Killed(137), Killed(3), Exit(1, <<Pass(p), Pass(q)>>), Exit(2, <<Pass(p)>>),
          [Killed(124) EXCEPT !.timedOut = TRUE],
          [Exit(0, <<Pass(p), Pass(q)>>) EXCEPT !.outside = "some"],
          [Exit(5, <<>>) EXCEPT !.outside = "some"],
          [Exit(0, <<Pass(p), Pass(q)>>) EXCEPT !.outside = "missing"]}

BriefBase ==
    {Honest(<<Pass(p)>>), Honest(<<Fail(p, "AssertionError")>>),
     Uncollected(Missing(x, TRUE)), Honest(<<Skip(p)>>),
     [Killed(124) EXCEPT !.timedOut = TRUE]}

BriefHead == {Honest(<<Pass(p)>>), Honest(<<Fail(p, "other")>>), NoTests(Plain("other")), Killed(137)}

Override(class, effect) == [class |-> class, effect |-> effect]
MCOverrides ==
    {<<>>, <<Override("material_requirement_miss", "none")>>,
     <<Override("material_requirement_miss", "advisory"), Override("fitness", "fail")>>}

AnyClaim == [names: {{p, q}}, intent: {"fixes", "characterizes"}, auto: {FALSE}]
                \cup [names: {{p, q}}, intent: {"fixes"}, auto: {TRUE}]

OneClaim == {<<c>> : c \in AnyClaim}
UpToTwoClaims == {<<>>} \cup OneClaim \cup {<<c, d>> : c \in AnyClaim, d \in AnyClaim}

MCBaseRuns(list) == IF Len(list) = 1 THEN ThoroughBase ELSE BriefBase
MCHeadRuns(list) == IF Len(list) = 1 THEN ThoroughHead ELSE BriefHead

\* The limiter makes a difference to one claim and is systemd's for two.
MCInit ==
    /\ Init
    /\ backend \in {IF Len(claims) = 1 THEN "rlimit" ELSE "systemd-run", "none"}

MCSpec == MCInit /\ [][Next]_vars
=============================================================================
