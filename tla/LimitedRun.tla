----------------------------- MODULE LimitedRun -----------------------------
(***************************************************************************)
(* One call of _run_limited in validity_audit/fbpa.py: a command under     *)
(* timeout(1) and a memory limiter, in a session of its own, and the       *)
(* cleanup that must leave nothing of it running.  Four parties act        *)
(* independently: the runner, timeout(1), the command with the processes   *)
(* it forks, and the systemd user manager that owns the scope.  Time is    *)
(* kept as the number of deadlines that have passed.                       *)
(***************************************************************************)
EXTENDS Integers

CONSTANTS
    Descendants,  \* the most processes alive that the command forked
    None

ASSUME ProcessAssumption ==
    /\ Descendants \cap {"timeout", "command"} = {}
    /\ None \notin {0, 1, 124, 137, -9, -15}
    /\ None \notin {"limiter", "elsewhere"}

Members == {"command"} \cup Descendants
Procs == {"timeout"} \cup Members

\* Deadlines: timeout_s, _KILL_GRACE_S after it, _BACKSTOP_SLACK_S after that.
Limit == 1
Grace == 2
Backstop == 3

\* What _detect_memory_backend finds on a machine.
DetectMemoryBackend(machine) ==
    IF machine.systemd = "works" THEN "systemd-run"
    ELSE IF machine.resource THEN "rlimit" ELSE "none"

Machines == [systemd: {"missing", "works", "fails", "hangs"}, resource: BOOLEAN]

VARIABLES
    backend,
    clock,     \* deadlines passed
    status,    \* of every process: "none" before the call, "running", "dead"
    group,     \* living processes in the group of timeout(1)
    pipe,      \* living processes that hold the write end of stdout or stderr
    alarms,    \* deadlines timeout(1) has acted on
    ended,     \* how the command ended: its exit code, or minus the signal
    blame,     \* ghost: who sent the SIGKILL, not the runner's, that decides the status
    code,      \* exit status of timeout(1)
    unit,      \* the scope: "none", "active" or "stopping"
    pc, forced, raising,
    whole,     \* the output was read to its end
    result

processes == <<status, group, pipe, alarms, ended, blame, code, unit>>
runner == <<pc, forced, raising, whole, result>>
vars == <<backend, clock, processes, runner>>

Running == {p \in Procs : status[p] = "running"}

Init ==
    /\ \E machine \in Machines : backend = DetectMemoryBackend(machine)
    /\ backend # "none"
    /\ clock = 0
    /\ status = [p \in Procs |-> "none"] /\ group = {} /\ pipe = {}
    /\ alarms = 0 /\ ended = None /\ blame = None /\ code = None /\ unit = "none"
    /\ pc = "start" /\ forced = FALSE /\ raising = FALSE /\ whole = FALSE
    /\ result = None
-----------------------------------------------------------------------------
(* Signals.  A process may ignore SIGTERM; timeout(1) forwards it and goes on
   waiting. *)

Die(S) ==
    /\ status' = [p \in Procs |-> IF p \in S THEN "dead" ELSE status[p]]
    /\ group' = group \ S /\ pipe' = pipe \ S

Strike(S, sig) ==
    /\ Die(S)
    /\ ended' = IF "command" \in S THEN -sig ELSE ended
    /\ code' = IF "timeout" \in S THEN -sig ELSE code

SIGKILL == 9
SIGTERM == 15

Kill(targets) == Strike(targets \cap Running, SIGKILL)

Terminate(targets) ==
    \E ignoring \in SUBSET Members :
        Strike((targets \cap Running) \ (ignoring \cup {"timeout"}), SIGTERM)

NoSignal == UNCHANGED <<status, group, pipe, ended, code>>
-----------------------------------------------------------------------------
(* The command and its descendants.  One that died stands for the next to be
   forked, so that there is no bound on the forks of a run. *)

Fork(parent, child) ==
    /\ parent \in Running \cap Members /\ child \in Descendants \ Running
    /\ status' = [status EXCEPT ![child] = "running"]
    /\ group' = IF parent \in group THEN group \cup {child} ELSE group
    /\ pipe' = IF parent \in pipe THEN pipe \cup {child} ELSE pipe
    /\ UNCHANGED <<backend, clock, alarms, ended, blame, code, unit, runner>>

Setsid(p) ==
    /\ p \in Members \cap group
    /\ group' = group \ {p}
    /\ UNCHANGED <<backend, clock, status, pipe, alarms, ended, blame, code, unit, runner>>

CloseOutput(p) ==
    /\ p \in Members \cap pipe
    /\ pipe' = pipe \ {p}
    /\ UNCHANGED <<backend, clock, status, group, alarms, ended, blame, code, unit, runner>>

Exit(p) ==
    /\ p \in Running \cap Members
    /\ Die({p})
    /\ IF p = "command" THEN ended' \in {0, 1, 124, 137} ELSE UNCHANGED ended
    /\ UNCHANGED <<backend, clock, alarms, blame, code, unit, runner>>

Blame(p, who) ==
    blame' = IF p \in {"command", "timeout"} /\ "timeout" \in Running /\ alarms = 0 /\ blame = None
             THEN who ELSE blame

\* MemoryMax of the scope; under rlimit an allocation fails inside the process.
OutOfMemory(p) ==
    /\ backend = "systemd-run" /\ p \in Running
    /\ Kill({p}) /\ Blame(p, "limiter")
    /\ UNCHANGED <<backend, clock, alarms, unit, runner>>

\* A SIGKILL from anywhere else: os.kill in a test, the OOM killer of the machine,
\* an operator.
KilledElsewhere(p) ==
    /\ p \in Running
    /\ Kill({p}) /\ Blame(p, "elsewhere")
    /\ UNCHANGED <<backend, clock, alarms, unit, runner>>

TerminatedElsewhere ==
    /\ "command" \in Running /\ Strike({"command"}, SIGTERM)
    /\ UNCHANGED <<backend, clock, alarms, blame, unit, runner>>
-----------------------------------------------------------------------------
(* timeout -k: SIGTERM at the limit, SIGKILL after the grace, both to the
   command and to the group, which timeout(1) belongs to. *)

Alarm(deadline) ==
    /\ "timeout" \in Running /\ alarms = deadline - 1 /\ clock >= deadline
    /\ alarms' = deadline
    /\ \/ deadline = Limit /\ Terminate(group \cup {"command"})
       \/ deadline = Grace /\ Kill(group \cup {"command"})
    /\ UNCHANGED <<backend, clock, blame, unit, runner>>

\* Mutant: the shell's way of reporting a signal.
TimeoutStatusOfShell ==
    IF alarms > 0 THEN 124 ELSE IF ended < 0 THEN 128 - ended ELSE ended

\* 124 or 137 once an alarm went off; the status of the command otherwise, whose
\* signal timeout(1) raises on itself.
TimeoutStatus == IF alarms > 0 THEN IF ended = -SIGKILL THEN 137 ELSE 124 ELSE ended

TimeoutExits ==
    /\ "timeout" \in Running /\ status["command"] = "dead"
    /\ Die({"timeout"}) /\ code' = TimeoutStatus
    /\ UNCHANGED <<backend, clock, alarms, ended, blame, unit, runner>>
-----------------------------------------------------------------------------
(* The user manager, which kills what is left of a scope it was told to stop *)

ManagerKills ==
    /\ unit = "stopping" /\ Running # {}
    /\ Kill(Procs)
    /\ UNCHANGED <<backend, clock, alarms, blame, unit, runner>>

\* systemctl stop: SIGTERM to the whole scope.  The command waits for the scope
\* to be empty, for at most a minute.
_StopUnit ==
    IF unit = "active"
    THEN unit' = "stopping" /\ Terminate(Procs)
    ELSE UNCHANGED unit /\ NoSignal
-----------------------------------------------------------------------------
(* The runner *)

Started == [p \in Procs |-> IF p \in Descendants THEN "dead" ELSE "running"]

Popen ==
    /\ pc = "start" /\ pc' = "wait"
    /\ status' = Started /\ group' = {"timeout", "command"} /\ pipe' = {"timeout", "command"}
    /\ unit' = IF backend = "systemd-run" THEN "active" ELSE "none"
    /\ UNCHANGED <<backend, clock, alarms, ended, blame, code, forced, raising, whole, result>>

\* systemd-run could not make the scope and exits without running anything.
ScopeRefused ==
    /\ pc = "start" /\ backend = "systemd-run" /\ pc' = "wait"
    /\ status' = [status EXCEPT !["timeout"] = "dead"] /\ code' = 1
    /\ UNCHANGED <<backend, clock, group, pipe, alarms, ended, blame, unit,
                   forced, raising, whole, result>>

PopenRaises ==
    /\ pc = "start" /\ pc' = "raised"
    /\ raising' = TRUE
    /\ UNCHANGED <<backend, clock, processes, forced, whole, result>>

\* communicate() returns once every holder of the pipes is gone and timeout(1)
\* was reaped.
Finished == pipe = {} /\ status["timeout"] = "dead"

Communicate ==
    /\ pc = "wait" /\ Finished
    /\ pc' = "stop" /\ whole' = TRUE
    /\ UNCHANGED <<backend, clock, processes, forced, raising, result>>

\* Mutant: the backstop kills the group without noting that it did.
BackstopUnnoted ==
    /\ pc = "wait" /\ clock = Backstop
    /\ Kill(group)
    /\ pc' = IF unit = "none" THEN "drain" ELSE "stop-forced"
    /\ UNCHANGED <<backend, clock, alarms, blame, unit, forced, raising,
                   whole, result>>

\* Mutant: the backstop only looks whether timeout(1) has exited.
BackstopForTimeout ==
    /\ pc = "wait" /\ clock = Backstop /\ "timeout" \in Running
    /\ forced' = TRUE /\ Kill(group)
    /\ pc' = IF unit = "none" THEN "drain" ELSE "stop-forced"
    /\ UNCHANGED <<backend, clock, alarms, blame, unit, raising, whole, result>>

BackstopExpires ==
    /\ pc = "wait" /\ clock = Backstop
    /\ forced' = TRUE /\ Kill(group)
    /\ pc' = IF unit = "none" THEN "drain" ELSE "stop-forced"
    /\ UNCHANGED <<backend, clock, alarms, blame, unit, raising, whole, result>>

StopForced ==
    /\ pc = "stop-forced" /\ pc' = "drain"
    /\ _StopUnit
    /\ UNCHANGED <<backend, clock, alarms, blame, forced, raising, whole, result>>

\* The second communicate() is given thirty seconds.
Drain ==
    /\ pc = "drain" /\ pc' = "stop"
    /\ \/ Finished /\ whole' = TRUE /\ NoSignal
       \/ Kill({"timeout"}) /\ UNCHANGED whole
    /\ UNCHANGED <<backend, clock, alarms, blame, unit, forced, raising, result>>

\* Any other exception inside the try block, KeyboardInterrupt for one.
Interrupt ==
    /\ pc \in {"wait", "stop-forced", "drain"} /\ pc' = "stop"
    /\ raising' = TRUE
    /\ UNCHANGED <<backend, clock, processes, forced, whole, result>>

\* Nothing guards the finally clause: a second KeyboardInterrupt there, or one
\* during the cleanup of a run that ended well, cuts it short.
InterruptCleanUp ==
    /\ pc \in {"stop", "reap", "kill-group"} /\ pc' = "cut"
    /\ raising' = TRUE
    /\ UNCHANGED <<backend, clock, processes, forced, whole, result>>

\* Mutant: the scope is stopped at the backstop only.
StopOnlyForced ==
    /\ pc = "stop" /\ pc' = "reap"
    /\ UNCHANGED <<backend, clock, processes, forced, raising, whole, result>>

Stop ==
    /\ pc = "stop" /\ pc' = "reap"
    /\ _StopUnit
    /\ UNCHANGED <<backend, clock, alarms, blame, forced, raising, whole, result>>

Reap ==
    /\ pc = "reap" /\ pc' = "kill-group"
    /\ Kill({"timeout"})
    /\ UNCHANGED <<backend, clock, alarms, blame, unit, forced, raising, whole, result>>

\* Mutant: only timeout(1) itself was killed.
LeaveGroup ==
    /\ pc = "kill-group" /\ pc' = IF raising THEN "raised" ELSE "return"
    /\ UNCHANGED <<backend, clock, processes, forced, raising, whole, result>>

KillGroup ==
    /\ pc = "kill-group" /\ pc' = IF raising THEN "raised" ELSE "return"
    /\ Kill(group)
    /\ UNCHANGED <<backend, clock, alarms, blame, unit, forced, raising, whole, result>>

\* Mutant: a death by SIGKILL is always the memory limiter's.
TimedOutByStatus == forced \/ code = 124

\* elapsed is taken here, after the cleanup.
TimedOut == forced \/ code = 124 \/ (code \in {137, -9} /\ clock >= Limit)

Return ==
    /\ pc = "return" /\ pc' = "returned"
    /\ result' = [code |-> code, timedOut |-> TimedOut]
    /\ UNCHANGED <<backend, clock, processes, forced, raising, whole>>

CleanedUp == pc \in {"returned", "raised"}

Ended == CleanedUp \/ pc = "cut"

Tick ==
    /\ clock < Backstop /\ ~Ended
    /\ clock' = clock + 1
    /\ UNCHANGED <<backend, processes, runner>>

Command ==
    \/ \E p \in Members : Setsid(p) \/ CloseOutput(p) \/ Exit(p)
    \/ \E parent \in Members, child \in Descendants : Fork(parent, child)

Runner ==
    \/ Popen \/ ScopeRefused \/ PopenRaises \/ Communicate \/ BackstopExpires \/ StopForced
    \/ Drain \/ Stop \/ Reap \/ KillGroup \/ Return

Next ==
    \/ Command
    \/ TerminatedElsewhere \/ \E p \in Procs : OutOfMemory(p) \/ KilledElsewhere(p)
    \/ Alarm(Limit) \/ Alarm(Grace) \/ TimeoutExits \/ ManagerKills
    \/ Runner \/ Interrupt \/ InterruptCleanUp \/ Tick

\* Nothing is assumed of the command, of timeout(1) or of an interrupt: time
\* passes, the runner takes its next step, the manager keeps its promise.
Fairness == WF_vars(Tick) /\ WF_vars(Runner) /\ WF_vars(ManagerKills)

Spec == Init /\ [][Next]_vars /\ Fairness
-----------------------------------------------------------------------------
TypeOK ==
    /\ backend \in {"systemd-run", "rlimit"}
    /\ clock \in 0 .. Backstop /\ alarms \in 0 .. Grace
    /\ status \in [Procs -> {"none", "running", "dead"}]
    /\ group \subseteq Procs /\ pipe \subseteq Procs
    /\ {ended, code} \subseteq {None, 0, 1, 124, 137, -9, -15}
    /\ blame \in {None, "limiter", "elsewhere"}
    /\ unit \in {"none", "active", "stopping"}
    /\ pc \in {"start", "wait", "stop-forced", "drain", "stop", "reap", "kill-group",
              "return", "returned", "raised", "cut"}
    /\ forced \in BOOLEAN /\ raising \in BOOLEAN /\ whole \in BOOLEAN
    /\ result = None \/ result \in [code: {0, 1, 124, 137, -9, -15}, timedOut: BOOLEAN]

\* However the call ends, unless its finally clause was cut short, whoever is still
\* running has left the process group: nothing that could have been signalled is
\* left behind (layers 2 and 3 of _run_limited).
OnlyEscapeesSurvive == CleanedUp => group = {}

\* A result that is not a timeout is that of a command that came to an end, with
\* all of its output: zero only if the command said so.
MeasurementIsWhole ==
    pc = "returned" /\ ~result.timedOut =>
        /\ whole
        /\ result.code = 0 => ended = 0
        /\ pipe = {}

\* "Decided without parsing": whatever the timers of timeout(1) or the backstop
\* killed is a timeout, and a SIGKILL that is not one was neither theirs nor the
\* cleanup's.  It need not be the memory limiter's.
KillsAreToldApart ==
    pc = "returned" =>
        /\ alarms > 0 \/ forced => result.timedOut
        /\ result.code \in {137, -9} /\ ~result.timedOut =>
              alarms = 0 /\ (ended = 137 \/ blame # None)

\* The docstring of _run_limited of such a SIGKILL: "otherwise it is the memory
\* limiter's kill (F_OOM)".
OomIsTheLimiters ==
    pc = "returned" /\ result.code \in {137, -9} /\ ~result.timedOut => blame = "limiter"

\* "Four layers make sure this always returns", whatever the command does.
AlwaysReturns == <>Ended

\* Under systemd everything the command started ends with the run, processes that
\* called setsid and ignore SIGTERM included, if the finally clause ran.
ScopeEmpties == (CleanedUp /\ backend = "systemd-run") ~> (Running = {})
=============================================================================
