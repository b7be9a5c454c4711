-------------------------- MODULE LimitedRunProofs --------------------------
(***************************************************************************)
(* Proofs about LimitedRun for a command that forks any set of             *)
(* descendants.                                                            *)
(***************************************************************************)
EXTENDS LimitedRun, TLAPS

\* Where the runner is, and what it has done so far.
RunnerInv ==
    /\ pc = "start" =>
          /\ status = [p \in Procs |-> "none"] /\ group = {} /\ pipe = {}
          /\ ended = None /\ blame = None /\ code = None /\ unit = "none" /\ alarms = 0
    /\ pc \in {"stop-forced", "drain"} => forced
    /\ pc \in {"stop", "reap", "kill-group", "return", "returned"} => whole \/ forced \/ raising
    /\ pc \in {"raised", "cut"} => raising
    /\ pc \in {"return", "returned"} => ~raising
    /\ pc \in {"return", "returned", "raised"} => group = {}
    /\ pc \in {"kill-group", "return", "returned"} => status["timeout"] = "dead"
    /\ unit = "stopping" => pc \notin {"start", "wait", "stop-forced"}
    /\ unit # "none" => backend = "systemd-run"

\* The processes: who is alive, and why the others are not.
ProcessInv ==
    /\ group \cup pipe \subseteq Running
    /\ pc \notin {"start", "raised"} => status["timeout"] # "none"
    /\ whole => pipe = {} /\ status["timeout"] = "dead"
    /\ status["command"] = "dead" => ended # None
    /\ status["timeout"] = "dead" /\ status["command"] = "running" =>
          forced \/ raising \/ alarms > 0 \/ blame # None
    /\ ended = -SIGKILL =>
          forced \/ raising \/ alarms > 0 \/ blame # None \/ status["timeout"] = "dead"

\* What the exit status of timeout(1) tells.
CodeInv ==
    /\ alarms <= clock
    /\ code # None <=> status["timeout"] = "dead"
    /\ code = 0 => status["command"] = "dead" /\ ended = 0
    /\ code # None /\ alarms > 0 => code \in {124, 137, -9}
    /\ code = 137 => alarms > 0 \/ (status["command"] = "dead" /\ ended = 137)
    /\ code = -SIGKILL => forced \/ raising \/ alarms > 0 \/ blame # None
    /\ pc = "returned" => result = [code |-> code, timedOut |-> TimedOut]

IInv == TypeOK /\ RunnerInv /\ ProcessInv /\ CodeInv

\* What a signal does, in the terms the invariant needs: processes only go from
\* running to dead, the command and timeout(1) leave a trace of their end.
Struck(targets, sig) ==
    /\ status' \in [Procs -> {"none", "running", "dead"}]
    /\ \A p \in Procs : status'[p] = status[p] \/ (status[p] = "running" /\ status'[p] = "dead")
    /\ group' \subseteq group /\ pipe' \subseteq pipe /\ group' \cup pipe' \subseteq Running'
    /\ \/ status'["command"] = status["command"] /\ ended' = ended
       \/ /\ status["command"] = "running" /\ status'["command"] = "dead" /\ ended' = -sig
          /\ "command" \in targets
    /\ \/ status'["timeout"] = status["timeout"] /\ code' = code
       \/ /\ status["timeout"] = "running" /\ status'["timeout"] = "dead" /\ code' = -sig
          /\ "timeout" \in targets /\ sig = SIGKILL
    /\ sig = SIGKILL =>
          /\ \A p \in targets \cap Procs : status'[p] # "running"
          /\ group \subseteq targets => group' = {}

LEMMA StrikeStrikes ==
    ASSUME TypeOK, group \cup pipe \subseteq Running, NEW targets, NEW sig,
           NEW S \in SUBSET (targets \cap Running), Strike(S, sig),
           sig = SIGKILL => S = targets \cap Running, "timeout" \in S => sig = SIGKILL
    PROVE  Struck(targets, sig)
<1>1. S \subseteq Procs /\ S \subseteq targets /\ \A p \in S : status[p] = "running"
  BY DEF Running
<1>2. /\ status' = [p \in Procs |-> IF p \in S THEN "dead" ELSE status[p]]
      /\ group' = group \ S /\ pipe' = pipe \ S
      /\ ended' = IF "command" \in S THEN -sig ELSE ended
      /\ code' = IF "timeout" \in S THEN -sig ELSE code
  BY DEF Strike, Die
<1>3. "timeout" \in Procs /\ "command" \in Procs
  BY DEF Procs, Members
<1>4. status' \in [Procs -> {"none", "running", "dead"}]
  BY <1>2 DEF TypeOK
<1>5. \A p \in Procs : status'[p] = IF p \in S THEN "dead" ELSE status[p]
  BY <1>2
<1>6. group' \cup pipe' \subseteq Running'
  BY <1>2, <1>5 DEF Running
<1>7. \A p \in Procs : status'[p] = status[p] \/ (status[p] = "running" /\ status'[p] = "dead")
  BY <1>1, <1>5
<1>8. sig = SIGKILL => \A p \in targets \cap Procs : status'[p] # "running"
  BY <1>5 DEF Running
<1>9. sig = SIGKILL /\ group \subseteq targets => group' = {}
  BY <1>2
<1>10. \/ status'["command"] = status["command"] /\ ended' = ended
       \/ /\ status["command"] = "running" /\ status'["command"] = "dead" /\ ended' = -sig
          /\ "command" \in targets
  BY <1>1, <1>2, <1>3, <1>5
<1>11. \/ status'["timeout"] = status["timeout"] /\ code' = code
       \/ /\ status["timeout"] = "running" /\ status'["timeout"] = "dead" /\ code' = -sig
          /\ "timeout" \in targets /\ sig = SIGKILL
  BY <1>1, <1>2, <1>3, <1>5
<1>12. group' \subseteq group /\ pipe' \subseteq pipe
  BY <1>2
<1> QED BY <1>4, <1>6, <1>7, <1>8, <1>9, <1>10, <1>11, <1>12, Zenon DEF Struck

LEMMA KillStrikes ==
    ASSUME TypeOK, group \cup pipe \subseteq Running, NEW targets, Kill(targets)
    PROVE  Struck(targets, SIGKILL)
BY StrikeStrikes DEF Kill

LEMMA TerminateStrikes ==
    ASSUME TypeOK, group \cup pipe \subseteq Running, NEW targets, Terminate(targets)
    PROVE  Struck(targets, SIGTERM)
<1>1. PICK ignoring \in SUBSET Members :
        Strike((targets \cap Running) \ (ignoring \cup {"timeout"}), SIGTERM)
  BY DEF Terminate
<1> QED BY <1>1, StrikeStrikes DEF SIGKILL, SIGTERM

LEMMA NoSignalStrikesNobody ==
    ASSUME TypeOK, group \cup pipe \subseteq Running, NEW targets, NoSignal
    PROVE  Struck(targets, SIGTERM)
BY DEF NoSignal, TypeOK, Struck, Running, SIGKILL, SIGTERM

LEMMA InvNext == IInv /\ [Next]_vars => IInv'
<1> SUFFICES ASSUME IInv, [Next]_vars PROVE IInv'
  OBVIOUS
<1> USE ProcessAssumption DEF IInv, TypeOK, RunnerInv, ProcessInv, CodeInv, TimedOut, processes, runner, Running, Procs, Members, Limit, Grace, Backstop, SIGKILL, SIGTERM
<1>1. ASSUME NEW p \in Members, Setsid(p) PROVE IInv'
  BY <1>1 DEF Setsid
<1>2. ASSUME NEW p \in Members, CloseOutput(p) PROVE IInv'
  BY <1>2 DEF CloseOutput
<1>3. ASSUME NEW p \in Members, Exit(p) PROVE IInv'
  BY <1>3 DEF Exit, Die
<1>4. ASSUME NEW parent \in Members, NEW child \in Descendants, Fork(parent, child) PROVE IInv'
  <2>1. /\ pc # "start" /\ child \in Procs /\ status' \in [Procs -> {"none", "running", "dead"}]
        /\ status'["timeout"] = status["timeout"] /\ status'["command"] = status["command"]
        /\ Running' = Running \cup {child}
    BY <1>4 DEF Fork
  <2> QED BY <1>4, <2>1 DEF Fork
<1>5. ASSUME NEW p \in Procs, OutOfMemory(p) PROVE IInv'
  <2>1. Struck({p}, SIGKILL)
    BY <1>5, KillStrikes DEF OutOfMemory
  <2> QED BY <1>5, <2>1 DEF OutOfMemory, Blame, Struck
<1>6. ASSUME NEW p \in Procs, KilledElsewhere(p) PROVE IInv'
  <2>1. Struck({p}, SIGKILL)
    BY <1>6, KillStrikes DEF KilledElsewhere
  <2> QED BY <1>6, <2>1 DEF KilledElsewhere, Blame, Struck
<1>24. ASSUME TerminatedElsewhere PROVE IInv'
  <2>1. Struck({"command"}, SIGTERM)
    BY <1>24, StrikeStrikes, "timeout" # "command" DEF TerminatedElsewhere
  <2> QED BY <1>24, <2>1 DEF TerminatedElsewhere, Struck
<1>7. ASSUME NEW deadline \in {Limit, Grace}, Alarm(deadline) PROVE IInv'
  <2>1. CASE deadline = Limit /\ Terminate(group \cup {"command"})
    <3>1. Struck(group \cup {"command"}, SIGTERM)
      BY <2>1, TerminateStrikes
    <3> QED BY <1>7, <2>1, <3>1 DEF Alarm, Struck
  <2>2. CASE deadline = Grace /\ Kill(group \cup {"command"})
    <3>1. Struck(group \cup {"command"}, SIGKILL)
      BY <2>2, KillStrikes
    <3> QED BY <1>7, <2>2, <3>1 DEF Alarm, Struck
  <2> QED BY <1>7, <2>1, <2>2 DEF Alarm
<1>8. ASSUME TimeoutExits PROVE IInv'
  BY <1>8 DEF TimeoutExits, Die, TimeoutStatus
<1>9. ASSUME ManagerKills PROVE IInv'
  <2>1. Struck(Procs, SIGKILL)
    BY <1>9, KillStrikes DEF ManagerKills
  <2> QED BY <1>9, <2>1 DEF ManagerKills, Struck
<1>10. ASSUME Popen PROVE IInv'
  BY <1>10 DEF Popen, Started
<1>11. ASSUME ScopeRefused PROVE IInv'
  BY <1>11 DEF ScopeRefused
<1>12. ASSUME PopenRaises PROVE IInv'
  BY <1>12 DEF PopenRaises
<1>13. ASSUME Communicate PROVE IInv'
  BY <1>13 DEF Communicate, Finished
<1>14. ASSUME BackstopExpires PROVE IInv'
  <2>1. Struck(group, SIGKILL)
    BY <1>14, KillStrikes DEF BackstopExpires
  <2> QED BY <1>14, <2>1 DEF BackstopExpires, Struck
<1>15. ASSUME StopForced PROVE IInv'
  <2>1. Struck(Procs, SIGTERM)
    BY <1>15, TerminateStrikes, NoSignalStrikesNobody DEF StopForced, _StopUnit
  <2> QED BY <1>15, <2>1 DEF StopForced, _StopUnit, Struck
<1>16. ASSUME Drain PROVE IInv'
  <2>1. CASE Finished /\ whole' = TRUE /\ NoSignal
    BY <1>16, <2>1 DEF Drain, Finished, NoSignal
  <2>2. CASE Kill({"timeout"}) /\ whole' = whole
    <3>1. Struck({"timeout"}, SIGKILL)
      BY <2>2, KillStrikes
    <3> QED BY <1>16, <2>2, <3>1 DEF Drain, Struck
  <2> QED BY <1>16, <2>1, <2>2 DEF Drain
<1>17. ASSUME Interrupt PROVE IInv'
  BY <1>17 DEF Interrupt
<1>25. ASSUME InterruptCleanUp PROVE IInv'
  BY <1>25 DEF InterruptCleanUp
<1>18. ASSUME Stop PROVE IInv'
  <2>1. Struck(Procs, SIGTERM)
    BY <1>18, TerminateStrikes, NoSignalStrikesNobody DEF Stop, _StopUnit
  <2> QED BY <1>18, <2>1 DEF Stop, _StopUnit, Struck
<1>19. ASSUME Reap PROVE IInv'
  <2>1. Struck({"timeout"}, SIGKILL)
    BY <1>19, KillStrikes DEF Reap
  <2> QED BY <1>19, <2>1 DEF Reap, Struck
<1>20. ASSUME KillGroup PROVE IInv'
  <2>1. Struck(group, SIGKILL)
    BY <1>20, KillStrikes DEF KillGroup
  <2> QED BY <1>20, <2>1 DEF KillGroup, Struck
<1>21. ASSUME Return PROVE IInv'
  BY <1>21 DEF Return
<1>22. ASSUME Tick PROVE IInv'
  BY <1>22 DEF Tick, Ended, CleanedUp
<1>23. ASSUME UNCHANGED vars PROVE IInv'
  BY <1>23 DEF vars
<1> QED BY <1>1, <1>2, <1>3, <1>4, <1>5, <1>6, <1>7, <1>8, <1>9, <1>10, <1>11, <1>12, <1>13, <1>14, <1>15, <1>16, <1>17, <1>18, <1>19, <1>20, <1>21, <1>22, <1>23, <1>24, <1>25 DEF Next, Command, Runner

LEMMA InvInit == Init => IInv
<1> SUFFICES ASSUME Init PROVE IInv
  OBVIOUS
<1> USE ProcessAssumption DEF Init, Procs, Members, Grace, Backstop, Limit, SIGKILL
<1>1. backend \in {"systemd-run", "rlimit"}
  BY DEF DetectMemoryBackend
<1>2. TypeOK
  <2>1. status \in [Procs -> {"none", "running", "dead"}]
    OBVIOUS
  <2>2. clock \in 0 .. Backstop /\ alarms \in 0 .. Grace
    OBVIOUS
  <2>3. forced \in BOOLEAN /\ raising \in BOOLEAN /\ whole \in BOOLEAN
    OBVIOUS
  <2> HIDE DEF Grace, Backstop
  <2> QED BY <1>1, <2>1, <2>2, <2>3 DEF TypeOK
<1>3. RunnerInv
  BY DEF RunnerInv
<1>4. ProcessInv
  BY DEF ProcessInv, Running
<1>5. CodeInv
  BY DEF CodeInv
<1> QED BY <1>2, <1>3, <1>4, <1>5 DEF IInv

LEMMA InvHolds == Spec => []IInv
<1>1. Init => IInv
  BY InvInit
<1>2. IInv /\ [Next]_vars => IInv'
  BY InvNext
<1> QED BY <1>1, <1>2, PTL DEF Spec

\* Every variable of a run of _run_limited keeps to the values the code gives it.
THEOREM TypesAreKept == Spec => []TypeOK
<1>1. IInv => TypeOK
  BY DEF IInv
<1> QED BY <1>1, InvHolds, PTL

\* However the call ends, by a return or by an exception, and whatever the command
\* forked, no process is left in the process group the runner was to clean up.
THEOREM NobodyIsLeftInTheGroup == Spec => []OnlyEscapeesSurvive
<1>1. IInv => OnlyEscapeesSurvive
  BY DEF IInv, RunnerInv, OnlyEscapeesSurvive, CleanedUp
<1> QED BY <1>1, InvHolds, PTL

\* A result that is not a timeout comes from a command that ended by itself, and
\* its output was read to the end.
THEOREM ResultsAreMeasured == Spec => []MeasurementIsWhole
<1>1. ASSUME IInv, pc = "returned", ~result.timedOut PROVE MeasurementIsWhole
  <2>1. result.code = code /\ result.timedOut = TimedOut
    BY <1>1 DEF IInv, CodeInv
  <2>2. ~forced /\ whole /\ pipe = {}
    BY <1>1, <2>1 DEF IInv, TypeOK, RunnerInv, ProcessInv, TimedOut
  <2>3. code = 0 => ended = 0
    BY <1>1 DEF IInv, CodeInv
  <2> QED BY <2>1, <2>2, <2>3 DEF MeasurementIsWhole
<1>2. IInv => MeasurementIsWhole
  BY <1>1 DEF MeasurementIsWhole
<1> QED BY <1>2, InvHolds, PTL

\* A command that a timer or the backstop killed is reported as a timeout; a
\* SIGKILL that is reported and is not a timeout was none of the runner's: it is the
\* command's own exit code, or came from the memory limiter or from elsewhere.
THEOREM TimeoutsAreToldApart == Spec => []KillsAreToldApart
<1>1. ASSUME IInv, pc = "returned" PROVE KillsAreToldApart
  <2>1. result.code = code /\ result.timedOut = TimedOut
    BY <1>1 DEF IInv, CodeInv
  <2>2. ~raising /\ code # None
    BY <1>1 DEF IInv, RunnerInv, CodeInv
  <2>3. alarms > 0 => code \in {124, 137, -9} /\ clock >= Limit
    BY <1>1, <2>2 DEF IInv, TypeOK, CodeInv, Limit, Grace, Backstop, SIGKILL
  <2>4. alarms > 0 \/ forced => TimedOut
    BY <2>3 DEF TimedOut
  <2>5. code \in {137, -9} /\ ~TimedOut => alarms = 0 /\ (ended = 137 \/ blame # None)
    BY <1>1, <2>2, <2>4 DEF IInv, TypeOK, CodeInv, Grace, SIGKILL
  <2> QED BY <2>1, <2>4, <2>5 DEF KillsAreToldApart
<1>2. IInv => KillsAreToldApart
  BY <1>1 DEF KillsAreToldApart
<1> QED BY <1>2, InvHolds, PTL
=============================================================================
