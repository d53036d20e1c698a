------------------------------- MODULE Heartbeat -------------------------------
(***************************************************************************)
(* The health monitor of the daemon (internal/heartbeat) and the agent     *)
(* health it feeds (internal/agentmetrics).  Services register and beat;   *)
(* the monitor's run loop adds a missed heartbeat to every registration at *)
(* each tick; the agent metrics loop reads the statuses and submits one    *)
(* verdict.                                                                *)
(*                                                                         *)
(* registrationLock is a read-write lock: incrementAll holds it for        *)
(* writing over a whole round, GetStatuses for reading over a whole pass.  *)
(* A beat takes only the lock of its registration, so beats fall between   *)
(* the visits of a round or a pass.                                        *)
(***************************************************************************)
EXTENDS Naturals, FiniteSets

CONSTANTS
    Services,    \* the names services register under
    Threshold    \* missed_heartbeat_threshold

ASSUME ThresholdAssumption == Threshold \in Nat

VARIABLES
    registered,  \* the names in m.registrations
    missed,      \* missedHeartbeats of each registration
    age,         \* history: rounds that began since the last beat (at most Threshold)
    lock,        \* registrationLock: "free", "ticking" (written) or "reading"
    todo,        \* registrations the round or the pass has still to visit
    healthy,     \* the verdict of the pass in progress
    submitted,   \* the last agent health submitted to Cloud Monitoring
    monitor,     \* the run loop: "off", "on" or "stopped"
    silent,      \* services that do not beat (blocked, or their loop ended)
    monitorCtx          \* "live" or "cancelled"

heartbeatVars == <<registered, missed, age, lock, todo, healthy, submitted, monitor, silent, monitorCtx>>

Verdicts == {"healthy", "unhealthy"}

Smaller(m, n) == IF m <= n THEN m ELSE n

(* The type invariant. *)
HeartbeatTypeOK ==
    /\ registered \in SUBSET Services
    /\ missed \in [Services -> 0..Threshold]
    /\ age \in [Services -> 0..Threshold]
    /\ lock \in {"free", "ticking", "reading"}
    /\ todo \in SUBSET registered
    /\ healthy \in Verdicts
    /\ submitted \in Verdicts \cup {"none"}
    /\ monitor \in {"off", "on", "stopped"}
    /\ silent \in SUBSET Services
    /\ monitorCtx \in {"live", "cancelled"}

HeartbeatInit ==
    /\ registered = {}
    /\ missed = [s \in Services |-> 0]
    /\ age = [s \in Services |-> 0]
    /\ lock = "free"
    /\ todo = {}
    /\ healthy = "healthy"
    /\ submitted = "none"
    /\ monitor = "off"
    /\ silent = {}
    /\ monitorCtx = "live"

------------------------------------------------------------------------------
(* Register: a name that is taken is refused. *)
Register(s) ==
    /\ lock = "free"
    /\ s \notin registered
    /\ registered' = registered \cup {s}
    /\ missed' = [missed EXCEPT ![s] = 0]
    /\ age' = [age EXCEPT ![s] = 0]
    /\ UNCHANGED <<lock, todo, healthy, submitted, monitor, silent, monitorCtx>>

(* Mutant: the beat takes one off the count instead of clearing it. *)
BeatForgivesOne(s) ==
    /\ s \in registered /\ s \notin silent
    /\ missed' = [missed EXCEPT ![s] = IF @ = 0 THEN 0 ELSE @ - 1]
    /\ age' = [age EXCEPT ![s] = 0]
    /\ UNCHANGED <<registered, lock, todo, healthy, submitted, monitor, silent, monitorCtx>>

(* Beat, from the loop of a service. *)
Beat(s) ==
    /\ s \in registered /\ s \notin silent
    /\ missed' = [missed EXCEPT ![s] = 0]
    /\ age' = [age EXCEPT ![s] = 0]
    /\ UNCHANGED <<registered, lock, todo, healthy, submitted, monitor, silent, monitorCtx>>

(* The loop of a service hangs, or goes on. *)
Stall(s) ==
    /\ s \in registered
    /\ silent' = IF s \in silent THEN silent \ {s} ELSE silent \cup {s}
    /\ UNCHANGED <<registered, missed, age, lock, todo, healthy, submitted, monitor, monitorCtx>>

(* Run starts the loop. *)
Run ==
    /\ monitor = "off"
    /\ monitor' = "on"
    /\ UNCHANGED <<registered, missed, age, lock, todo, healthy, submitted, silent, monitorCtx>>

(* A tick of the run loop: incrementAll takes the lock. *)
Tick ==
    /\ monitor = "on"
    /\ lock = "free"
    /\ registered # {}
    /\ lock' = "ticking"
    /\ todo' = registered
    /\ age' = [s \in Services |->
                  IF s \in registered THEN Smaller(age[s] + 1, Threshold) ELSE age[s]]
    /\ UNCHANGED <<registered, missed, healthy, submitted, monitor, silent, monitorCtx>>

IncrementUnlocks(s) ==
    /\ lock = "ticking" /\ s \in todo
    /\ missed' = [missed EXCEPT ![s] = Smaller(@ + 1, Threshold)]
    /\ todo' = {}
    /\ lock' = "free"
    /\ UNCHANGED <<registered, age, healthy, submitted, monitor, silent, monitorCtx>>

(* incrementAll visits a registration, and unlocks after the last. *)
Increment(s) ==
    /\ lock = "ticking" /\ s \in todo
    /\ missed' = [missed EXCEPT ![s] = Smaller(@ + 1, Threshold)]
    /\ todo' = todo \ {s}
    /\ lock' = IF todo = {s} THEN "free" ELSE "ticking"
    /\ UNCHANGED <<registered, age, healthy, submitted, monitor, silent, monitorCtx>>

(* The run loop sees the cancellation between two rounds. *)
StopRun ==
    /\ monitorCtx = "cancelled" /\ monitor = "on" /\ lock # "ticking"
    /\ monitor' = "stopped"
    /\ UNCHANGED <<registered, missed, age, lock, todo, healthy, submitted, silent, monitorCtx>>

------------------------------------------------------------------------------
(* collectAndSubmitLoop, a health tick: GetStatuses takes the read lock; without
   registrations the verdict is healthy. *)
CollectHealth ==
    /\ monitorCtx = "live" /\ lock = "free"
    /\ healthy' = "healthy"
    /\ IF registered = {} THEN submitted' = "healthy" /\ UNCHANGED <<lock, todo>>
                          ELSE /\ lock' = "reading"
                               /\ todo' = registered
                               /\ UNCHANGED submitted
    /\ UNCHANGED <<registered, missed, age, monitor, silent, monitorCtx>>

(* Mutant: the verdict is the status of the registration that is read last. *)
ReadStatusLastWins(s) ==
    /\ lock = "reading" /\ s \in todo
    /\ healthy' = IF missed[s] < Threshold THEN "healthy" ELSE "unhealthy"
    /\ todo' = todo \ {s}
    /\ IF todo = {s} THEN lock' = "free" /\ submitted' = healthy'
                     ELSE UNCHANGED <<lock, submitted>>
    /\ UNCHANGED <<registered, missed, age, monitor, silent, monitorCtx>>

(* GetStatuses reads a registration; after the last, collectHealthStatus's
   verdict is submitted. *)
ReadStatus(s) ==
    /\ lock = "reading" /\ s \in todo
    /\ healthy' = IF missed[s] < Threshold THEN healthy ELSE "unhealthy"
    /\ todo' = todo \ {s}
    /\ IF todo = {s} THEN lock' = "free" /\ submitted' = healthy'
                     ELSE UNCHANGED <<lock, submitted>>
    /\ UNCHANGED <<registered, missed, age, monitor, silent, monitorCtx>>

CancelMonitor ==
    /\ monitorCtx = "live"
    /\ monitorCtx' = "cancelled"
    /\ UNCHANGED <<registered, missed, age, lock, todo, healthy, submitted, monitor, silent>>

Visit == \E s \in Services : Increment(s) \/ ReadStatus(s)

(* What the services, the run loop and the agent metrics loop do. *)
DaemonNext ==
    \/ \E s \in Services : Register(s) \/ Beat(s) \/ Stall(s)
    \/ Tick \/ Visit \/ CollectHealth \/ StopRun \/ CancelMonitor

HeartbeatNext == DaemonNext \/ Run

HeartbeatSpec == HeartbeatInit /\ [][HeartbeatNext]_heartbeatVars

(* A lock that is held is released, tickers tick, and a loop whose select always
   has a tick to offer comes to see the cancellation. *)
HeartbeatFairness ==
    /\ WF_heartbeatVars(Visit) /\ SF_heartbeatVars(Tick) /\ SF_heartbeatVars(CollectHealth) /\ SF_heartbeatVars(StopRun)

(* The monitor as its tests drive it: Run is called. *)
MonitoredSpec == HeartbeatSpec /\ WF_heartbeatVars(Run) /\ HeartbeatFairness

(* The monitor as startAgentMetricsService uses it: NewMonitor, then the agent
   metrics service; nothing calls Run. *)
DaemonSpec == HeartbeatInit /\ [][DaemonNext]_heartbeatVars /\ HeartbeatFairness

------------------------------------------------------------------------------
(* Between two rounds the count of every registration is the number of rounds
   since its last beat, or one more when that beat fell inside a round before the
   visit: incrementAll neither skips nor doubles a registration, whatever beats
   and passes interleave with it. *)
CountsRounds ==
    lock # "ticking" =>
        \A s \in registered : age[s] <= missed[s] /\ missed[s] <= age[s] + 1

(* The inductive form: a registration the round has still to visit lags by one. *)
RoundInv ==
    /\ \A s \in registered :
          IF lock = "ticking" /\ s \in todo
          THEN age[s] <= missed[s] + 1 /\ missed[s] <= age[s]
          ELSE age[s] <= missed[s] /\ missed[s] <= age[s] + 1
    /\ lock = "free" => todo = {}

(* A service that falls silent for good is, from some moment on, reported: the
   submitted agent health stays unhealthy (agentmetrics submits the conjunction of
   the statuses). *)
SilentIsReported ==
    \A s \in Services :
        (<>[](s \in registered /\ s \in silent) /\ [](monitorCtx = "live"))
            => <>[](submitted = "unhealthy")

================================================================================
