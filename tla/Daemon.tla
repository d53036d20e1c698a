-------------------------------- MODULE Daemon --------------------------------
(***************************************************************************)
(* The life of the daemon (internal/startdaemon): the main goroutine reads *)
(* the configuration, starts the config poller and the services, and waits *)
(* for a shutdown signal; the poller watches the configuration file and    *)
(* the Parameter Manager resource, and restarts the services: it cancels   *)
(* the running generation and starts the handler of the next one, which    *)
(* reads the configuration again.  Generation 0 runs in the main           *)
(* goroutine, every later one in a goroutine of its own, and all of them   *)
(* share d.config and d.pmVersion.                                         *)
(*                                                                         *)
(* The configuration is reduced to what restarts tell apart: the           *)
(* modification time of the file it comes from, whether host metrics are   *)
(* provided, and what became of its Parameter Manager section.             *)
(***************************************************************************)
EXTENDS Naturals, FiniteSets

CONSTANTS
    Kinds,       \* the contents the file may be given
    PMMode,      \* its Parameter Manager section: "none", "latest" or "pinned" to version 1
    SlowGens,    \* generations whose handler may still be reading at the next tick
    MaxTime,     \* bound on the modification time of the file, which starts at 1
    MaxVersions, \* bound on versions of the Parameter Manager resource
    MaxFaults,   \* bound on failing fetches and failing services
    MaxGen       \* bound on restarts

ASSUME DaemonAssumption ==
    /\ Kinds \subseteq {"on", "off", "bad", "nocloud"}
    /\ PMMode \in {"none", "latest", "pinned"}
    /\ SlowGens \subseteq Nat
    /\ MaxTime \in Nat \ {0} /\ MaxVersions \in Nat \ {0}
    /\ MaxFaults \in Nat /\ MaxGen \in Nat

VARIABLES
    file,       \* the configuration file: [v: modification time, kind]
    pm,         \* the latest version of the Parameter Manager resource
    config,     \* d.config with d.pmVersion, shared by all goroutines
    held,       \* what each handler has read and not yet assigned to d.config
    gen,        \* the latest generation
    gpc,        \* where the handler of each generation is
    svc,        \* the configuration the services of each generation started with
    cancelled,  \* generations whose context is cancelled
    poller,     \* the config poller goroutine
    prev,       \* pollConfigFile: prev
    first,      \* history: the first value of prev
    owned,      \* the generation whose cancel function the poller holds
    notified,   \* the channels registered with signal.Notify that somebody reads
    pending,    \* the channels that hold a signal
    signalled,  \* whether the service manager has asked the agent to stop
    http,       \* the host metrics HTTP server
    proc,       \* the process: "up", "exited" or "killed"
    faults      \* faults so far

shared == <<config, held>>
watcher == <<poller, prev, first, owned>>
signals == <<notified, pending, signalled>>
vars == <<file, pm, shared, gen, gpc, svc, cancelled, watcher, signals, http, proc, faults>>

Gens == 0..MaxGen
Files == [v : 0..MaxTime, kind : Kinds \cup {"on", "missing"}]
Configs == [v : 0..MaxTime, host : {"on", "off", "nocloud"},
            pm : {"off", "failed", "merged"}, pmv : 0..MaxVersions, seen : 0..MaxVersions]

(* What d.config is before it is read; version 0 is that of no file. *)
NoConfig == [v |-> 0, host |-> "off", pm |-> "off", pmv |-> 0, seen |-> 0]

(* The type invariant. *)
TypeOK ==
    /\ file \in Files
    /\ pm \in 0..MaxVersions
    /\ config \in Configs
    /\ held \in [Gens -> Configs]
    /\ gen \in Gens
    /\ gpc \in [Gens -> {"init", "reading", "read", "configured", "starting",
                         "notified", "waiting", "stopping", "returned"}]
    /\ svc \in [Gens -> Configs]
    /\ cancelled \in SUBSET Gens
    /\ poller \in {"none", "new", "polling", "restarting", "ended"}
    /\ prev \in 0..MaxTime /\ first \in 0..MaxTime
    /\ owned \in Gens
    /\ notified \in SUBSET {"main", "poller"}
    /\ pending \in SUBSET {"main", "poller"}
    /\ signalled \in {"no", "yes"}
    /\ http \in {"off", "serving", "failed"}
    /\ proc \in {"up", "exited", "killed"}
    /\ faults \in 0..MaxFaults

Init ==
    /\ file \in [v : {1}, kind : Kinds \ {"nocloud"}]
    /\ pm \in 1..MaxVersions
    /\ config = NoConfig
    /\ held = [g \in Gens |-> NoConfig]
    /\ gen = 0
    /\ gpc = [g \in Gens |-> "init"]
    /\ svc = [g \in Gens |-> NoConfig]
    /\ cancelled = {}
    /\ poller = "none" /\ prev = 0 /\ first = 0 /\ owned = 0
    /\ notified = {} /\ pending = {} /\ signalled = "no"
    /\ http = "off"
    /\ proc = "up"
    /\ faults = 0

------------------------------------------------------------------------------
(* Around the agent: the file is edited or removed, a version of the Parameter
   Manager resource is published, the service manager asks the agent to stop. *)
EditFile(k) ==
    /\ proc = "up" /\ file.v < MaxTime
    /\ file' = [v |-> file.v + 1, kind |-> k]
    /\ UNCHANGED <<pm, shared, gen, gpc, svc, cancelled, watcher, signals, http, proc, faults>>

RemoveFile ==
    /\ proc = "up" /\ file.kind # "missing" /\ file.v < MaxTime
    /\ file' = [file EXCEPT !.kind = "missing"]
    /\ UNCHANGED <<pm, shared, gen, gpc, svc, cancelled, watcher, signals, http, proc, faults>>

PublishParameter ==
    /\ proc = "up" /\ PMMode # "none" /\ pm < MaxVersions
    /\ pm' = pm + 1
    /\ UNCHANGED <<file, shared, gen, gpc, svc, cancelled, watcher, signals, http, proc, faults>>

(* SIGTERM goes to every channel that is registered; while there is none it kills
   the process. *)
Signal ==
    /\ proc = "up" /\ signalled = "no"
    /\ signalled' = "yes"
    /\ pending' = notified
    /\ proc' = IF notified = {} THEN "killed" ELSE proc
    /\ UNCHANGED <<file, pm, shared, gen, gpc, svc, cancelled, watcher, notified, http, faults>>

------------------------------------------------------------------------------
(* Read: a file that cannot be read gives no configuration; one with malformed
   JSON gives what was parsed before the error.  ApplyDefaults turns host metrics
   on where nothing is said. *)
Hosts(f) ==
    CASE f.kind = "missing" -> {"on"}
      [] f.kind = "bad"     -> {"on", "off"}
      [] OTHER              -> {f.kind}

(* mergePMConfig: the version the section asks for, or the local configuration when
   the fetch fails. *)
Sections(f) ==
    (IF PMMode = "none" \/ f.kind \in {"missing", "bad"}
        THEN {[pm |-> "off", pmv |-> 0]} ELSE {})
    \cup
    (IF PMMode # "none" /\ f.kind # "missing"
        THEN {[pm |-> "failed", pmv |-> 0],
              [pm |-> "merged", pmv |-> IF PMMode = "pinned" THEN 1 ELSE pm]} ELSE {})

(* ReadFromFile and ApplyDefaults; seen is history, the latest version at that time. *)
ReadFromFile(f) ==
    {[v |-> IF f.kind = "missing" THEN 0 ELSE f.v, host |-> h, pm |-> s.pm, pmv |-> s.pmv,
      seen |-> pm] :
        h \in Hosts(f), s \in Sections(f)}

(* A failing fetch is a fault. *)
CountFetch(c) ==
    /\ c.pm = "failed" => faults < MaxFaults
    /\ faults' = IF c.pm = "failed" THEN faults + 1 ELSE faults

(* Execute: the main goroutine reads the configuration before anything runs beside
   it; a bare metal machine without cloud properties ends the agent. *)
Execute ==
    /\ proc = "up" /\ gpc[0] = "init"
    /\ \E c \in ReadFromFile(file) :
          /\ CountFetch(c)
          /\ config' = c
          /\ proc' = IF c.host = "nocloud" THEN "exited" ELSE proc
    /\ gpc' = [gpc EXCEPT ![0] = "configured"]
    /\ UNCHANGED <<file, pm, held, gen, svc, cancelled, watcher, signals, http>>

(* startdaemonHandler of generation 0: startConfigPollerRoutine. *)
StartPoller ==
    /\ proc = "up" /\ gpc[0] = "configured"
    /\ poller' = "new"
    /\ gpc' = [gpc EXCEPT ![0] = "starting"]
    /\ UNCHANGED <<file, pm, shared, gen, svc, cancelled, prev, first, owned, signals, http,
                   proc, faults>>

(* Mutant: a restart keeps the configuration of Execute. *)
ReadConfigSkipped(g) ==
    /\ proc = "up" /\ gpc[g] = "reading"
    /\ held' = [held EXCEPT ![g] = config]
    /\ gpc' = [gpc EXCEPT ![g] = "read"]
    /\ UNCHANGED <<file, pm, config, gen, svc, cancelled, watcher, signals, http, proc, faults>>

(* startdaemonHandler of a restart: ReadFromFile, which may wait for Parameter
   Manager, then the assignment to d.config and d.pmVersion. *)
ReadConfig(g) ==
    /\ proc = "up" /\ gpc[g] = "reading"
    /\ \E c \in ReadFromFile(file) :
          /\ CountFetch(c)
          /\ held' = [held EXCEPT ![g] = c]
    /\ gpc' = [gpc EXCEPT ![g] = "read"]
    /\ UNCHANGED <<file, pm, config, gen, svc, cancelled, watcher, signals, http, proc>>

ApplyConfig(g) ==
    /\ proc = "up" /\ gpc[g] = "read"
    /\ config' = held[g]
    /\ held' = [held EXCEPT ![g] = NoConfig]
    /\ gpc' = [gpc EXCEPT ![g] = "starting"]
    /\ UNCHANGED <<file, pm, gen, svc, cancelled, watcher, signals, http, proc,
                   faults>>

(* startServices returns early.  The main goroutine then leaves Execute and the
   process ends; a restarted handler just ends. *)
HandlerReturns(g) ==
    /\ gpc' = [gpc EXCEPT ![g] = "returned"]
    /\ proc' = IF g = 0 THEN "exited" ELSE proc

(* startServices, first part: without cloud properties it returns; then the
   handler's channel is registered.  Nobody reads the channel of a restart. *)
EnterServices(g) ==
    /\ proc = "up" /\ gpc[g] = "starting"
    /\ IF config.host = "nocloud"
          THEN HandlerReturns(g) /\ UNCHANGED notified
          ELSE /\ gpc' = [gpc EXCEPT ![g] = "notified"]
               /\ notified' = IF g = 0 THEN notified \cup {"main"} ELSE notified
               /\ UNCHANGED proc
    /\ UNCHANGED <<file, pm, shared, gen, svc, cancelled, watcher, pending, signalled, http,
                   faults>>

(* One of the clients or services cannot be created: startServices returns with
   the services before it running. *)
FailServices(g) ==
    /\ proc = "up" /\ gpc[g] = "notified" /\ faults < MaxFaults
    /\ HandlerReturns(g)
    /\ svc' = [svc EXCEPT ![g] = config]
    /\ faults' = faults + 1
    /\ UNCHANGED <<file, pm, shared, gen, cancelled, watcher, signals, http>>

(* StartSAPHostAgentProvider: only the first generation starts the HTTP server,
   which may find its port taken. *)
StartSAPHostAgentProvider(g) ==
    http' \in IF g = 0 /\ config.host = "on" THEN {"serving", "failed"} ELSE {http}

(* startServices, second part: every service is started with d.config. *)
FinishServices(g) ==
    /\ proc = "up" /\ gpc[g] = "notified"
    /\ svc' = [svc EXCEPT ![g] = config]
    /\ StartSAPHostAgentProvider(g)
    /\ gpc' = [gpc EXCEPT ![g] = "waiting"]
    /\ UNCHANGED <<file, pm, shared, gen, cancelled, watcher, signals, proc, faults>>

(* waitForShutdown: a restarted handler waits for its context, the main goroutine
   for a signal; it then cancels generation 0, sleeps three seconds and returns. *)
ContextDone(g) ==
    /\ proc = "up" /\ g # 0 /\ gpc[g] = "waiting" /\ g \in cancelled
    /\ gpc' = [gpc EXCEPT ![g] = "returned"]
    /\ svc' = [svc EXCEPT ![g] = NoConfig]
    /\ UNCHANGED <<file, pm, shared, gen, cancelled, watcher, signals, http, proc, faults>>

(* Mutant: a restart takes over the wait for the signal as well. *)
SignalObservedBeforeRestart ==
    /\ proc = "up" /\ gpc[0] = "waiting" /\ "main" \in pending /\ gen = 0
    /\ pending' = pending \ {"main"}
    /\ cancelled' = cancelled \cup {0}
    /\ gpc' = [gpc EXCEPT ![0] = "stopping"]
    /\ UNCHANGED <<file, pm, shared, gen, svc, watcher, notified, signalled, http, proc, faults>>

SignalObserved ==
    /\ proc = "up" /\ gpc[0] = "waiting" /\ "main" \in pending
    /\ pending' = pending \ {"main"}
    /\ cancelled' = cancelled \cup {0}
    /\ gpc' = [gpc EXCEPT ![0] = "stopping"]
    /\ UNCHANGED <<file, pm, shared, gen, svc, watcher, notified, signalled, http, proc, faults>>

ShutDown ==
    /\ proc = "up" /\ gpc[0] = "stopping"
    /\ HandlerReturns(0)
    /\ UNCHANGED <<file, pm, shared, gen, svc, cancelled, watcher, signals, http, faults>>

------------------------------------------------------------------------------
(* pollConfigFile: the first modification time, and the end of the poller when the
   file is not there. *)
PollerBegins ==
    /\ proc = "up" /\ poller = "new"
    /\ notified' = notified \cup {"poller"}
    /\ IF file.kind = "missing"
         THEN poller' = "ended" /\ UNCHANGED <<prev, first>>
         ELSE poller' = "polling" /\ prev' = file.v /\ first' = file.v
    /\ UNCHANGED <<file, pm, shared, gen, gpc, svc, cancelled, owned, pending, signalled, http,
                   proc, faults>>

PollerStops ==
    /\ proc = "up" /\ poller = "polling" /\ "poller" \in pending
    /\ pending' = pending \ {"poller"}
    /\ poller' = "ended"
    /\ UNCHANGED <<file, pm, shared, gen, gpc, svc, cancelled, prev, first, owned, notified,
                   signalled, http, proc, faults>>

(* A tick may find a slow handler still reading; MaxGen bounds the restarts. *)
Ticks ==
    /\ proc = "up" /\ poller = "polling"
    /\ gen < MaxGen
    /\ gpc[gen] \in {"reading", "read"} => gen \in SlowGens

(* Mutant: Restart leaves the running services to the handler it starts. *)
RestartWithoutCancel == poller' = "restarting" /\ UNCHANGED cancelled

(* Restart, until its sleep: the services of the generation it holds are
   cancelled. *)
Restart ==
    /\ cancelled' = cancelled \cup {owned}
    /\ poller' = "restarting"

(* Mutant: a file that is not older counts as changed. *)
FileNotOlder ==
    /\ Ticks
    /\ file.kind # "missing" /\ file.v >= prev
    /\ Restart
    /\ prev' = file.v
    /\ UNCHANGED <<file, pm, shared, gen, gpc, svc, first, owned, signals, http, proc, faults>>

(* fileTicker: the file is newer than at the last restart. *)
FileChanged ==
    /\ Ticks
    /\ file.kind # "missing" /\ file.v > prev
    /\ Restart
    /\ prev' = file.v
    /\ UNCHANGED <<file, pm, shared, gen, gpc, svc, first, owned, signals, http, proc, faults>>

(* pmTicker: the latest version of the resource is not d.pmVersion. *)
ParameterChanged ==
    /\ Ticks
    /\ config.pm # "off" /\ pm # config.pmv
    /\ Restart
    /\ UNCHANGED <<file, pm, shared, gen, gpc, svc, prev, first, owned, signals, http, proc,
                   faults>>

(* Mutant: pollConfigFile drops the cancel function that Restart returns. *)
RespawnLosesCancel ==
    /\ proc = "up" /\ poller = "restarting" /\ gen < MaxGen
    /\ gen' = gen + 1
    /\ gpc' = [gpc EXCEPT ![gen + 1] = "reading"]
    /\ poller' = "polling"
    /\ UNCHANGED <<file, pm, shared, svc, cancelled, prev, first, owned, signals, http, proc,
                   faults>>

(* Restart, after its sleep: the handler of the next generation. *)
Respawn ==
    /\ proc = "up" /\ poller = "restarting" /\ gen < MaxGen
    /\ gen' = gen + 1
    /\ gpc' = [gpc EXCEPT ![gen + 1] = "reading"]
    /\ owned' = gen + 1
    /\ poller' = "polling"
    /\ UNCHANGED <<file, pm, shared, svc, cancelled, prev, first, signals, http, proc, faults>>

------------------------------------------------------------------------------
Handler(g) ==
    \/ ReadConfig(g) \/ ApplyConfig(g)
    \/ EnterServices(g) \/ FinishServices(g) \/ ContextDone(g)

Main == Execute \/ StartPoller \/ SignalObserved \/ ShutDown

Poller == PollerBegins \/ PollerStops \/ FileChanged \/ ParameterChanged \/ Respawn

Environment ==
    \/ \E k \in Kinds : EditFile(k)
    \/ RemoveFile \/ PublishParameter \/ Signal

Next ==
    \/ Main \/ Poller \/ Environment
    \/ \E g \in Gens : Handler(g) \/ FailServices(g)

Spec == Init /\ [][Next]_vars

(* Goroutines run; each ticker of the poller's select goes on firing, so the case
   of one is not always passed over for that of the other. *)
Fairness ==
    /\ WF_vars(Main)
    /\ \A g \in Gens : WF_vars(Handler(g))
    /\ WF_vars(PollerBegins) /\ WF_vars(Respawn)
    /\ SF_vars(FileChanged) /\ SF_vars(ParameterChanged) /\ SF_vars(PollerStops)

FairSpec == Spec /\ Fairness

------------------------------------------------------------------------------
Live == {g \in Gens : gpc[g] # "init" /\ g \notin cancelled}

(* Two generations are never live together, and the live one is the one whose
   cancel function the poller holds, so that the next restart stops it: each
   Restart returns the cancel function of what it has started, and between its
   cancel() and its go statement nothing is live. *)
LiveIsOwned ==
    /\ Live \subseteq {owned}
    /\ poller = "restarting" => Live = {}

(* Its inductive form: every generation that was started and is not the one the
   poller holds is cancelled, and so is that one while the poller sleeps between
   cancelling it and starting the next. *)
OwnInv ==
    /\ \A g \in Gens : gpc[g] # "init" => g = owned \/ g \in cancelled
    /\ poller = "restarting" => owned \in cancelled
    /\ gpc[0] = "init" => owned = 0 /\ poller = "none"

(* The poller restarts the services only for a reason: a newer file, a fetch that
   had failed, or a resource that has a version that was not there when the
   configuration in d.config was read. *)
RestartMeansChange ==
    [][(poller = "polling" /\ poller' = "restarting") =>
          (file.v > prev \/ config.pm = "failed" \/ pm # config.seen)]_vars

(* What the services run with. *)
Serving(c) == gpc[gen] = "waiting" /\ gen \in Live /\ svc[gen] = c

Undisturbed ==
    proc = "up" /\ signalled = "no" /\ gpc[gen] # "returned" /\ poller # "ended"

(* A handler is still reading when the next one has begun. *)
Overtaken == \E g \in Gens : g < gen /\ gpc[g] \in {"reading", "read"}

(* An edit of the file after the poller has first looked at it, and a version of
   the resource, end up in the services: from some moment on the latest generation
   runs with the version of the file, and with the latest version of the resource
   unless its section is lost, as long as the agent stays up, its services start,
   the file exists, and no handler takes so long to read that the next one
   overtakes it. *)
EditsReachServices ==
    ([](~Overtaken) /\ <>[](Undisturbed /\ file.kind # "missing" /\ file.v > first)) =>
        <>[](\E c \in Configs :
                /\ Serving(c)
                /\ c.v = file.v
                /\ c.pm = "merged" => c.pmv = pm
                /\ c.pm # "failed")

(* A signal that reaches the main goroutine's channel ends the process, whatever
   restarts are under way. *)
SignalEndsProcess == ("main" \in pending) ~> (proc # "up")

================================================================================
