---------------------------- MODULE ProcessMetrics ----------------------------
(***************************************************************************)
(* Process metrics (internal/processmetrics).  An updater compares, on     *)
(* every tick, the SAP instances that system discovery reports with those  *)
(* of the last tick; when they differ it cancels the collectors it started *)
(* and starts a new generation of them: slow ones, each in a worker of its *)
(* own that puts itself back after its interval, and a loop each for the   *)
(* fast ones and for the reliability metrics.                              *)
(***************************************************************************)
EXTENDS Naturals, FiniteSets

CONSTANTS
    None,
    SAPInstances,       \* the SAP instances there may be
    Databases,          \* those of type HANA
    NetWeaver,          \* those of type NetWeaver
    Kinds,              \* the kinds of slow collectors that are followed
    Enabled,            \* collect_process_metrics, on Linux, with frequencies that
                        \* are large enough
    MaxChanges          \* bound on the changes of what discovery reports

ASSUME ProcessAssumption ==
    /\ Databases \cup NetWeaver \subseteq SAPInstances
    /\ Enabled \in BOOLEAN /\ MaxChanges \in Nat

(* A restart takes a change. *)
Generations == 0..MaxChanges
HostKinds == {"host", "cluster", "maintenance"}
Collectors ==
    ((HostKinds \cap Kinds) \X {None}) \cup ((Kinds \ HostKinds) \X SAPInstances)

VARIABLES
    reported,   \* what GetSAPInstances returns: None or a set of instances
    changes,    \* the number of changes of reported
    upd,        \* the updater: "compare", "sleep", "startReliability", "wait", "ended"
    lastInstances, newInstances,  \* updateMetricsCollectors
    changesSeen, \* history: changes when the instances were last compared and found to differ
    gen,        \* the latest generation
    ended,      \* the generations whose context is cancelled
    serves,     \* [generation -> the instances process metrics started with]
    noClient,   \* history: generations without a Cloud Monitoring client
    slow,       \* [generation -> [collector -> "off", "running", "timer" or "due"]]
    fast, rel,  \* [generation -> "off", "ticking" or "collecting"]
    pmDone      \* the context of the daemon is cancelled

updater == <<upd, lastInstances, newInstances, changesSeen, gen, ended, serves, noClient>>
work == <<slow, fast, rel>>
env == <<reported, changes, pmDone>>
pmVars == <<updater, work, env>>

Idle == [c \in Collectors |-> "off"]

ProcessInit ==
    /\ reported = None /\ changes = 0 /\ pmDone = FALSE
    /\ upd = "compare" /\ lastInstances = None /\ newInstances = None /\ changesSeen = 0
    /\ gen = 0 /\ ended = {}
    /\ serves = [g \in Generations |-> None] /\ noClient = {}
    /\ slow = [g \in Generations |-> Idle]
    /\ fast = [g \in Generations |-> "off"] /\ rel = [g \in Generations |-> "off"]

Over(g) == pmDone \/ g \in ended

(* createProcessCollectors: the slow collectors for a set of instances. *)
SlowCollectors(S) ==
    {c \in Collectors : \/ c[1] = "host"
                        \/ c[1] \in {"cluster", "maintenance"} /\ S # {}
                        \/ c[1] = "os" /\ c[2] \in S
                        \/ c[1] = "compute" /\ c[2] \in S \cap (Databases \cup NetWeaver)
                        \/ c[1] = "database" /\ c[2] \in S \cap Databases
                        \/ c[1] = "netweaver" /\ c[2] \in S \cap NetWeaver}

(* The fast collectors, and those of the reliability metrics. *)
FastCollectors(S) == S \cap (Databases \cup NetWeaver)

(* GetSAPInstances as the updater's goroutine reads it. *)
Reported == IF reported = None THEN {} ELSE reported

(* Mutant: nil and no instances at all are the same. *)
EqualIgnoresNil(old, inst) == old = inst \/ inst # None

(* sapInstancesEqual: nil differs from no instances; credentials, which the
   updater itself writes into the shared instances, do not count. *)
Equal(old, inst) == old = inst

(* Mutant: the collectors of before are not cancelled. *)
CompareKeepsOld ==
    /\ upd = "compare"
    /\ newInstances' = reported
    /\ IF Equal(lastInstances, reported)
         THEN lastInstances' = reported /\ upd' = "wait" /\ UNCHANGED changesSeen
         ELSE changesSeen' = changes /\ upd' = "sleep" /\ UNCHANGED lastInstances
    /\ UNCHANGED <<ended, gen, serves, noClient, work, env>>

(* updateMetricsCollectors, up to the wait for the old collectors. *)
Compare ==
    /\ upd = "compare"
    /\ newInstances' = reported
    /\ IF Equal(lastInstances, reported)
         THEN lastInstances' = reported /\ upd' = "wait" /\ UNCHANGED <<changesSeen, ended>>
         ELSE changesSeen' = changes /\ ended' = ended \cup {gen} /\ upd' = "sleep" /\ UNCHANGED lastInstances
    /\ UNCHANGED <<gen, serves, noClient, work, env>>

(* startProcessMetrics: it reads the instances anew.  Without the client it
   starts nothing, and nothing tries again before the instances change. *)
StartProcess ==
    /\ upd = "sleep"
    /\ upd' = "startReliability"
    /\ gen' = gen + 1
    /\ \/ /\ Enabled
          /\ serves' = [serves EXCEPT ![gen + 1] = Reported]
          /\ slow' = [slow EXCEPT ![gen + 1] =
               [c \in Collectors |-> IF c \in SlowCollectors(Reported) THEN "running" ELSE "off"]]
          /\ fast' = [fast EXCEPT ![gen + 1] =
               IF FastCollectors(Reported) = {} THEN "off" ELSE "ticking"]
          /\ UNCHANGED noClient
       \/ /\ noClient' = noClient \cup {gen + 1}
          /\ UNCHANGED <<serves, slow, fast>>
    /\ UNCHANGED <<lastInstances, newInstances, changesSeen, ended, rel, env>>

(* Mutant: what is remembered is what was found after the start. *)
StartReliabilityRemembersNow ==
    /\ upd = "startReliability"
    /\ rel' = [rel EXCEPT ![gen] = IF FastCollectors(Reported) = {} THEN "off" ELSE "ticking"]
    /\ lastInstances' = reported /\ upd' = "wait"
    /\ UNCHANGED <<newInstances, changesSeen, gen, ended, serves, noClient, slow, fast, env>>

(* startReliabilityMetrics reads them once more; then the tick is over. *)
StartReliability ==
    /\ upd = "startReliability"
    /\ rel' = [rel EXCEPT ![gen] = IF FastCollectors(Reported) = {} THEN "off" ELSE "ticking"]
    /\ lastInstances' = newInstances /\ upd' = "wait"
    /\ UNCHANGED <<newInstances, changesSeen, gen, ended, serves, noClient, slow, fast, env>>

UpdaterTick ==
    /\ upd = "wait"
    /\ upd' = IF pmDone THEN "ended" ELSE "compare"
    /\ UNCHANGED <<lastInstances, newInstances, changesSeen, gen, ended, serves, noClient, work, env>>

(* Mutant: the context is not looked at before the task is submitted. *)
SlowForever(g, c) ==
    /\ slow[g][c] # "off"
    /\ slow' = [slow EXCEPT ![g][c] = IF @ = "running" THEN "timer" ELSE "running"]
    /\ UNCHANGED <<updater, fast, rel, env>>

(* collectAndSendSlowMovingMetrics: a collection with its retries, the timer,
   and the check of the context before the task is submitted again; the pool
   has a worker for every collector. *)
Slow(g, c) ==
    /\ \/ slow[g][c] = "running" /\ slow' = [slow EXCEPT ![g][c] = "timer"]
       \/ slow[g][c] = "timer"
            /\ slow' = [slow EXCEPT ![g][c] = IF Over(g) THEN "off" ELSE "due"]
       \/ slow[g][c] = "due" /\ slow' = [slow EXCEPT ![g][c] = "running"]
    /\ UNCHANGED <<updater, fast, rel, env>>

(* collectAndSendFastMovingMetrics and collectAndSendReliabilityMetrics: when a
   tick and the end of the context are both there, select takes either. *)
FastLoop(g) ==
    /\ \/ fast[g] = "ticking" /\ fast' = [fast EXCEPT ![g] = "collecting"] /\ UNCHANGED rel
       \/ fast[g] = "collecting" /\ fast' = [fast EXCEPT ![g] = "ticking"] /\ UNCHANGED rel
       \/ rel[g] = "ticking" /\ rel' = [rel EXCEPT ![g] = "collecting"] /\ UNCHANGED fast
       \/ rel[g] = "collecting" /\ rel' = [rel EXCEPT ![g] = "ticking"] /\ UNCHANGED fast
    /\ UNCHANGED <<updater, slow, env>>

FastEnds(g) ==
    /\ fast[g] = "ticking" /\ Over(g)
    /\ fast' = [fast EXCEPT ![g] = "off"]
    /\ UNCHANGED <<updater, slow, rel, env>>

ReliabilityEnds(g) ==
    /\ rel[g] = "ticking" /\ Over(g)
    /\ rel' = [rel EXCEPT ![g] = "off"]
    /\ UNCHANGED <<updater, slow, fast, env>>

(* System discovery reports something else. *)
Discovered ==
    /\ changes < MaxChanges
    /\ reported' \in (SUBSET SAPInstances) \ {reported}
    /\ changes' = changes + 1
    /\ UNCHANGED <<updater, work, pmDone>>

StopProcessMetrics ==
    /\ ~pmDone /\ pmDone' = TRUE
    /\ UNCHANGED <<updater, work, reported, changes>>

ProcessNext ==
    \/ Compare \/ StartProcess \/ StartReliability \/ UpdaterTick
    \/ Discovered \/ StopProcessMetrics
    \/ \E g \in 1..gen :
         \/ \E c \in Collectors : Slow(g, c)
         \/ FastLoop(g) \/ FastEnds(g) \/ ReliabilityEnds(g)

(* The updater ticks, collections end (their retries are bounded) and timers
   fire.  select chooses at random, so a loop does not pass over the end of its
   context for ever. *)
ProcessFairness ==
    /\ WF_pmVars(Compare \/ StartProcess \/ StartReliability \/ UpdaterTick)
    /\ \A g \in Generations \ {0} :
         /\ \A c \in Collectors : WF_pmVars(Slow(g, c))
         /\ WF_pmVars(FastLoop(g))
         /\ SF_pmVars(FastEnds(g)) /\ SF_pmVars(ReliabilityEnds(g))

ProcessSpec == ProcessInit /\ [][ProcessNext]_pmVars /\ ProcessFairness

------------------------------------------------------------------------------
AtWork(g) == fast[g] # "off" \/ rel[g] # "off" \/ \E c \in Collectors : slow[g][c] # "off"

(* Collectors of an earlier generation do not run beside those of the current
   one for good: all stop after their generation is cancelled, and so they all
   stop when the daemon does. *)
StaleCollectorsStop == <>[](\A g \in Generations : g < gen \/ pmDone => ~AtWork(g))

(* When discovery has settled (the bound on changes makes it), the collectors
   that run are those of the instances it reports, provided their generation got
   its client.  One case is not repaired: the instances change between the compare
   and the start, which reads them anew, and change back before the next compare;
   what is remembered is then what is there, and the collectors stay on what was
   there in between. *)
CameBack == changes >= changesSeen + 2 /\ lastInstances = reported
CollectsWhatIsThere ==
    <>[](\/ reported = None \/ pmDone \/ gen \in noClient
         \/ gen # 0 /\ gen \notin ended /\ (serves[gen] = reported \/ CameBack))
==============================================================================
