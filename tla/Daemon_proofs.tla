----------------------------- MODULE Daemon_proofs -----------------------------
(***************************************************************************)
(* Proofs about Daemon.  The invariant needs no types beyond those of the  *)
(* variables that carry the generations, so it does not rest on TypeOK.    *)
(***************************************************************************)
EXTENDS Daemon, TLAPS

(* The types the argument needs. *)
GenTypes ==
    /\ gen \in Gens /\ owned \in Gens
    /\ cancelled \in SUBSET Gens
    /\ DOMAIN gpc = Gens

(* What a step of a handler, or of the main goroutine, does to the generations:
   it moves the program counter of one that is under way. *)
LEMMA MoveKeepsOwn ==
    ASSUME GenTypes, OwnInv, NEW g \in Gens, gpc[g] # "init", NEW w, w # "init",
           gpc' = [gpc EXCEPT ![g] = w],
           UNCHANGED <<gen, owned, poller>>, cancelled' \in {cancelled, cancelled \cup {0}}
    PROVE  GenTypes' /\ OwnInv'
<1>1. 0 \in Gens
  BY DaemonAssumption DEF Gens
<1> QED
  BY <1>1 DEF GenTypes, OwnInv

(* The cancel functions: what was started is held by the poller or cancelled,
   for every number of generations. *)
THEOREM OwnInvariant == Spec => [](GenTypes /\ OwnInv)
<1> USE DaemonAssumption
<1>0. 0 \in Gens
  BY DEF Gens
<1>1. Init => GenTypes /\ OwnInv
  BY <1>0 DEF Init, GenTypes, OwnInv
<1>2. GenTypes /\ OwnInv /\ [Next]_vars => GenTypes' /\ OwnInv'
  <2> SUFFICES ASSUME GenTypes, OwnInv, [Next]_vars PROVE GenTypes' /\ OwnInv'
    OBVIOUS
  <2>1. CASE Execute
    <3>1. UNCHANGED <<gen, owned, poller, cancelled>> /\ gpc' = [gpc EXCEPT ![0] = "configured"]
          /\ gpc[0] = "init"
      BY <2>1 DEF Execute, watcher
    <3> QED BY <1>0, <3>1 DEF GenTypes, OwnInv
  <2>2. CASE StartPoller
    BY <1>0, <2>2 DEF StartPoller, GenTypes, OwnInv
  <2>3. CASE SignalObserved
    BY <1>0, <2>3, MoveKeepsOwn DEF SignalObserved, watcher
  <2>4. CASE ShutDown
    BY <1>0, <2>4, MoveKeepsOwn DEF ShutDown, HandlerReturns, watcher
  <2>5. CASE PollerBegins
    BY <1>0, <2>5 DEF PollerBegins, GenTypes, OwnInv
  <2>6. CASE PollerStops
    BY <1>0, <2>6 DEF PollerStops, GenTypes, OwnInv
  <2>7. CASE FileChanged
    BY <1>0, <2>7 DEF FileChanged, Ticks, Restart, GenTypes, OwnInv
  <2>8. CASE ParameterChanged
    BY <1>0, <2>8 DEF ParameterChanged, Ticks, Restart, GenTypes, OwnInv
  <2>9. CASE Respawn
    <3>1. gen + 1 \in Gens /\ gen + 1 # 0
      BY <2>9 DEF Respawn, GenTypes, Gens
    <3> QED BY <1>0, <2>9, <3>1 DEF Respawn, GenTypes, OwnInv
  <2>10. CASE Environment
    <3>1. UNCHANGED <<gen, gpc, owned, poller, cancelled>>
      BY <2>10 DEF Environment, EditFile, RemoveFile, PublishParameter, Signal, watcher
    <3> QED BY <3>1 DEF GenTypes, OwnInv
  <2>11. ASSUME NEW g \in Gens, ReadConfig(g) PROVE GenTypes' /\ OwnInv'
    BY <2>11, MoveKeepsOwn DEF ReadConfig, watcher
  <2>12. ASSUME NEW g \in Gens, ApplyConfig(g) PROVE GenTypes' /\ OwnInv'
    BY <2>12, MoveKeepsOwn DEF ApplyConfig, watcher
  <2>13. ASSUME NEW g \in Gens, EnterServices(g) PROVE GenTypes' /\ OwnInv'
    <3>1. PICK w \in {"returned", "notified"} : gpc' = [gpc EXCEPT ![g] = w]
      BY <2>13 DEF EnterServices, HandlerReturns
    <3> QED BY <2>13, <3>1, MoveKeepsOwn DEF EnterServices, watcher
  <2>14. ASSUME NEW g \in Gens, FinishServices(g) PROVE GenTypes' /\ OwnInv'
    BY <2>14, MoveKeepsOwn DEF FinishServices, watcher
  <2>15. ASSUME NEW g \in Gens, FailServices(g) PROVE GenTypes' /\ OwnInv'
    BY <2>15, MoveKeepsOwn DEF FailServices, HandlerReturns, watcher
  <2>16. ASSUME NEW g \in Gens, ContextDone(g) PROVE GenTypes' /\ OwnInv'
    BY <2>16, MoveKeepsOwn DEF ContextDone, watcher
  <2>17. CASE UNCHANGED vars
    BY <2>17 DEF vars, watcher, GenTypes, OwnInv
  <2> QED
    BY <2>1, <2>2, <2>3, <2>4, <2>5, <2>6, <2>7, <2>8, <2>9, <2>10, <2>11, <2>12, <2>13,
       <2>14, <2>15, <2>16, <2>17 DEF Next, Main, Poller, Handler
<1> QED
  BY <1>1, <1>2, PTL DEF Spec

(* At most one generation is live, and the poller holds its cancel function. *)
THEOREM OneGenerationLive == Spec => []LiveIsOwned
<1>1. GenTypes /\ OwnInv => LiveIsOwned
  BY DEF GenTypes, OwnInv, LiveIsOwned, Live
<1> QED
  BY <1>1, OwnInvariant, PTL

(* A configuration whose section was merged has the version that was the latest when
   it was read. *)
AsSeen(c) ==
    /\ c.pm \in {"off", "failed", "merged"}
    /\ c.pm = "merged" => c.pmv = c.seen

(* What d.config has, and what the handlers are about to assign to it. *)
SeenInv ==
    /\ AsSeen(config)
    /\ held = [g \in Gens |-> held[g]] /\ \A g \in Gens : AsSeen(held[g])

(* ReadFromFile and mergePMConfig: the version that is fetched is the latest, where the
   file names none. *)
LEMMA ReadIsSeen ==
    ASSUME PMMode # "pinned", NEW c \in ReadFromFile(file)
    PROVE  AsSeen(c)
<1>1. PICK h \in Hosts(file), s \in Sections(file) :
        c = [v |-> IF file.kind = "missing" THEN 0 ELSE file.v, host |-> h, pm |-> s.pm,
             pmv |-> s.pmv, seen |-> pm]
  BY DEF ReadFromFile
<1>2. c.pm = s.pm /\ c.pmv = s.pmv /\ c.seen = pm
  BY <1>1
<1>3. s.pm \in {"off", "failed", "merged"} /\ (s.pm = "merged" => s.pmv = pm)
  BY DEF Sections
<1> QED  BY <1>2, <1>3 DEF AsSeen

(* Only reading the file brings a configuration; handlers pass it on. *)
LEMMA SeenNext == PMMode # "pinned" /\ SeenInv /\ [Next]_vars => SeenInv'
<1> SUFFICES ASSUME PMMode # "pinned", SeenInv, [Next]_vars PROVE SeenInv'
  OBVIOUS
<1>1. CASE Execute
  <2>1. AsSeen(config') /\ UNCHANGED held
    BY <1>1, ReadIsSeen DEF Execute
  <2> QED  BY <2>1 DEF SeenInv, AsSeen
<1>2. ASSUME NEW g \in Gens, ReadConfig(g) PROVE SeenInv'
  <2>1. PICK c \in ReadFromFile(file) : held' = [held EXCEPT ![g] = c]
    BY <1>2 DEF ReadConfig
  <2>2. AsSeen(c) /\ UNCHANGED config
    BY <1>2, ReadIsSeen DEF ReadConfig
  <2>3. /\ held' = [h \in Gens |-> held'[h]]
        /\ \A h \in Gens : held'[h] = IF h = g THEN c ELSE held[h]
    BY <2>1 DEF SeenInv
  <2> QED  BY <2>2, <2>3 DEF SeenInv, AsSeen
<1>3. ASSUME NEW g \in Gens, ApplyConfig(g) PROVE SeenInv'
  <2>1. config' = held[g] /\ held' = [held EXCEPT ![g] = NoConfig]
    BY <1>3 DEF ApplyConfig
  <2>2. AsSeen(NoConfig) /\ AsSeen(config')
    BY <2>1 DEF AsSeen, NoConfig, SeenInv
  <2>3. /\ held' = [h \in Gens |-> held'[h]]
        /\ \A h \in Gens : held'[h] = IF h = g THEN NoConfig ELSE held[h]
    BY <2>1 DEF SeenInv
  <2> QED  BY <2>2, <2>3 DEF SeenInv, AsSeen
<1>4. CASE UNCHANGED <<config, held>>
  BY <1>4 DEF SeenInv, AsSeen
<1>5. Execute \/ (\E g \in Gens : ReadConfig(g) \/ ApplyConfig(g)) \/ UNCHANGED <<config, held>>
  BY DEF Next, Main, StartPoller, SignalObserved, ShutDown, Poller, PollerBegins, PollerStops,
         FileChanged, ParameterChanged, Respawn, Environment, EditFile, RemoveFile, PublishParameter,
         Signal, Handler, EnterServices, FinishServices, ContextDone, FailServices, shared, vars
<1> QED  BY <1>1, <1>2, <1>3, <1>4, <1>5

(* pollConfigFile restarts the services only for a newer file, a fetch that failed, or a
   version that the configuration in use has not seen - unless the file pins a version:
   the poller compares the pinned one with the latest and restarts at every tick. *)
THEOREM RestartsHaveReason == PMMode # "pinned" => (Spec => RestartMeansChange)
<1>1. Init => SeenInv
  <2> SUFFICES ASSUME Init PROVE SeenInv
    OBVIOUS
  <2>1. config = NoConfig /\ held = [g \in Gens |-> NoConfig] /\ AsSeen(NoConfig)
    BY DEF Init, AsSeen, NoConfig
  <2> QED  BY <2>1 DEF SeenInv
<1>2. SeenInv /\ [Next]_vars =>
        [(poller = "polling" /\ poller' = "restarting") =>
            (file.v > prev \/ config.pm = "failed" \/ pm # config.seen)]_vars
  <2> SUFFICES ASSUME SeenInv, Next, poller = "polling", poller' = "restarting"
               PROVE  file.v > prev \/ config.pm = "failed" \/ pm # config.seen
    OBVIOUS
  <2>1. FileChanged \/ ParameterChanged
    BY DEF Next, Main, Execute, StartPoller, SignalObserved, ShutDown, Poller, PollerBegins,
         PollerStops, Respawn, Environment, EditFile, RemoveFile, PublishParameter, Signal, Handler,
         ReadConfig, ApplyConfig, EnterServices, FinishServices, ContextDone, FailServices, watcher
  <2>2. CASE FileChanged
    BY <2>2 DEF FileChanged
  <2>3. CASE ParameterChanged
    BY <2>3 DEF ParameterChanged, SeenInv, AsSeen
  <2> QED  BY <2>1, <2>2, <2>3
<1>3. PMMode # "pinned" => [](PMMode # "pinned")
  OBVIOUS
<1> QED
  BY <1>1, <1>2, <1>3, SeenNext, PTL DEF Spec, RestartMeansChange
================================================================================
