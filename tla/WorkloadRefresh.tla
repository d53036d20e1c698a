---------------------------- MODULE WorkloadRefresh ----------------------------
(***************************************************************************)
(* The collection definition at work: collectiondefinition.Start loads one *)
(* and starts the refresher, which loads again every day and sends the     *)
(* result over an unbuffered channel to the Workload Manager collector.    *)
(* The collector first waits until Data Warehouse accepts data, then       *)
(* collects and sends metrics at each tick and takes a new definition      *)
(* between two rounds.  Both loops run as recoverable routines under one   *)
(* context.                                                                *)
(***************************************************************************)
EXTENDS CollectionLoad

CONSTANTS
    AgentDefinitions,  \* sets of metrics the agent's definition may consist of
    LocalDefinitions,  \* sets of metrics of the local file
    FetchLatest,       \* fetch_latest_config: "yes" or "no"
    MaxVersion,        \* bound on the version of the published definition
    MaxPanics          \* bound on panics of the collector

ASSUME RefreshAssumption ==
    /\ \A d \in AgentDefinitions \cup LocalDefinitions : d \subseteq AnyMetric
    /\ FetchLatest \in {"yes", "no"}
    /\ MaxVersion \in Nat /\ MaxPanics \in Nat

VARIABLES
    published,  \* the definition in the bucket: [version, metrics]
    local,      \* the local file: [state: "absent", "present" or "unreadable", metrics]
    accepting,  \* whether Data Warehouse accepts data of this instance
    refresher,  \* periodicRefresh
    outgoing,   \* the definition it is sending
    wlm,        \* the collector's loop
    used,       \* params.WorkloadConfig of the loop
    initial,    \* the WorkloadConfig the collector's routine was started with
    ctx,        \* the context of the services: "live" or "cancelled"
    panics      \* panics so far

vars == <<published, local, accepting, refresher, outgoing, wlm, used, initial, ctx, panics>>

Definitions == [version : 0..MaxVersion, metrics : SUBSET UNION (AgentDefinitions \cup LocalDefinitions)]

NoDefinition == [version |-> 0, metrics |-> {}]
NoLocal == [state |-> "absent", metrics |-> {}]

(* The type invariant. *)
TypeOK ==
    /\ published.version \in 1..MaxVersion /\ published.metrics \in AgentDefinitions
    /\ local.state \in {"absent", "present", "unreadable"}
    /\ accepting \in {"yes", "no"}
    /\ refresher \in {"off", "idle", "sending", "stopped", "dead"}
    /\ outgoing \in Definitions /\ used \in Definitions /\ initial \in Definitions
    /\ wlm \in {"off", "refused", "crashed", "waiting", "activated", "collecting", "writing", "retrying",
                "ready", "stopped", "dead"}
    /\ ctx \in {"live", "cancelled"}
    /\ panics \in 0..MaxPanics

Init ==
    /\ published \in [version : {1}, metrics : AgentDefinitions]
    /\ local = NoLocal
    /\ accepting \in {"yes", "no"}
    /\ refresher = "off" /\ outgoing = NoDefinition
    /\ wlm = "off" /\ used = NoDefinition /\ initial = NoDefinition
    /\ ctx = "live"
    /\ panics = 0

------------------------------------------------------------------------------
(* The definition built into the agent, version 0. *)
Default(metrics) == [version |-> 0, metrics |-> metrics]

(* fetchFromGCS: the published definition, or nothing when the download, the
   signature or the parsing fails. *)
fetchFromGCS == {<<>>, <<published>>}

LoadUnvalidated(fetched, fallback) ==
    LET agent == IF fetched # <<>> THEN fetched ELSE fallback
        merged == Merge(agent[1].metrics, local.metrics)
    IN  IF agent = <<>> \/ local.state = "unreadable"
        THEN <<>>
        ELSE <<[version |-> agent[1].version, metrics |-> merged]>>

(* What was fetched, or else the default unless the fallback is disabled, is merged
   with the local file, which may lack a section the file adds to. *)
LoadPanics(fetched, fallback) ==
    LET agent == IF fetched # <<>> THEN fetched ELSE fallback
    IN  agent # <<>> /\ local.state # "unreadable" /\ MergePanics(agent[1].metrics, local.metrics)

(* Load: the merge, validated.  The empty sequence is an error, or a panic. *)
Load(fetched, fallback) ==
    LET agent == IF fetched # <<>> THEN fetched ELSE fallback
        merged == Merge(agent[1].metrics, local.metrics)
    IN  IF agent = <<>> \/ local.state = "unreadable" \/ LoadPanics(fetched, fallback) \/ ~Valid(merged)
        THEN <<>>
        ELSE <<[version |-> agent[1].version, metrics |-> merged]>>

------------------------------------------------------------------------------
(* Around the agent. *)
Publish(ms) ==
    /\ published.version < MaxVersion
    /\ published' = [version |-> published.version + 1, metrics |-> ms]
    /\ UNCHANGED <<local, accepting, refresher, outgoing, wlm, used, initial, ctx, panics>>

ChangeLocal(l) ==
    /\ local' = l
    /\ UNCHANGED <<published, accepting, refresher, outgoing, wlm, used, initial, ctx, panics>>

ChangeScope ==
    /\ accepting' = IF accepting = "yes" THEN "no" ELSE "yes"
    /\ UNCHANGED <<published, local, refresher, outgoing, wlm, used, initial, ctx, panics>>

Cancel ==
    /\ ctx = "live" /\ wlm # "off"
    /\ ctx' = "cancelled"
    /\ UNCHANGED <<published, local, accepting, refresher, outgoing, wlm, used, initial, panics>>

------------------------------------------------------------------------------
(* Start, and StartMetricsCollection with its result: without a definition neither
   loop is started, and a panic of this load ends the agent. *)
Start(ms) ==
    /\ wlm = "off"
    /\ \E fetched \in (IF FetchLatest = "yes" THEN fetchFromGCS ELSE {<<>>}) :
         LET cd == Load(fetched, <<Default(ms)>>)
         IN  IF cd = <<>>
             THEN /\ wlm' = IF LoadPanics(fetched, <<Default(ms)>>) THEN "crashed" ELSE "refused"
                  /\ UNCHANGED <<used, initial, refresher>>
             ELSE /\ wlm' = "waiting"
                  /\ used' = cd[1] /\ initial' = cd[1]
                  /\ refresher' = IF FetchLatest = "yes" THEN "idle" ELSE "off"
    /\ UNCHANGED <<published, local, accepting, outgoing, ctx, panics>>

(* Mutant: a refresh falls back on the default as the first load does. *)
loadAndBroadcastFallsBack(fetched) ==
    /\ refresher = "idle"
    /\ \E ms \in AgentDefinitions :
         LET cd == Load(fetched, <<Default(ms)>>)
         IN  IF cd = <<>> THEN UNCHANGED <<refresher, outgoing>>
                          ELSE refresher' = "sending" /\ outgoing' = cd[1]
    /\ UNCHANGED <<published, local, accepting, wlm, used, initial, ctx, panics>>

(* loadAndBroadcast: a load without fallback; its result goes to the channel.  A
   refresher that panics runs again, or stays down when it had just begun. *)
loadAndBroadcast(fetched) ==
    /\ refresher = "idle"
    /\ LET cd == Load(fetched, <<>>)
       IN  IF cd = <<>>
           THEN /\ refresher' \in (IF LoadPanics(fetched, <<>>) THEN {"idle", "dead"} ELSE {"idle"})
                /\ UNCHANGED outgoing
           ELSE refresher' = "sending" /\ outgoing' = cd[1]
    /\ UNCHANGED <<published, local, accepting, wlm, used, initial, ctx, panics>>

Refresh == loadAndBroadcast(<<published>>)
RefreshFails == loadAndBroadcast(<<>>)

(* periodicRefresh sees the cancellation between two loads. *)
RefresherStops ==
    /\ refresher = "idle" /\ ctx = "cancelled"
    /\ refresher' = "stopped"
    /\ UNCHANGED <<published, local, accepting, outgoing, wlm, used, initial, ctx, panics>>

(* Mutant: a definition is only taken over when it is the first. *)
DeliverOnce ==
    /\ refresher = "sending" /\ wlm = "ready"
    /\ used' = IF used = initial THEN outgoing ELSE used
    /\ refresher' = "idle"
    /\ UNCHANGED <<published, local, accepting, outgoing, wlm, initial, ctx, panics>>

(* The send meets the collector's receive: the channel has no buffer. *)
Deliver ==
    /\ refresher = "sending" /\ wlm = "ready"
    /\ used' = outgoing
    /\ refresher' = "idle"
    /\ UNCHANGED <<published, local, accepting, outgoing, wlm, initial, ctx, panics>>

------------------------------------------------------------------------------
(* The collector moves on and leaves everything else alone. *)
Goto(s) ==
    /\ wlm' = s
    /\ UNCHANGED <<published, local, accepting, refresher, outgoing, used, initial, ctx, panics>>

(* waitForDataWarehouseActivation: a request that is accepted ends the wait, the
   cancellation does so after a request that is not. *)
waitForDataWarehouseActivation ==
    /\ wlm = "waiting"
    /\ \/ accepting = "yes" /\ Goto("activated")
       \/ accepting = "no" /\ ctx = "cancelled" /\ Goto("stopped")

(* start: the first round, unless the context is done. *)
FirstRound ==
    /\ wlm = "activated"
    /\ Goto(IF ctx = "cancelled" THEN "stopped" ELSE "collecting")

(* A tick of one of the two metric tickers. *)
NextRound == wlm = "ready" /\ Goto("collecting")

(* collectMetricsFromConfig returns and sendMetrics writes. *)
CollectionEnds == wlm = "collecting" /\ Goto("writing")

(* sendMetricsToDataWarehouse: one retry after a failure, dropped when the context
   is done. *)
WriteInsight ==
    \/ wlm = "writing" /\ (Goto("ready") \/ Goto("retrying"))
    \/ wlm = "retrying" /\ Goto("ready")

(* A round panics: the recoverable routine runs again with the arguments it was
   started with, or stays down when it had just begun. *)
Panic ==
    /\ wlm \in {"collecting", "writing", "retrying"} /\ panics < MaxPanics
    /\ panics' = panics + 1
    /\ \/ wlm' = "waiting" /\ used' = initial
       \/ wlm' = "dead" /\ UNCHANGED used
    /\ UNCHANGED <<published, local, accepting, refresher, outgoing, initial, ctx>>

CollectorStops == wlm = "ready" /\ ctx = "cancelled" /\ Goto("stopped")

Collector ==
    waitForDataWarehouseActivation \/ FirstRound \/ CollectionEnds \/ WriteInsight

Next ==
    \/ \E ms \in AgentDefinitions : Publish(ms) \/ Start(ms)
    \/ ChangeLocal(NoLocal)
    \/ \E ms \in LocalDefinitions, st \in {"present", "unreadable"} :
          ChangeLocal([state |-> st, metrics |-> ms])
    \/ ChangeScope \/ Cancel
    \/ Refresh \/ RefreshFails \/ RefresherStops \/ Deliver
    \/ Collector \/ NextRound \/ Panic \/ CollectorStops

Spec == Init /\ [][Next]_vars

(* Rounds end and requests return; the refresh ticker goes on, and now and then a
   download works; a select whose other cases are ready again and again comes to
   take the delivery and to see the cancellation. *)
Fairness ==
    /\ WF_vars(Collector)
    /\ SF_vars(Refresh) /\ SF_vars(RefresherStops)
    /\ SF_vars(Deliver) /\ SF_vars(CollectorStops)

FairSpec == Spec /\ Fairness

------------------------------------------------------------------------------
Started == wlm \notin {"off", "refused", "crashed"}

(* Whatever the collector works with, or is about to receive, has passed the
   validation of its own load, however the local file and the bucket change
   between the loads. *)
UsedIsValid ==
    /\ Started => Valid(used.metrics) /\ Valid(initial.metrics)
    /\ refresher = "sending" => Valid(outgoing.metrics)

(* A refresh never takes the collector back: not to the built-in definition when a
   download fails, not to an older published one.  Only the restart of a routine
   that panicked does. *)
NeverBack ==
    [][(Started /\ panics' = panics) => used'.version >= used.version]_vars

(* Once the bucket and the local file no longer change, what they load to comes to
   be used, as long as it loads, Data Warehouse accepts data, and the collector and
   the refresher live. *)
RefreshReachesCollector ==
    (/\ <>[][UNCHANGED <<published, local>>]_vars
     /\ <>[](/\ Load(<<published>>, <<>>) # <<>>
             /\ accepting = "yes" /\ ctx = "live" /\ Started /\ wlm # "dead" /\ refresher # "dead"
             /\ FetchLatest = "yes"))
        => <>[](<<used>> = Load(<<published>>, <<>>))

================================================================================
