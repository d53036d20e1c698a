------------------------------ MODULE MCServices ------------------------------
(* Services of the daemon that run in loops for as long as it lives, each of
   them for itself: a behaviour is one of the service that was picked.  The updater of
   process metrics is a second time picked alone, with one more change, for instances
   that have no collectors. *)
EXTENDS HANAMonitoring, ProcessMetrics, RemoteCollection

MCInstances == <<"a", "b", "c">>
MCQueriesToRun == [a |-> {}, b |-> {"q1", "gone"}, c |-> {"q2"}]
MCKey == [a |-> "hana:30015", b |-> "::", c |-> "::"]

VARIABLE service

mcVars == <<service, hmVars, pmVars, remoteVars>>

Still(services, vars) == IF service \in services THEN TRUE ELSE UNCHANGED vars
Reports(instances) == reported' \in {None} \cup SUBSET instances

MCInit ==
    /\ service \in {"monitoring", "process", "updater", "remote"}
    /\ MonitoringInit /\ ProcessInit /\ RemoteInit

MCNext ==
    /\ UNCHANGED service
    /\ \/ service = "monitoring" /\ MonitoringNext
       \/ service = "process" /\ ProcessNext /\ Reports(Databases) /\ changes' < MaxChanges
       \/ service = "updater" /\ ProcessNext /\ Reports(SAPInstances \ Databases)
       \/ service = "remote" /\ RemoteNext
    /\ Still({"monitoring"}, hmVars) /\ Still({"process", "updater"}, pmVars)
    /\ Still({"remote"}, remoteVars)

(* The fairness of each module, for the service that was picked. *)
MCFairness ==
    /\ WF_hmVars(service = "monitoring" /\ (Connect \/ PassDone \/ RetryTick))
    /\ WF_hmVars(service = "monitoring" /\ StartQuery)
    /\ \A j \in Jobs : /\ WF_hmVars(service = "monitoring" /\ SubmitQuery(j))
                       /\ WF_hmVars(service = "monitoring" /\ FinishQuery(j))
                       /\ WF_hmVars(service = "monitoring" /\ SampleAgain(j))
    /\ WF_pmVars(service \in {"process", "updater"} /\ (Compare \/ StartProcess \/ StartReliability \/ UpdaterTick))
    /\ \A g \in Generations \ {0} :
         /\ \A c \in Collectors : WF_pmVars(service = "process" /\ Slow(g, c))
         /\ WF_pmVars(service = "process" /\ FastLoop(g))
         /\ SF_pmVars(service = "process" /\ FastEnds(g))
         /\ SF_pmVars(service = "process" /\ ReliabilityEnds(g))
    /\ WF_remoteVars(service = "remote" /\ FinishCollection)
    /\ \A h \in Hosts : WF_remoteVars(service = "remote" /\ HostStep(h))

MCSpec == MCInit /\ [][MCNext]_mcVars /\ MCFairness
==============================================================================
