---------------------------- MODULE Services_proofs ----------------------------
(***************************************************************************)
(* Services of the daemon that run in loops or rounds, for any of the      *)
(* instances, systems and services they serve: the counts of the health    *)
(* monitor, the tasks of HANA monitoring, the retries of system discovery, *)
(* the collectors of process metrics and what the host agent is told.      *)
(***************************************************************************)
EXTENDS Heartbeat, HANAMonitoring, SystemDiscovery, HANACollectors, ProcessUsage,
        HostMetrics, Subsequences_proofs, SequenceTheorems, FiniteSetTheorems, TLAPS

--------------------------------------------------------------------------------
(* Heartbeat: what a monitor counts. *)

(* A new monitor is well typed. *)
LEMMA MonitorTypeInit == HeartbeatInit => HeartbeatTypeOK
  BY ThresholdAssumption DEF HeartbeatInit, HeartbeatTypeOK, Verdicts

(* Registrations, beats, rounds and passes keep the types. *)
LEMMA MonitorTypeNext == HeartbeatTypeOK /\ [HeartbeatNext]_heartbeatVars => HeartbeatTypeOK'
<1> SUFFICES ASSUME HeartbeatTypeOK, [HeartbeatNext]_heartbeatVars PROVE HeartbeatTypeOK'
  OBVIOUS
<1> USE ThresholdAssumption DEF HeartbeatTypeOK, Verdicts, Smaller
<1>1. ASSUME NEW s \in Services, Register(s) PROVE HeartbeatTypeOK'
  BY <1>1 DEF Register
<1>2. ASSUME NEW s \in Services, Beat(s) PROVE HeartbeatTypeOK'
  BY <1>2 DEF Beat
<1>3. ASSUME NEW s \in Services, Stall(s) PROVE HeartbeatTypeOK'
  BY <1>3 DEF Stall
<1>4. CASE Run
  BY <1>4 DEF Run
<1>5. CASE Tick
  BY <1>5 DEF Tick
<1>6. ASSUME NEW s \in Services, Increment(s) PROVE HeartbeatTypeOK'
  BY <1>6 DEF Increment
<1>7. CASE StopRun
  BY <1>7 DEF StopRun
<1>8. CASE CollectHealth
  BY <1>8 DEF CollectHealth
<1>9. ASSUME NEW s \in Services, ReadStatus(s) PROVE HeartbeatTypeOK'
  BY <1>9 DEF ReadStatus
<1>10. CASE CancelMonitor
  BY <1>10 DEF CancelMonitor
<1>11. CASE UNCHANGED heartbeatVars
  BY <1>11 DEF heartbeatVars
<1> QED
  BY <1>1, <1>2, <1>3, <1>4, <1>5, <1>6, <1>7, <1>8, <1>9, <1>10, <1>11
     DEF HeartbeatNext, DaemonNext, Visit

(* Every variable of the monitor keeps its type; in particular a count never
   exceeds the threshold (incrementAll's ceiling). *)
THEOREM MonitorTypes == HeartbeatSpec => []HeartbeatTypeOK
<1>1. HeartbeatTypeOK /\ [HeartbeatNext]_heartbeatVars => HeartbeatTypeOK'
  BY MonitorTypeNext
<1> QED
  BY MonitorTypeInit, <1>1, PTL DEF HeartbeatSpec

(* No round is in progress in a new monitor. *)
LEMMA RoundInit == HeartbeatInit => RoundInv
  BY DEF HeartbeatInit, RoundInv

(* Beats, visits and passes keep the relation of counts and rounds. *)
LEMMA RoundNext == HeartbeatTypeOK /\ RoundInv /\ [HeartbeatNext]_heartbeatVars => RoundInv'
<1> SUFFICES ASSUME HeartbeatTypeOK, RoundInv, [HeartbeatNext]_heartbeatVars PROVE RoundInv'
  OBVIOUS
<1> USE ThresholdAssumption DEF HeartbeatTypeOK, RoundInv, Smaller
<1>1. ASSUME NEW s \in Services, Register(s) PROVE RoundInv'
  BY <1>1 DEF Register
<1>2. ASSUME NEW s \in Services, Beat(s) PROVE RoundInv'
  BY <1>2 DEF Beat
<1>3. ASSUME NEW s \in Services, Stall(s) PROVE RoundInv'
  BY <1>3 DEF Stall
<1>4. CASE Run
  BY <1>4 DEF Run
<1>5. CASE Tick
  BY <1>5 DEF Tick
<1>6. ASSUME NEW s \in Services, Increment(s) PROVE RoundInv'
  BY <1>6 DEF Increment
<1>7. CASE StopRun
  BY <1>7 DEF StopRun
<1>8. CASE CollectHealth
  BY <1>8 DEF CollectHealth
<1>9. ASSUME NEW s \in Services, ReadStatus(s) PROVE RoundInv'
  BY <1>9 DEF ReadStatus
<1>10. CASE CancelMonitor
  BY <1>10 DEF CancelMonitor
<1>11. CASE UNCHANGED heartbeatVars
  BY <1>11 DEF heartbeatVars
<1> QED
  BY <1>1, <1>2, <1>3, <1>4, <1>5, <1>6, <1>7, <1>8, <1>9, <1>10, <1>11
     DEF HeartbeatNext, DaemonNext, Visit

(* The inductive invariant of a round: what has been visited agrees with the
   history, what has not lags by one. *)
THEOREM RoundInvariant == HeartbeatSpec => []RoundInv
<1>1. RoundInv /\ HeartbeatTypeOK /\ [HeartbeatNext]_heartbeatVars => RoundInv'
  BY RoundNext
<1> QED
  BY RoundInit, MonitorTypes, <1>1, PTL DEF HeartbeatSpec

(* Between rounds the missed heartbeats of every registered service are the
   rounds since its last beat, or one more: incrementAll under registrationLock
   loses no registration and counts none twice. *)
THEOREM RoundsAreCounted == HeartbeatSpec => []CountsRounds
<1>1. RoundInv => CountsRounds
  BY DEF RoundInv, CountsRounds
<1> QED
  BY RoundInvariant, <1>1, PTL

--------------------------------------------------------------------------------
(* HANAMonitoring: one task at most for each query of an instance. *)

(* The type of the pool and of what connecting has found. *)
MonitoringTypeOK ==
    /\ queue \in Seq(Jobs)
    /\ unsent \subseteq Jobs /\ running \subseteq Jobs
    /\ timers \subseteq Jobs /\ refused \subseteq Jobs
    /\ reached \subseteq Range(HANAInstances)
    /\ nextInstance \in Nat \ {0}

(* The task is somewhere in the pool, or the database refused it. *)
Handed(j) == j \in unsent \cup Range(queue) \cup running \cup timers \cup refused

(* A task is in one place only, and once in the queue. *)
OnePlace(j) ==
    /\ j \in unsent => j \notin Range(queue) \cup running \cup timers \cup refused
    /\ j \in Range(queue) => j \notin running \cup timers \cup refused
    /\ j \in running => j \notin timers \cup refused
    /\ j \in timers => j \notin refused

(* Tasks are only handed out for connected instances, by the pass that reached
   the instance and before which it had none. *)
TaskInv ==
    /\ MonitoringTypeOK
    /\ IsInjective(queue)
    /\ \A j \in Jobs : OnePlace(j)
    /\ \A j \in Jobs : Handed(j) => Key[j[1]] \in connected /\ j[1] \notin reached
    /\ \A i \in reached : Key[i] \in connected

------------------------------------------------------------------------------
(* A task that is submitted is last in the pool's queue. *)
LEMMA QueueAppend ==
    ASSUME NEW q \in Seq(Jobs), NEW j \in Jobs
    PROVE  /\ Append(q, j) \in Seq(Jobs)
           /\ Range(Append(q, j)) = Range(q) \cup {j}
           /\ IsInjective(q) /\ j \notin Range(q) => IsInjective(Append(q, j))
<1>1. /\ Append(q, j) \in Seq(Jobs) /\ Len(Append(q, j)) = Len(q) + 1
      /\ \A i \in 1..Len(q) : Append(q, j)[i] = q[i]
      /\ Append(q, j)[Len(q) + 1] = j
  BY AppendProperties
<1>2. /\ DOMAIN q = 1..Len(q) /\ DOMAIN Append(q, j) = 1..(Len(q) + 1) /\ Len(q) \in Nat
  BY <1>1
<1>3. 1..(Len(q) + 1) = 1..Len(q) \cup {Len(q) + 1}
  BY <1>2
<1>4. Range(Append(q, j)) = Range(q) \cup {j}
  BY <1>1, <1>2, <1>3 DEF Range
<1>5. IsInjective(q) /\ j \notin Range(q) => IsInjective(Append(q, j))
  BY <1>1, <1>2, <1>3 DEF Range, IsInjective
<1> QED BY <1>1, <1>4, <1>5

(* A worker takes the first task of the queue. *)
LEMMA QueueTail ==
    ASSUME NEW q \in Seq(Jobs), q # <<>>
    PROVE  /\ Head(q) \in Jobs /\ Tail(q) \in Seq(Jobs)
           /\ Range(q) = Range(Tail(q)) \cup {Head(q)}
           /\ IsInjective(q) => IsInjective(Tail(q)) /\ Head(q) \notin Range(Tail(q))
<1>1. /\ Head(q) \in Jobs /\ Tail(q) \in Seq(Jobs) /\ Len(Tail(q)) = Len(q) - 1
      /\ \A i \in 1..Len(Tail(q)) : Tail(q)[i] = q[i + 1]
  BY HeadTailProperties
<1>2. /\ Len(q) \in Nat \ {0} /\ Head(q) = q[1]
      /\ DOMAIN q = 1..Len(q) /\ DOMAIN Tail(q) = 1..(Len(q) - 1)
  BY <1>1
<1>3. \A n \in 1..Len(q) : n = 1 \/ n - 1 \in 1..(Len(q) - 1)
  BY <1>2
<1>4. \A n \in 1..Len(q) : n # 1 => q[n] = Tail(q)[n - 1]
  BY <1>1, <1>2, <1>3
<1>5. Range(q) = Range(Tail(q)) \cup {Head(q)}
  <2>1. ASSUME NEW j \in Range(q) PROVE j \in Range(Tail(q)) \cup {Head(q)}
    <3>1. PICK n \in 1..Len(q) : j = q[n]
      BY <1>2 DEF Range
    <3> QED BY <3>1, <1>2, <1>3, <1>4 DEF Range
  <2>2. Range(Tail(q)) \subseteq Range(q)
    BY <1>1, <1>2 DEF Range
  <2>3. Head(q) \in Range(q)
    BY <1>2 DEF Range
  <2> QED BY <2>1, <2>2, <2>3
<1>6. ASSUME IsInjective(q) PROVE IsInjective(Tail(q)) /\ Head(q) \notin Range(Tail(q))
  BY <1>1, <1>2, <1>6 DEF Range, IsInjective
<1> QED BY <1>1, <1>5, <1>6

------------------------------------------------------------------------------
(* Connecting, the pool and the cancellation move a task from one place to the next
   and hand out none twice. *)
LEMMA TaskNext == TaskInv /\ [MonitoringNext]_hmVars => TaskInv'
<1> SUFFICES ASSUME TaskInv, [MonitoringNext]_hmVars PROVE TaskInv'
  OBVIOUS
<1> USE DEF connections, pool
<1>0. CASE UNCHANGED hmVars
  BY <1>0 DEF hmVars, TaskInv, MonitoringTypeOK, OnePlace, Handed
<1>1. CASE Connect
  <2>1. UNCHANGED pool /\ nextInstance' \in Nat \ {0}
    BY <1>1 DEF Connect, TaskInv, MonitoringTypeOK
  <2>2. nextInstance \in DOMAIN HANAInstances => HANAInstances[nextInstance] \in Range(HANAInstances)
    BY DEF Range
  <2>3. nextInstance \in DOMAIN HANAInstances
    BY <1>1, MonitoringAssumption DEF Connect, TaskInv, MonitoringTypeOK
  <2> DEFINE i == HANAInstances[nextInstance]
  <2>4. \/ UNCHANGED <<reached, connected>>
        \/ /\ Key[i] \notin connected /\ i \in Range(HANAInstances)
           /\ \/ reached' = reached \cup {i} /\ connected' = connected \cup {Key[i]}
              \/ UNCHANGED <<reached, connected>>
    BY <1>1, <2>2, <2>3 DEF Connect
  <2>5. \A j \in Jobs : OnePlace(j)' /\ (Handed(j)' <=> Handed(j))
    BY <2>1 DEF TaskInv, OnePlace, Handed
  <2>6. \A j \in Jobs : Handed(j)' => Key[j[1]] \in connected' /\ j[1] \notin reached'
    BY <2>4, <2>5 DEF TaskInv
  <2>7. \A k \in reached' : Key[k] \in connected'
    BY <2>4 DEF TaskInv
  <2>8. MonitoringTypeOK'
    BY <2>1, <2>4 DEF TaskInv, MonitoringTypeOK
  <2> QED BY <2>1, <2>5, <2>6, <2>7, <2>8 DEF TaskInv
<1>2. CASE PassDone
  <2>1. \A j \in Jobs : j \in unsent' <=> j \in unsent \/ (j[1] \in reached /\ j[2] \in QueriesOf(j[1]))
    BY <1>2 DEF PassDone, Jobs
  <2>2. unsent' \subseteq Jobs
    BY <1>2, MonitoringAssumption DEF PassDone, TaskInv, MonitoringTypeOK, Jobs, QueriesOf
  <2>3. UNCHANGED <<connected, queue, running, timers, refused>> /\ reached' = {} /\ nextInstance' = 1
    BY <1>2 DEF PassDone
  <2>4. \A j \in Jobs : OnePlace(j)' /\ (Handed(j)' => Handed(j) \/ j[1] \in reached)
    BY <2>1, <2>3 DEF TaskInv, OnePlace, Handed
  <2> QED BY <2>2, <2>3, <2>4 DEF TaskInv, MonitoringTypeOK
<1>3. CASE RetryTick \/ CancelMonitoring
  BY <1>3 DEF RetryTick, CancelMonitoring, TaskInv, MonitoringTypeOK, OnePlace, Handed
<1>4. CASE StartQuery
  <2>1. /\ Tail(queue) \in Seq(Jobs)
        /\ Range(queue) = Range(Tail(queue)) \cup {Head(queue)}
        /\ IsInjective(Tail(queue)) /\ Head(queue) \notin Range(Tail(queue))
        /\ Head(queue) \in Jobs
    BY <1>4, QueueTail DEF StartQuery, TaskInv, MonitoringTypeOK
  <2>2. /\ queue' = Tail(queue) /\ UNCHANGED <<connections, unsent, timers, refused>>
        /\ running' = running \/ running' = running \cup {Head(queue)}
    BY <1>4 DEF StartQuery
  <2>3. \A j \in Jobs : OnePlace(j)' /\ (Handed(j)' => Handed(j))
    BY <2>1, <2>2 DEF TaskInv, OnePlace, Handed
  <2> QED BY <2>1, <2>2, <2>3 DEF TaskInv, MonitoringTypeOK
<1>5. ASSUME NEW k \in Jobs, SubmitQuery(k) PROVE TaskInv'
  <2>1. /\ Append(queue, k) \in Seq(Jobs) /\ Range(Append(queue, k)) = Range(queue) \cup {k}
        /\ IsInjective(Append(queue, k))
    BY <1>5, QueueAppend DEF SubmitQuery, TaskInv, MonitoringTypeOK, OnePlace
  <2>2. \A j \in Jobs : OnePlace(j)' /\ (Handed(j)' => Handed(j))
    BY <1>5, <2>1 DEF SubmitQuery, TaskInv, OnePlace, Handed
  <2> QED BY <1>5, <2>1, <2>2 DEF SubmitQuery, TaskInv, MonitoringTypeOK
<1>6. ASSUME NEW k \in Jobs, FinishQuery(k) PROVE TaskInv'
  <2>1. \A j \in Jobs : OnePlace(j)' /\ (Handed(j)' => Handed(j))
    BY <1>6 DEF FinishQuery, TaskInv, OnePlace, Handed
  <2> QED BY <1>6, <2>1 DEF FinishQuery, TaskInv, MonitoringTypeOK
<1>7. ASSUME NEW k \in Jobs, SampleAgain(k) PROVE TaskInv'
  <2>1. /\ Append(queue, k) \in Seq(Jobs) /\ Range(Append(queue, k)) = Range(queue) \cup {k}
        /\ IsInjective(Append(queue, k))
    BY <1>7, QueueAppend DEF SampleAgain, TaskInv, MonitoringTypeOK, OnePlace
  <2>2. \A j \in Jobs : OnePlace(j)' /\ (Handed(j)' => Handed(j))
    BY <1>7, <2>1 DEF SampleAgain, TaskInv, OnePlace, Handed
  <2> QED BY <1>7, <2>1, <2>2 DEF SampleAgain, TaskInv, MonitoringTypeOK
<1> QED BY <1>0, <1>1, <1>2, <1>3, <1>4, <1>5, <1>6, <1>7 DEF MonitoringNext

------------------------------------------------------------------------------
(* However often connecting is retried and whatever the queries come to, a query is
   one task at most, none once the database has refused it, and none at all for an
   instance that refused the connection. *)
THEOREM OneTaskEach == MonitoringSpec => []OneTaskPerQuery
<1>1. MonitoringInit => TaskInv
  BY DEF MonitoringInit, TaskInv, MonitoringTypeOK, OnePlace, Handed, IsInjective, Range
<1>2. TaskInv => OneTaskPerQuery
  <2> SUFFICES ASSUME TaskInv PROVE OneTaskPerQuery
    OBVIOUS
  <2>1. Range(queue) \subseteq Jobs
    BY DEF TaskInv, MonitoringTypeOK, Range
  <2>2. \A x \in DOMAIN Places : Places[x] \subseteq Jobs /\ \A j \in Places[x] : Handed(j)
    BY <2>1 DEF Places, TaskInv, MonitoringTypeOK, Handed
  <2>3. \A x, y \in DOMAIN Places : x # y => Places[x] \cap Places[y] = {}
    BY <2>1 DEF Places, TaskInv, MonitoringTypeOK, OnePlace
  <2>4. ASSUME NEW i \in Range(HANAInstances), Key[i] \in authError \ connected,
               NEW x \in DOMAIN Places, NEW q \in Queries
        PROVE  <<i, q>> \notin Places[x]
    <3>1. <<i, q>> \in Jobs /\ <<i, q>>[1] = i
      BY DEF Jobs
    <3> QED BY <2>2, <2>4, <3>1 DEF TaskInv
  <2> QED BY <2>3, <2>4 DEF OneTaskPerQuery, TaskInv
<1> QED BY <1>1, <1>2, TaskNext, PTL DEF MonitoringSpec

--------------------------------------------------------------------------------
(* SystemDiscovery: the retries of a round. *)

(* A retry of this round is ended by the cancel function at hand, or that of a
   later system took its place. *)
Covered(r) ==
    \/ <<r.sys, r.round>> \in cancelFunc
    \/ \E k \in DOMAIN Systems : \E m \in 1..(k - 1) :
         Systems[m] = r.sys /\ <<Systems[k], r.round>> \in cancelFunc

(* A retry started for a system the round has passed. *)
Passed(r) == \E m \in 1..(nextSystem - 1) : Systems[m] = r.sys

(* The retries of the rounds before are over, unless a later system replaced them; those
   of this round are covered until its tick ends them. *)
RetryInv ==
    /\ round \in Nat /\ nextSystem \in Nat \ {0}
    /\ discovery \in {"off", "discover", "send", "publish", "wait", "ended"}
    /\ caller = "instances" => discovery = "off"
    /\ discovery = "off" => round = 0 /\ retries = {}
    /\ retries \subseteq [sys : Range(Systems), round : Nat, sending : BOOLEAN]
    /\ \A r \in retries : r.round <= round
    /\ \A r \in retries : r.round < round \/ discovery = "discover" => RetryOver(r) \/ Replaced(r)
    /\ \A r \in retries : r.round = round /\ discovery \in {"send", "publish", "wait"} =>
         Passed(r) /\ Covered(r)

------------------------------------------------------------------------------
(* What has ended a retry, or the one in its place, stays cancelled. *)
LEMMA OverStays ==
    ASSUME NEW r, sdDone => sdDone', sdCancelled \subseteq sdCancelled', RetryOver(r) \/ Replaced(r)
    PROVE  (RetryOver(r) \/ Replaced(r))'
BY DEF RetryOver, Replaced

(* Sending a system, a tick, a new round and the retries themselves keep RetryInv. *)
LEMMA RetryNext == RetryInv /\ [DiscoveryNext]_sdVars => RetryInv'
<1> SUFFICES ASSUME RetryInv, [DiscoveryNext]_sdVars PROVE RetryInv'
  OBVIOUS
<1> USE DEF sdConfig, rounds, insight
<1>1. CASE ListInstances \/ ListerWaits \/ StopDiscovery \/ UNCHANGED sdVars
  BY <1>1 DEF ListInstances, ListerWaits, StopDiscovery, sdVars, RetryInv, RetryOver, Replaced,
              Covered, Passed
<1>2. CASE CallerContinues
  BY <1>2 DEF CallerContinues, RetryInv, RetryOver, Replaced, Covered, Passed
<1>3. CASE DiscoverSystems
  <2>1. \A r \in retries : r.round \in Nat /\ r.round <= round /\ (RetryOver(r) \/ Replaced(r))
    BY <1>3 DEF DiscoverSystems, RetryInv
  <2>2. \A r \in retries : (RetryOver(r) \/ Replaced(r))'
    BY <1>3, <2>1, OverStays DEF DiscoverSystems
  <2>3. /\ round' = round + 1 /\ nextSystem' = 1 /\ retries' = retries /\ caller' = caller
        /\ discovery = "discover" /\ discovery' \in {"send", "publish"}
    BY <1>3 DEF DiscoverSystems
  <2>4. round \in Nat /\ caller # "instances"
    BY <2>3 DEF RetryInv
  <2>5. \A r \in retries : r.round \in Nat /\ r.round <= round' /\ r.round # round'
    BY <2>1, <2>3, <2>4
  <2> QED BY <2>2, <2>3, <2>4, <2>5 DEF RetryInv
<1>4. CASE SendInsight
  <2> DEFINE s == Systems[nextSystem]
             new == [sys |-> s, round |-> round, sending |-> FALSE]
  <2>1. /\ discovery = "send" /\ nextSystem \in DOMAIN Systems
        /\ nextSystem' = nextSystem + 1 /\ nextSystem \in Nat \ {0} /\ round \in Nat
        /\ UNCHANGED <<caller, discovery, round, sdCancelled, sdDone>>
    BY <1>4, DiscoveryAssumption DEF SendInsight, RetryInv
  <2>2. \A r \in retries : r.round < round => (RetryOver(r) \/ Replaced(r))'
    BY <2>1 DEF RetryInv, RetryOver, Replaced
  <2>3. \A r : Passed(r) => Passed(r)'
    BY <2>1 DEF Passed
  <2>4. CASE UNCHANGED <<retries, cancelFunc>>
    BY <2>1, <2>2, <2>3, <2>4 DEF RetryInv, Covered
  <2>5. CASE retries' = retries \cup {new} /\ cancelFunc' = {<<s, round>>}
    <3>1. new.sys = s /\ new.round = round
      OBVIOUS
    <3>2. ASSUME NEW r, r.sys = s, r.round = round PROVE Passed(r)' /\ Covered(r)'
      <4>1. nextSystem \in 1..(nextSystem' - 1) BY <2>1
      <4> QED BY <2>5, <3>2, <4>1 DEF Passed, Covered
    <3>3. ASSUME NEW r \in retries, r.round = round PROVE Passed(r)' /\ Covered(r)'
      <4>1. Passed(r) BY <2>1, <3>3 DEF RetryInv
      <4>2. PICK m \in 1..(nextSystem - 1) : Systems[m] = r.sys BY <4>1 DEF Passed
      <4>3. <<Systems[nextSystem], r.round>> \in cancelFunc' BY <2>5, <3>3
      <4> QED BY <2>1, <2>3, <4>1, <4>2, <4>3 DEF Covered
    <3> HIDE DEF new
    <3>4. \A r \in retries' : r.round = round' => Passed(r)' /\ Covered(r)'
      BY <2>1, <2>5, <3>1, <3>2, <3>3
    <3>5. \A r \in retries' : r.round < round' => (RetryOver(r) \/ Replaced(r))'
      BY <2>1, <2>2, <2>5, <3>1
    <3>6. /\ retries' \subseteq [sys : Range(Systems), round : Nat, sending : BOOLEAN]
          /\ \A r \in retries' : r.round <= round'
      <4>1. new \in [sys : Range(Systems), round : Nat, sending : BOOLEAN]
        BY <2>1 DEF Range, new
      <4> QED BY <2>1, <2>5, <3>1, <4>1 DEF RetryInv
    <3> QED BY <2>1, <3>4, <3>5, <3>6 DEF RetryInv
  <2> QED BY <1>4, <2>4, <2>5 DEF SendInsight
<1>5. CASE AllSent \/ PublishSystems
  BY <1>5 DEF AllSent, PublishSystems, RetryInv, RetryOver, Replaced, Covered, Passed
<1>6. CASE NextRound
  <2>1. CASE sdDone
    BY <1>6, <2>1 DEF NextRound, RetryInv, RetryOver, Replaced, Covered, Passed
  <2>2. CASE ~sdDone
    <3>1. /\ discovery = "wait" /\ discovery' = "discover"
          /\ sdCancelled' = sdCancelled \cup cancelFunc
          /\ UNCHANGED <<caller, round, nextSystem, retries, sdDone>>
      BY <1>6, <2>2 DEF NextRound
    <3>2. ASSUME NEW r \in retries PROVE (RetryOver(r) \/ Replaced(r))'
      <4>1. CASE r.round < round
        BY <3>1, <4>1, OverStays DEF RetryInv
      <4>2. CASE r.round = round
        <5>1. Covered(r) BY <3>1, <4>2 DEF RetryInv
        <5> QED BY <3>1, <5>1 DEF Covered, RetryOver, Replaced
      <4> QED BY <4>1, <4>2 DEF RetryInv
    <3> QED BY <3>1, <3>2 DEF RetryInv
  <2> QED BY <2>1, <2>2
<1>7. ASSUME NEW a \in retries, Retry(a) \/ RetryEnds(a) PROVE RetryInv'
  <2>1. /\ UNCHANGED <<caller, discovery, round, nextSystem, cancelFunc, sdCancelled, sdDone>>
        /\ \A r \in retries' : \E b \in retries : r.sys = b.sys /\ r.round = b.round
    <3>1. retries' \subseteq retries \cup {[a EXCEPT !.sending = TRUE], [a EXCEPT !.sending = FALSE]}
      BY <1>7 DEF Retry, RetryEnds
    <3>2. \A b \in BOOLEAN : /\ [a EXCEPT !.sending = b].sys = a.sys
                             /\ [a EXCEPT !.sending = b].round = a.round
      BY <1>7 DEF RetryInv
    <3> QED BY <1>7, <3>1, <3>2 DEF Retry, RetryEnds
  <2>2. retries = {} => retries' = {}
    BY <2>1
  <2>3. retries' \subseteq [sys : Range(Systems), round : Nat, sending : BOOLEAN]
    BY <1>7, ZenonT(60) DEF Retry, RetryEnds, RetryInv
  <2>4. ASSUME NEW r \in retries', NEW b \in retries, r.sys = b.sys, r.round = b.round
        PROVE  /\ RetryOver(b) => RetryOver(r)'
               /\ Replaced(b) => Replaced(r)'
               /\ Covered(b) => Covered(r)'
               /\ Passed(b) => Passed(r)'
    BY <2>1, <2>4 DEF RetryOver, Replaced, Covered, Passed
  <2> QED BY <2>1, <2>2, <2>3, <2>4 DEF RetryInv
<1> QED BY <1>1, <1>2, <1>3, <1>4, <1>5, <1>6, <1>7 DEF DiscoveryNext

------------------------------------------------------------------------------
(* No retry outlives its round, except one whose cancel function a later system of the
   same round replaced. *)
THEOREM RetriesEnd == DiscoverySpec => []RetryEndsWithItsRound
<1>1. DiscoveryInit => RetryInv
  BY DEF DiscoveryInit, RetryInv
<1>2. RetryInv => RetryEndsWithItsRound
  BY DEF RetryInv, RetryEndsWithItsRound
<1> QED BY <1>1, <1>2, RetryNext, PTL DEF DiscoverySpec
--------------------------------------------------------------------------------
(* The collectors of a HANA instance: what they send, and the logins they let be
   refused. *)

(* The refused logins that the collectors have counted: the k-th of generation g. *)
CountedRefusals == {c \in HANAGenerations \X (1..2) : c[2] <= queryFailCount[c[1]]}

(* The generations whose slow collector is at work. *)
Busy == {g \in HANAGenerations : slowAt[g] # "idle"}

(* Where a slow and a fast collector may be, and what a fast one sends. *)
SlowPlaces == {"idle", "service", "query", "log"}
FastPlaces == {"idle", "availability", "replication", "processes"}
SentKinds == {"nothing yet", "cancelled", "availability", "ha"}

(* The generations and what their collectors count. *)
CountTypes ==
    /\ hcGen \in HANAGenerations /\ refusedInARow \in Nat
    /\ queryFailCount \in [HANAGenerations -> 0..maxHANAQueryFailCount]

(* A generation that is to come is not at work and has counted nothing; no login is
   refused in a row that no collector has counted. *)
CountInv ==
    /\ CountTypes
    /\ \A g \in HANAGenerations : g > hcGen => queryFailCount[g] = 0
    /\ \A g \in Busy : g <= hcGen
    /\ refusedInARow <= Cardinality(CountedRefusals)

(* A fast collection that is over has sent the state of the replication, or was
   cancelled, or is to skip it. *)
SendInv ==
    /\ slowAt \in [HANAGenerations -> SlowPlaces]
    /\ fastAt \in [HANAGenerations -> FastPlaces]
    /\ collected \in [HANAGenerations -> SUBSET SentKinds]
    /\ \A g \in HANAGenerations :
         fastAt[g] = "idle" /\ collected[g] \cap {"nothing yet", "cancelled"} = {}
         /\ "ha" \notin SkippedGroups => "ha" \in collected[g]

(* The inductive invariant. *)
CollectorsInv == CountInv /\ SendInv

(* updateMetricsCollectors starts at least one generation. *)
LEMMA SomeGenerations == MaxHANAGenerations \in Nat \ {0}
  BY HANACollectorsAssumption, Zenon

(* The intervals that count from one. *)
LEMMA CountsFromOne ==
  ASSUME NEW n \in Nat PROVE IsFiniteSet(1..n) /\ Cardinality(1..n) = n
<1>1. IsFiniteSet(1..n)
  BY FS_Interval
<1>2. Cardinality(1..n) = n
  BY FS_Interval
<1> QED
  BY <1>1, <1>2

(* The set of counted refusals is finite. *)
LEMMA RefusalsFinite ==
  IsFiniteSet(CountedRefusals) /\ Cardinality(CountedRefusals) \in Nat
<1>1. IsFiniteSet(HANAGenerations)
  BY SomeGenerations, CountsFromOne DEF HANAGenerations
<1>2. IsFiniteSet(1..2)
  BY CountsFromOne
<1>3. IsFiniteSet(HANAGenerations \X (1..2))
  BY <1>1, <1>2, FS_Product
<1>4. IsFiniteSet(CountedRefusals)
  BY <1>3, FS_Subset DEF CountedRefusals
<1> QED
  BY <1>4, FS_CardinalityType

(* New collectors have counted nothing, and nothing is refused. *)
LEMMA CollectorsInvInit == HANAInit => CollectorsInv
<1> SUFFICES ASSUME HANAInit PROVE CollectorsInv
  OBVIOUS
<1>1. /\ hcGen = 1 /\ refusedInARow = 0
      /\ queryFailCount = [g \in HANAGenerations |-> 0]
  BY DEF HANAInit
<1>2. Busy = {} /\ SendInv
  BY DEF HANAInit, Busy, SendInv, SlowPlaces, FastPlaces, SentKinds
<1>3. CountInv
  BY <1>1, <1>2, SomeGenerations, RefusalsFinite
     DEF CountInv, CountTypes, HANAGenerations, maxHANAQueryFailCount
<1> QED
  BY <1>2, <1>3 DEF CollectorsInv

(* A step of the fast collector sends the state of the replication, unless it is
   skipped or the collector is cancelled, and touches no count. *)
LEMMA FastKeepsBounds ==
  ASSUME CollectorsInv, NEW g \in HANAGenerations,
         FastCollect(g) \/ Availability(g) \/ Replication(g) \/ Processes(g)
  PROVE  CollectorsInv'
<1>1. UNCHANGED <<hcGen, slowAt, queryFailCount, refusedInARow>>
  BY DEF FastCollect, Availability, Replication, Processes, hcSlow, hcEnv
<1>2. PICK where \in FastPlaces, what \in SUBSET SentKinds :
        /\ fastAt' = [fastAt EXCEPT ![g] = where]
        /\ collected' = [collected EXCEPT ![g] = what]
        /\ where = "idle" /\ what \cap {"nothing yet", "cancelled"} = {}
           /\ "ha" \notin SkippedGroups => "ha" \in what
  <2> USE DEF FastTo, FastPlaces, SentKinds
  <2>1. CASE FastTo(g, "availability") /\ collected' = [collected EXCEPT ![g] = {"nothing yet"}]
    BY <2>1
  <2>2. CASE /\ UNCHANGED collected
             /\ FastTo(g, "availability") \/ FastTo(g, "replication") \/ FastTo(g, "processes")
    <3>1. collected[g] \in SUBSET SentKinds /\ collected' = [collected EXCEPT ![g] = collected[g]]
      BY <2>2 DEF CollectorsInv, SendInv
    <3> QED
      BY <2>2, <3>1
  <2>3. CASE Sends(g, {"cancelled"}) \/ Sends(g, {"ha"}) \/ Sends(g, Available \cup {"ha"})
             \/ ("ha" \in SkippedGroups /\ Sends(g, Available))
    BY <2>3 DEF Sends, Available
  <2>4. FastFails(g) => \/ Sends(g, {"cancelled"}) \/ Sends(g, {"ha"})
                        \/ FastTo(g, "availability") /\ UNCHANGED collected
    BY Zenon DEF FastFails
  <2>5. \/ FastTo(g, "availability") /\ collected' = [collected EXCEPT ![g] = {"nothing yet"}]
        \/ FastFails(g)
        \/ UNCHANGED collected /\ (FastTo(g, "replication") \/ FastTo(g, "processes"))
        \/ Sends(g, Available \cup {"ha"}) \/ ("ha" \in SkippedGroups /\ Sends(g, Available))
    BY Zenon DEF FastCollect, Availability, Replication, Processes
  <2> QED
    BY <2>1, <2>2, <2>3, <2>4, <2>5
<1>3. SendInv'
  BY <1>1, <1>2 DEF CollectorsInv, SendInv
<1>4. CountInv'
  BY <1>1 DEF CollectorsInv, CountInv, CountTypes, Busy, CountedRefusals
<1> QED
  BY <1>3, <1>4 DEF CollectorsInv

(* Where a slow collector goes makes none busy but itself. *)
LEMMA SlowKeepsPlaces ==
  ASSUME SendInv, UNCHANGED <<fastAt, collected>>,
         NEW g \in HANAGenerations, NEW where \in SlowPlaces, SlowTo(g, where)
  PROVE  SendInv' /\ Busy' \subseteq Busy \cup {g}
  BY DEF SendInv, SlowTo, Busy

(* The steps of a slow collector that is not a login: only a generation that has
   begun works. *)
LEMMA SlowKeepsBounds ==
  ASSUME CollectorsInv, NEW g \in HANAGenerations,
         SlowCollect(g) \/ HANAService(g) \/ HANALog(g)
  PROVE  CollectorsInv'
<1>1. UNCHANGED <<hcGen, fastAt, collected, queryFailCount, refusedInARow>>
  BY DEF SlowCollect, HANAService, HANALog, hcFast, hcEnv
<1>2. PICK where \in SlowPlaces : SlowTo(g, where)
  BY DEF SlowCollect, HANAService, HANALog, SlowPlaces
<1>3. g <= hcGen \/ g \in Busy
  BY DEF SlowCollect, HANAService, HANALog, Busy
<1>4. SendInv' /\ Busy' \subseteq Busy \cup {g}
  BY <1>1, <1>2, SlowKeepsPlaces DEF CollectorsInv
<1>5. \A h \in Busy' : h <= hcGen
  BY <1>3, <1>4 DEF CollectorsInv, CountInv
<1>6. CountInv'
  BY <1>1, <1>5 DEF CollectorsInv, CountInv, CountTypes, CountedRefusals
<1> QED
  BY <1>4, <1>6 DEF CollectorsInv

(* A login that is refused is counted by the collector that made it. *)
LEMMA QueryKeepsBounds ==
  ASSUME CollectorsInv, NEW g \in HANAGenerations, HANAQuery(g)
  PROVE  CollectorsInv'
<1>1. UNCHANGED <<hcGen, fastAt, collected>> /\ SlowTo(g, "log") /\ g \in Busy
  BY DEF HANAQuery, hcFast, hcEnv, Busy
<1>2. SendInv' /\ Busy' \subseteq Busy \cup {g}
  BY <1>1, SlowKeepsPlaces DEF CollectorsInv, SlowPlaces
<1>3. g <= hcGen /\ \A h \in Busy' : h <= hcGen
  BY <1>1, <1>2 DEF CollectorsInv, CountInv
<1>4. \/ UNCHANGED queryFailCount /\ refusedInARow' \in {0, refusedInARow}
      \/ /\ queryFailCount[g] < maxHANAQueryFailCount
         /\ queryFailCount' = [queryFailCount EXCEPT ![g] = @ + 1]
         /\ refusedInARow' = refusedInARow + 1
  BY DEF HANAQuery, MayQuery
<1>5. CASE UNCHANGED queryFailCount /\ refusedInARow' \in {0, refusedInARow}
  <2>1. CountedRefusals' = CountedRefusals
    BY <1>5 DEF CountedRefusals
  <2>2. CountInv'
    BY <1>1, <1>3, <1>5, <2>1, RefusalsFinite DEF CollectorsInv, CountInv, CountTypes
  <2> QED
    BY <1>2, <2>2 DEF CollectorsInv
<1>6. CASE /\ queryFailCount[g] < maxHANAQueryFailCount
           /\ queryFailCount' = [queryFailCount EXCEPT ![g] = @ + 1]
           /\ refusedInARow' = refusedInARow + 1
  <2> DEFINE last == <<g, queryFailCount[g] + 1>>
  <2>1. CountTypes /\ queryFailCount[g] \in Nat /\ queryFailCount[g] + 1 \in 1..2
    BY <1>6 DEF maxHANAQueryFailCount, CollectorsInv, CountInv, CountTypes
  <2>2. CountTypes'
    BY <1>1, <1>6, <2>1 DEF CountTypes, maxHANAQueryFailCount
  <2>3. \A h \in HANAGenerations :
          queryFailCount'[h] = IF h = g THEN queryFailCount[h] + 1 ELSE queryFailCount[h]
    BY <1>6, <2>1 DEF CountTypes
  <2>4. \A h \in HANAGenerations : h > hcGen' => queryFailCount'[h] = 0
    BY <1>1, <1>3, <2>1, <2>3, SomeGenerations
       DEF CollectorsInv, CountInv, CountTypes, HANAGenerations
  <2>5. CountedRefusals' = CountedRefusals \cup {last} /\ last \notin CountedRefusals
    BY <2>1, <2>3 DEF CountedRefusals, CountTypes, maxHANAQueryFailCount
  <2>6. Cardinality(CountedRefusals') = Cardinality(CountedRefusals) + 1
    BY <2>5, RefusalsFinite, FS_AddElement
  <2>7. refusedInARow' <= Cardinality(CountedRefusals')
    BY <1>6, <2>1, <2>6, RefusalsFinite DEF CollectorsInv, CountInv, CountTypes
  <2>8. CountInv'
    BY <1>1, <1>3, <2>2, <2>4, <2>7 DEF CountInv
  <2> QED
    BY <1>2, <2>8 DEF CollectorsInv
<1> QED
  BY <1>4, <1>5, <1>6

(* A new generation begins with a count of zero, and the rest counts nothing. *)
LEMMA OthersKeepBounds ==
  ASSUME CollectorsInv,
         \/ \E g \in HANAGenerations : Reliability(g)
         \/ NextHANAGeneration \/ Takeover \/ ResetPassword \/ UNCHANGED hcVars
  PROVE  CollectorsInv'
<1>1. UNCHANGED <<fastAt, collected, slowAt, queryFailCount, refusedInARow>>
  BY DEF Reliability, NextHANAGeneration, Takeover, ResetPassword, hcVars, hcSlow, hcFast,
         hcEnv
<1>2. hcGen' = hcGen \/ (hcGen' = hcGen + 1 /\ hcGen < MaxHANAGenerations)
  BY DEF Reliability, NextHANAGeneration, Takeover, ResetPassword, hcVars
<1>3. CountTypes'
  BY <1>1, <1>2, SomeGenerations DEF CollectorsInv, CountInv, CountTypes, HANAGenerations
<1>4. SendInv' /\ Busy' = Busy /\ CountedRefusals' = CountedRefusals
  BY <1>1 DEF CollectorsInv, SendInv, Busy, CountedRefusals
<1>5. \A g \in HANAGenerations : g > hcGen' => g > hcGen
  BY <1>2, SomeGenerations DEF CollectorsInv, CountInv, CountTypes, HANAGenerations
<1>6. \A g \in Busy : g \in HANAGenerations /\ g <= hcGen'
  <2>1. \A g \in Busy : g \in HANAGenerations /\ g <= hcGen
    BY DEF CollectorsInv, CountInv, Busy
  <2> QED
    BY <1>2, <2>1, SomeGenerations DEF CollectorsInv, CountInv, CountTypes, HANAGenerations
<1>7. CountInv'
  BY <1>1, <1>3, <1>4, <1>5, <1>6 DEF CollectorsInv, CountInv
<1> QED
  BY <1>4, <1>7 DEF CollectorsInv

(* Each generation counts at most two refusals, so that together they count no
   more than two for each. *)
LEMMA BoundsFromCounts == CollectorsInv => CollectorsKeepToTheirBounds
<1> SUFFICES ASSUME CollectorsInv PROVE CollectorsKeepToTheirBounds
  OBVIOUS
<1>1. CountInv
  BY DEF CollectorsInv
<1>2. hcGen \in Nat \ {0} /\ refusedInARow \in Nat
  BY <1>1, SomeGenerations DEF CountInv, CountTypes, HANAGenerations
<1>3. CountedRefusals \subseteq (1..hcGen) \X (1..2)
  <2> SUFFICES ASSUME NEW g \in HANAGenerations, NEW k \in 1..2, k <= queryFailCount[g]
               PROVE  g \in 1..hcGen
    BY DEF CountedRefusals
  <2> QED
    BY <1>1, <1>2, SomeGenerations DEF CountInv, CountTypes, HANAGenerations
<1>4. IsFiniteSet(1..hcGen) /\ Cardinality(1..hcGen) = hcGen
  BY <1>2, CountsFromOne
<1>5. IsFiniteSet(1..2) /\ Cardinality(1..2) = 2
  BY CountsFromOne
<1>6. IsFiniteSet((1..hcGen) \X (1..2))
  BY <1>4, <1>5, FS_Product
<1>7. Cardinality((1..hcGen) \X (1..2)) = hcGen * 2
  BY <1>4, <1>5, FS_Product, ZenonT(60)
<1>8. Cardinality(CountedRefusals) <= Cardinality((1..hcGen) \X (1..2))
  BY <1>3, <1>6, FS_Subset
<1>9. refusedInARow <= 2 * hcGen
  BY <1>1, <1>2, <1>7, <1>8, RefusalsFinite DEF CountInv
<1>10. \A n \in HANAGenerations : hcGen = n => refusedInARow <= maxHANAQueryFailCount * n
  BY <1>9 DEF maxHANAQueryFailCount
<1> QED
  BY <1>10, Zenon DEF CollectorsInv, SendInv, CollectorsKeepToTheirBounds

(* However the collectors of however many generations interleave, fail and retry,
   and whatever becomes of roles and passwords: every fast collection that is not
   cancelled sends the state of the replication (CollectWithRetry), and the logins
   refused in a row stay within two for each generation (HANAQueryFailCount). *)
THEOREM CollectorsAreBounded == HANASpec => []CollectorsKeepToTheirBounds
<1>1. CollectorsInv /\ [HANANext]_hcVars => CollectorsInv'
  BY FastKeepsBounds, SlowKeepsBounds, QueryKeepsBounds, OthersKeepBounds DEF HANANext
<1> QED
  BY CollectorsInvInit, <1>1, BoundsFromCounts, PTL DEF HANASpec
--------------------------------------------------------------------------------
(* The disk usage per process: no byte is reported twice. *)

(* The values of a counter, and none. *)
Values0 == 0..MaxBytes \cup {NoValue}

(* What the collector of the disk usage remembers. *)
UsageTypes ==
    /\ usageAttempt \in Nat /\ visited \subseteq Labels
    /\ bytes \in [Labels -> Values0] /\ incarnation \in [Labels -> Nat \ {0}]
    /\ lastValue \in [Labels -> Values0] /\ first \in [Labels -> Values0]
    /\ usages \in [Labels -> 0..NoValue] /\ reported \in [Labels -> Nat]
    /\ foreign \in [Labels -> BOOLEAN]

(* Of the process that has a label now: its counter only grows, it was remembered when
   it was seen first, and what was sent and is to be sent of it adds up to no more than
   what the counter has grown since then. *)
OneProcess(l) ==
    /\ first[l] # NoValue => lastValue[l] # NoValue /\ first[l] <= lastValue[l]
    /\ first[l] # NoValue /\ bytes[l] # NoValue => lastValue[l] <= bytes[l]
    /\ usageAttempt # 0 /\ l \notin visited => usages[l] = NoValue
    /\ reported[l] + (IF usageAttempt # 0 THEN Sent(l) ELSE 0)
         <= IF first[l] = NoValue THEN 0 ELSE lastValue[l] - first[l]

(* The inductive invariant. *)
UsageInv == UsageTypes /\ \A l \in Labels : OneProcess(l)

(* What CollectIOPSPerProcess reports of a counter that has grown. *)
LEMMA DifferenceIsGrowth ==
  ASSUME NEW a \in 0..63, NEW b \in 0..63
  PROVE  Difference(a, b) \in 0..63 /\ (b <= a => Difference(a, b) = a - b)
  BY DEF Difference, Width

(* A counter that is there fits its width. *)
LEMMA CounterValue ==
  ASSUME NEW v \in Values0, v # NoValue PROVE v \in 0..63
  BY ProcessUsageAssumption DEF Values0, NoValue, Width

(* Nothing is remembered and nothing sent before the first collection. *)
LEMMA UsageInvInit == UsageInit => UsageInv
  BY ProcessUsageAssumption
     DEF UsageInit, UsageInv, UsageTypes, OneProcess, Values0, NoValue, Width, Sent

(* Collections, processes and their ends keep the types. *)
LEMMA UsageTypesNext == UsageTypes /\ [UsageNext]_puVars => UsageTypes'
<1> SUFFICES ASSUME UsageTypes, [UsageNext]_puVars PROVE UsageTypes'
  OBVIOUS
<1> USE ProcessUsageAssumption DEF UsageTypes, Values0, NoValue, Width
<1>1. CASE CollectUsage
  BY <1>1 DEF CollectUsage
<1>2. CASE EndUsage
  BY <1>2 DEF EndUsage, Sent
<1>3. ASSUME NEW l \in Labels, ReadCounters(l) PROVE UsageTypes'
  <2>1. CASE UNCHANGED <<lastValue, usages, first, foreign>>
    BY <1>3, <2>1 DEF ReadCounters
  <2>2. CASE /\ bytes[l] # NoValue /\ lastValue' = [lastValue EXCEPT ![l] = bytes[l]]
             /\ usages' = [usages EXCEPT ![l] =
                  IF lastValue[l] = NoValue THEN NoValue
                  ELSE Difference(bytes[l], lastValue[l])]
             /\ first' = [first EXCEPT ![l] = IF @ = NoValue THEN bytes[l] ELSE @]
             /\ foreign' = [foreign EXCEPT ![l] = first[l] = NoValue]
    <3>1. lastValue[l] # NoValue => Difference(bytes[l], lastValue[l]) \in 0..NoValue
      <4>1. ASSUME lastValue[l] # NoValue PROVE bytes[l] \in 0..63 /\ lastValue[l] \in 0..63
        <5>1. bytes[l] \in Values0 /\ lastValue[l] \in Values0
          BY Zenon DEF UsageTypes
        <5> QED
          BY <2>2, <4>1, <5>1, CounterValue
      <4>2. 0..63 \subseteq 0..NoValue
        OBVIOUS
      <4> QED
        BY <4>1, <4>2, DifferenceIsGrowth
    <3> QED
      BY <1>3, <2>2, <3>1 DEF ReadCounters
  <2> QED
    BY <1>3, <2>1, <2>2 DEF ReadCounters
<1>4. ASSUME NEW l \in Labels, ProcessReads(l) \/ ProcessEnds(l) PROVE UsageTypes'
  BY <1>4 DEF ProcessReads, ProcessEnds
<1>5. ASSUME NEW l \in Labels, ProcessBegins(l) PROVE UsageTypes'
  BY <1>5 DEF ProcessBegins
<1>6. CASE UNCHANGED puVars
  BY <1>6 DEF puVars
<1> QED
  BY <1>1, <1>2, <1>3, <1>4, <1>5, <1>6 DEF UsageNext

(* Each step keeps what is known of the process behind a label. *)
LEMMA UsageNextKeeps == UsageInv /\ [UsageNext]_puVars => UsageInv'
<1> SUFFICES ASSUME UsageInv, [UsageNext]_puVars, NEW l \in Labels
             PROVE  OneProcess(l)'
  BY UsageTypesNext DEF UsageInv
<1>0. UsageTypes /\ UsageTypes' /\ OneProcess(l)
  BY UsageTypesNext DEF UsageInv
<1> USE ProcessUsageAssumption DEF Values0, NoValue, Width
<1>1. CASE CollectUsage
  BY <1>0, <1>1 DEF CollectUsage, OneProcess, UsageTypes, Sent
<1>2. CASE EndUsage
  BY <1>0, <1>2 DEF EndUsage, OneProcess, UsageTypes, Sent
<1>3. ASSUME NEW k \in Labels, ReadCounters(k) PROVE OneProcess(l)'
  <2>1. CASE k # l
    BY <1>0, <1>3, <2>1 DEF ReadCounters, OneProcess, UsageTypes, Sent
  <2>2. CASE k = l /\ UNCHANGED <<lastValue, usages, first, foreign>>
    BY <1>0, <1>3, <2>2 DEF ReadCounters, OneProcess, UsageTypes, Sent
  <2>3. CASE k = l /\ ~UNCHANGED <<lastValue, usages, first, foreign>>
    <3>1. /\ bytes[l] # NoValue /\ lastValue'[l] = bytes[l]
          /\ usages'[l] = IF lastValue[l] = NoValue THEN NoValue
                          ELSE Difference(bytes[l], lastValue[l])
          /\ first'[l] = IF first[l] = NoValue THEN bytes[l] ELSE first[l]
          /\ first[l] = NoValue => foreign'[l]
          /\ l \notin visited /\ l \in visited'
          /\ usageAttempt # 0 /\ UNCHANGED <<bytes, incarnation, usageAttempt, reported>>
      BY <1>0, <1>3, <2>3 DEF ReadCounters, UsageTypes
    <3>2. first[l] # NoValue =>
            Difference(bytes[l], lastValue[l]) = bytes[l] - lastValue[l]
      <4> SUFFICES ASSUME first[l] # NoValue
                   PROVE  Difference(bytes[l], lastValue[l]) = bytes[l] - lastValue[l]
        OBVIOUS
      <4>1. bytes[l] \in 0..63 /\ lastValue[l] \in 0..63
        <5>1. bytes[l] \in Values0 /\ lastValue[l] \in Values0 /\ lastValue[l] # NoValue
          BY <1>0, ZenonT(60) DEF UsageTypes, OneProcess
        <5> QED
          BY <3>1, <5>1, CounterValue
      <4>2. lastValue[l] <= bytes[l]
        BY <1>0, <3>1 DEF OneProcess
      <4> QED
        BY <4>1, <4>2, DifferenceIsGrowth
    <3>3. reported[l] <= IF first[l] = NoValue THEN 0 ELSE lastValue[l] - first[l]
      BY <1>0, <3>1 DEF OneProcess, UsageTypes, Sent
    <3>4. CASE first[l] = NoValue
      BY <1>0, <3>1, <3>3, <3>4 DEF OneProcess, UsageTypes, Sent
    <3>5. CASE first[l] # NoValue
      BY <1>0, <3>1, <3>2, <3>3, <3>5 DEF OneProcess, UsageTypes, Sent
    <3> QED
      BY <3>4, <3>5
  <2> QED
    BY <2>1, <2>2, <2>3
<1>4. ASSUME NEW k \in Labels, ProcessReads(k) PROVE OneProcess(l)'
  BY <1>0, <1>4 DEF ProcessReads, OneProcess, UsageTypes, Sent
<1>5. ASSUME NEW k \in Labels, ProcessEnds(k) PROVE OneProcess(l)'
  BY <1>0, <1>5 DEF ProcessEnds, OneProcess, UsageTypes, Sent
<1>6. ASSUME NEW k \in Labels, ProcessBegins(k) PROVE OneProcess(l)'
  <2>1. CASE k # l
    BY <1>0, <1>6, <2>1 DEF ProcessBegins, OneProcess, UsageTypes, Sent
  <2>2. CASE k = l
    BY <1>0, <1>6, <2>2 DEF ProcessBegins, OneProcess, UsageTypes, Sent
  <2> QED
    BY <2>1, <2>2
<1>7. CASE UNCHANGED puVars
  BY <1>0, <1>7 DEF puVars, OneProcess, Sent
<1> QED
  BY <1>1, <1>2, <1>3, <1>4, <1>5, <1>6, <1>7 DEF UsageNext

(* For any number of processes, of labels that are used again, of collections, failing
   attempts and retries: no byte of a process is reported twice (CollectIOPSPerProcess). *)
LEMMA BytesAreCountedOnce == UsageSpec => []NoByteTwice
<1>1. UsageInv => NoByteTwice
  BY DEF UsageInv, OneProcess, NoByteTwice
<1> QED
  BY UsageInvInit, UsageNextKeeps, <1>1, PTL DEF UsageSpec

--------------------------------------------------------------------------------
(* The slow collectors of process metrics: what a collection sends. *)

(* Metrics that the code reads without asking whether they are to be skipped. *)
Unasked == {"icm/rtime", "ms/rtime", "ms/wp", "volumes"}

(* No two parts of a collector read the same metric, and a part asks for each metric
   it reads, but for those. *)
WellFormed(parts) ==
    /\ 1 \in DOMAIN parts /\ DOMAIN parts = 1..Len(parts) /\ Len(parts) \in Nat
    /\ \A i, j \in DOMAIN parts : i # j => parts[i].metrics \cap parts[j].metrics = {}
    /\ \A i \in DOMAIN parts :
         /\ parts[i].each \/ parts[i].metrics \subseteq parts[i].off \cup Unasked
         /\ parts[i].onError \in {"abort", "lose", "zero", "zeroOrLose", "part", "none"}

(* The twelve collectors of createProcessCollectors are of that form. *)
LEMMA PartsAreWellFormed == ASSUME NEW k \in Table PROVE WellFormed(PartsOf(k))
<1> USE DEF WellFormed, Unasked, Whole, Each
<1>1. WellFormed(NetWeaverParts(ICM))
  BY DEF NetWeaverParts, ICM, ServiceAvailability, WorkProcesses, Queues, Sessions,
         RFCConnections, EnqueueLocks, Role
<1>2. WellFormed(NetWeaverParts(MessageServer))
  BY DEF NetWeaverParts, MessageServer, ServiceAvailability, WorkProcesses, Queues,
         Sessions, RFCConnections, EnqueueLocks, Role
<1>3. WellFormed(InfraParts) /\ WellFormed(NetworkParts)
  BY DEF InfraParts, NetworkParts, Maintenances
<1>4. WellFormed(ClusterParts)
  BY DEF ClusterParts
<1>5. WellFormed(VolumeParts) /\ WellFormed(PacemakerParts) /\ WellFormed(MaintenanceParts)
  BY DEF VolumeParts, PacemakerParts, MaintenanceParts
<1>6. WellFormed(ServiceParts) /\ WellFormed(MemoryParts)
  BY DEF ServiceParts, MemoryParts
<1>7. WellFormed(InstanceParts) /\ WellFormed(ControlParts)
  BY DEF InstanceParts, ControlParts, CPU, Memory
<1> HIDE DEF WellFormed, Unasked, Whole, Each
<1> QED
  BY <1>1, <1>2, <1>3, <1>4, <1>5, <1>6, <1>7 DEF Table, PartsOf

(* What an attempt has, or has returned: each metric once and of this attempt, none that
   is to be skipped, all metrics of the parts that were read but for those that may be
   absent, and zeros in place of readings only with an error. *)
Sound(a) ==
    /\ \A r \in a.readings : r.metric \in skipped => r.metric \in Unasked
    /\ \A r, q \in a.readings : r.attempt = q.attempt /\ (r.metric = q.metric => r = q)
    /\ \A i \in a.read :
         PartWanted(PartsOf(collector)[i]) \ Absentable \subseteq {r.metric : r \in a.readings}
    /\ \A r \in a.readings : r.value = "zero" => a.err \/ "migration" \in skipped

(* While an attempt runs, it has nothing of the parts that are to come. *)
AttemptRuns ==
    /\ part \in DOMAIN PartsOf(collector) /\ collectOutcome = "none"
    /\ Sound(have)
    /\ \A r \in have.readings : r.attempt = collectAttempt
    /\ \A r \in have.readings, j \in DOMAIN PartsOf(collector) :
         j >= part => r.metric \notin PartsOf(collector)[j].metrics

(* The inductive invariant. *)
CollectionInv ==
    /\ collector \in Table
    /\ have = [readings |-> have.readings, read |-> have.read, err |-> have.err]
    /\ have.err \in BOOLEAN
    /\ part # 0 => AttemptRuns
    /\ Sound(res)
    /\ collectOutcome \notin {"none", "cancelled"} =>
         \A r \in res.readings : r.attempt = collectAttempt
    /\ collectOutcome = "ok" => ~res.err

(* An attempt that has nothing is sound. *)
LEMMA NothingIsSound == Sound(NothingYet) /\ (NothingYet = have => have.err = FALSE)
  BY DEF Sound, NothingYet

(* A collection begins with nothing. *)
LEMMA CollectionInvInit == CollectionInit => CollectionInv
<1> SUFFICES ASSUME CollectionInit PROVE CollectionInv
  OBVIOUS
<1>1. collector \in Table /\ part = 1 /\ have = NothingYet /\ res = NothingYet
      /\ collectOutcome = "none"
  BY MetricCollectionAssumption DEF CollectionInit
<1>2. 1 \in DOMAIN PartsOf(collector)
  BY <1>1, PartsAreWellFormed DEF WellFormed
<1>3. AttemptRuns
  BY <1>1, <1>2, NothingIsSound DEF AttemptRuns, NothingYet
<1>4. have = [readings |-> have.readings, read |-> have.read, err |-> have.err]
      /\ have.err \in BOOLEAN
  BY <1>1 DEF NothingYet
<1> QED
  BY <1>1, <1>3, <1>4, NothingIsSound DEF CollectionInv

(* What a part wants is of its own metrics, and to be skipped only where the code does
   not ask. *)
LEMMA WantedIsOwn ==
  ASSUME collector \in Table, NEW i \in DOMAIN PartsOf(collector)
  PROVE  /\ PartWanted(PartsOf(collector)[i]) \subseteq PartsOf(collector)[i].metrics
         /\ PartWanted(PartsOf(collector)[i]) \cap skipped \subseteq Unasked
<1>1. WellFormed(PartsOf(collector))
  BY PartsAreWellFormed
<1> QED
  BY <1>1 DEF WellFormed, PartWanted

(* A sound attempt that ends is what the collection returns, if it is the last. *)
LEMMA EndKeeps ==
  ASSUME CollectionInv, part # 0, NEW what, Sound(what), what.err \in BOOLEAN,
         \A r \in what.readings : r.attempt = collectAttempt,
         EndAttempt(what), UNCHANGED <<collector, skipped>>
  PROVE  CollectionInv'
<1>1. res' = what /\ have' = NothingYet
  BY DEF EndAttempt
<1>2. have' = [readings |-> have'.readings, read |-> have'.read, err |-> have'.err]
      /\ have'.err \in BOOLEAN
  BY <1>1 DEF NothingYet
<1>3. Sound(res)' /\ Sound(have)'
  BY <1>1 DEF Sound, PartWanted, NothingYet
<1>4. 1 \in DOMAIN PartsOf(collector) /\ collectOutcome = "none" /\ collector \in Table
  BY PartsAreWellFormed DEF CollectionInv, AttemptRuns, WellFormed
<1>5. CASE part' = 1 /\ UNCHANGED collectOutcome
  <2>1. AttemptRuns'
    BY <1>1, <1>3, <1>4, <1>5 DEF AttemptRuns, NothingYet
  <2> QED
    BY <1>1, <1>2, <1>3, <1>4, <1>5, <2>1 DEF CollectionInv
<1>6. CASE Over(IF what.err THEN "error" ELSE "ok") /\ UNCHANGED collectAttempt
  <2>1. part' = 0 /\ collectOutcome' \in {"error", "ok"}
        /\ (collectOutcome' = "ok" => ~what.err)
    BY <1>6 DEF Over
  <2> QED
    BY <1>1, <1>2, <1>3, <1>4, <1>6, <2>1 DEF CollectionInv
<1> QED
  BY <1>5, <1>6, Zenon DEF EndAttempt

(* A part that is done adds readings of its own metrics to those of the parts before. *)
LEMMA DoneKeepsSound ==
  ASSUME CollectionInv, part # 0, NEW added, NEW e \in BOOLEAN, NEW v \in {"read", "zero"},
         NEW absent \in SUBSET Absentable,
         added = Values(PartWanted(PartsOf(collector)[part]) \ absent, v) \/ (added = {} /\ e = TRUE),
         v = "zero" => e = TRUE \/ "migration" \in skipped,
         Done(added, e), UNCHANGED <<collector, skipped>>
  PROVE  CollectionInv'
<1> DEFINE P == PartsOf(collector)
           now == [readings |-> have.readings \cup added,
                   read |-> IF e THEN have.read ELSE have.read \cup {part},
                   err |-> have.err \/ e]
<1>1. AttemptRuns /\ collector \in Table /\ part \in DOMAIN P /\ have.err \in BOOLEAN
  BY DEF CollectionInv, AttemptRuns
<1>2. /\ PartWanted(P[part]) \subseteq P[part].metrics
      /\ PartWanted(P[part]) \cap skipped \subseteq Unasked
  BY <1>1, WantedIsOwn
<1>3. \A r \in added : /\ r = [metric |-> r.metric, value |-> v, attempt |-> collectAttempt]
                       /\ r.metric \in PartWanted(P[part])
  BY DEF Values
<1>4. \A r \in have.readings : r.metric \notin P[part].metrics
  <2>1. part >= part
    BY <1>1, PartsAreWellFormed DEF WellFormed
  <2> QED
    BY <1>1, <2>1 DEF AttemptRuns
<1>5. \A r, q \in now.readings : r.attempt = q.attempt /\ (r.metric = q.metric => r = q)
  BY <1>1, <1>2, <1>3, <1>4 DEF AttemptRuns, Sound
<1>6. \A r \in now.readings : r.attempt = collectAttempt
  BY <1>1, <1>3 DEF AttemptRuns
<1>7. \A r \in now.readings : r.metric \in skipped => r.metric \in Unasked
  BY <1>1, <1>2, <1>3 DEF AttemptRuns, Sound
<1>8. \A i \in now.read : PartWanted(P[i]) \ Absentable \subseteq {r.metric : r \in now.readings}
  <2>1. \A i \in have.read : PartWanted(P[i]) \ Absentable \subseteq {r.metric : r \in now.readings}
    BY <1>1 DEF AttemptRuns, Sound
  <2>2. e = FALSE => PartWanted(P[part]) \ Absentable \subseteq {r.metric : r \in now.readings}
    <3> SUFFICES ASSUME e = FALSE, NEW m \in PartWanted(P[part]) \ Absentable
                 PROVE  \E r \in now.readings : r.metric = m
      OBVIOUS
    <3>1. [metric |-> m, value |-> v, attempt |-> collectAttempt] \in added
      BY DEF Values
    <3> QED
      BY <3>1
  <2> QED
    BY <2>1, <2>2
<1>9. now.err \in BOOLEAN
      /\ \A r \in now.readings : r.value = "zero" => now.err \/ "migration" \in skipped
  <2>1. \A r \in have.readings : r.value = "zero" => have.err \/ "migration" \in skipped
    BY <1>1 DEF AttemptRuns, Sound
  <2> QED
    BY <1>1, <1>3, <2>1
<1>10. Sound(now)
  BY <1>5, <1>7, <1>8, <1>9 DEF Sound
<1>11. CASE EndAttempt(now)
  BY <1>6, <1>9, <1>10, <1>11, EndKeeps
<1>12. CASE /\ part # Len(P) /\ part' = part + 1 /\ have' = now
            /\ UNCHANGED <<collectAttempt, res, collectOutcome>>
  <2>1. WellFormed(P)
    BY <1>1, PartsAreWellFormed
  <2>2. part' \in DOMAIN P /\ \A j \in DOMAIN P : j >= part' => j >= part /\ j # part
    BY <1>1, <1>12, <2>1 DEF WellFormed
  <2>3. \A r \in now.readings, j \in DOMAIN P : j >= part' => r.metric \notin P[j].metrics
    <3> SUFFICES ASSUME NEW r \in now.readings, NEW j \in DOMAIN P, j >= part'
                 PROVE  r.metric \notin P[j].metrics
      OBVIOUS
    <3>1. j >= part /\ j # part
      BY <2>2
    <3>2. CASE r \in have.readings
      BY <1>1, <3>1, <3>2 DEF AttemptRuns
    <3>3. CASE r \in added
      <4>1. r.metric \in P[part].metrics /\ P[part].metrics \cap P[j].metrics = {}
        BY <1>1, <1>2, <1>3, <2>1, <3>1, <3>3 DEF WellFormed
      <4> QED
        BY <4>1
    <3> QED
      BY <3>2, <3>3
  <2>4. Sound(have)' /\ Sound(res)'
    BY <1>10, <1>12 DEF CollectionInv, Sound, PartWanted
  <2>5. AttemptRuns'
    BY <1>1, <1>6, <1>12, <2>2, <2>3, <2>4 DEF AttemptRuns
  <2>6. have' = [readings |-> have'.readings, read |-> have'.read, err |-> have'.err]
        /\ have'.err \in BOOLEAN
    BY <1>9, <1>12
  <2> QED
    BY <1>1, <1>12, <2>4, <2>5, <2>6 DEF CollectionInv
<1> QED
  BY <1>11, <1>12, Zenon DEF Done

(* Each step keeps what an attempt has sound: an error takes nothing from the parts
   before, and what an attempt had goes with it. *)
LEMMA CollectionNextKeeps == CollectionInv /\ [CollectionNext]_mcoVars => CollectionInv'
<1> SUFFICES ASSUME CollectionInv, [CollectionNext]_mcoVars PROVE CollectionInv'
  OBVIOUS
<1>1. CASE CollectPart
  <2> DEFINE p == PartsOf(collector)[part]
             value == IF p.metrics = Maintenances /\ "migration" \in skipped THEN "zero"
                      ELSE "read"
  <2>1. part # 0 /\ UNCHANGED <<collector, skipped>>
    BY <1>1 DEF CollectPart
  <2>2. ASSUME NEW absent \in SUBSET (PartWanted(p) \cap Absentable),
               Done(Values(PartWanted(p) \ absent, value), FALSE)
        PROVE  CollectionInv'
    BY <2>1, <2>2, DoneKeepsSound
  <2>0. {} \in SUBSET Absentable /\ PartWanted(p) \ {} = PartWanted(p)
    OBVIOUS
  <2>3. CASE Done({}, TRUE)
    BY <2>0, <2>1, <2>3, DoneKeepsSound
  <2>4. CASE Done(Values(PartWanted(p), "zero"), TRUE)
    BY <2>0, <2>1, <2>4, DoneKeepsSound
  <2>5. CASE Done(Values(PartWanted(p), "read"), TRUE)
    BY <2>0, <2>1, <2>5, DoneKeepsSound
  <2>6. CASE EndAttempt([have EXCEPT !.err = TRUE])
    <3> DEFINE what == [have EXCEPT !.err = TRUE]
    <3>1. what.readings = have.readings /\ what.read = have.read /\ what.err = TRUE
      BY DEF CollectionInv
    <3>2. Sound(have) /\ \A r \in have.readings : r.attempt = collectAttempt
      BY <2>1 DEF CollectionInv, AttemptRuns
    <3>3. Sound(what) /\ what.err \in BOOLEAN
          /\ \A r \in what.readings : r.attempt = collectAttempt
      BY <3>1, <3>2 DEF Sound
    <3> QED
      BY <2>1, <2>6, <3>3, EndKeeps
  <2>7. PartFails(p) => \/ EndAttempt([have EXCEPT !.err = TRUE]) \/ Done({}, TRUE)
                        \/ Done(Values(PartWanted(p), "zero"), TRUE)
                        \/ Done(Values(PartWanted(p), "read"), TRUE)
    <3>1. p.onError \in {"abort", "lose", "zero", "zeroOrLose", "part", "none"}
      BY <2>1, PartsAreWellFormed DEF CollectionInv, AttemptRuns, WellFormed
    <3> QED
      BY <3>1 DEF PartFails, MayFail
  <2>8. \/ PartFails(p)
        \/ \E absent \in SUBSET (PartWanted(p) \cap Absentable) :
             Done(Values(PartWanted(p) \ absent, value), FALSE)
    BY <1>1, Zenon DEF CollectPart
  <2> QED
    BY <2>2, <2>3, <2>4, <2>5, <2>6, <2>7, <2>8
<1>2. CASE NothingThere
  <2>1. Sound(NothingYet) /\ NothingYet.err \in BOOLEAN
        /\ \A r \in NothingYet.readings : r.attempt = collectAttempt
    BY NothingIsSound DEF NothingYet
  <2> QED
    BY <1>2, <2>1, EndKeeps DEF NothingThere
<1>3. CASE CollectCancelled
  BY <1>3 DEF CollectCancelled, Over, CollectionInv, Sound, PartWanted
<1>4. CASE CancelCollectors
  BY <1>4 DEF CancelCollectors, CollectionInv, AttemptRuns, Sound, PartWanted
<1>5. CASE UNCHANGED mcoVars
  BY <1>5 DEF mcoVars, CollectionInv, AttemptRuns, Sound, PartWanted
<1> QED
  BY <1>1, <1>2, <1>3, <1>4, <1>5 DEF CollectionNext

(* What the invariant says of a collection that is over. *)
LEMMA CollectionsAreSound == CollectionSpec => []CollectionsKeepWhatTheyRead
<1>1. CollectionInv => CollectionsKeepWhatTheyRead
  BY DEF CollectionInv, Sound, CollectionsKeepWhatTheyRead, SkippedStays, Unasked
<1> QED
  BY CollectionInvInit, CollectionNextKeeps, <1>1, PTL DEF CollectionSpec

(* For every collector of createProcessCollectors, whatever is skipped, fails and is
   tried again: what is sent is of the last attempt, each metric once, with all
   metrics of the parts that were read but for those that a reading may be without
   (CollectWithRetry); and for any number of processes no byte is reported twice, the
   first difference after a label changed hands aside (CollectIOPSPerProcess). *)
THEOREM CollectionsCountOnce ==
  CollectionSpec /\ UsageSpec => []CollectionsKeepWhatTheyCount
<1> QED
  BY CollectionsAreSound, BytesAreCountedOnce, PTL DEF CollectionsKeepWhatTheyCount

--------------------------------------------------------------------------------
(* HostMetrics: the values of a collection and the averages of the disks. *)

HMPlaces == {"not started", "start", "info", "disks", "local", "cloud", "text", "length", "idle", "gone"}

Collecting == {"info", "disks", "local", "cloud", "text", "length"}

(* The collectors, and what the document is made of: who writes the second half of it
   has written the first, or another collector has since. *)
DocumentInv ==
    /\ hmGen \in HMGenerations /\ hmAt \in [HMGenerations -> HMPlaces]
    /\ DOMAIN gathered = HMGenerations
    /\ \A g \in HMGenerations : DOMAIN gathered[g] = {"id", "metrics", "inOrder"}
    /\ DOMAIN metricsXML = {"text", "length"}
    /\ \A g \in HMGenerations : g > hmGen => hmAt[g] = "not started"
    /\ \A g \in HMGenerations : hmAt[g] \in Collecting => gathered[g].id[1] = g
    /\ \A g \in HMGenerations : hmAt[g] = "length" => metricsXML.text = gathered[g].id \/ metricsXML.text[1] # g
    /\ WholeDocument

(* The disks that are attached, and those a reader knows, are different ones. *)
DisksInv ==
    /\ attached \in [Devices -> HMDisks \cup {NoDisk}]
    /\ \A v, w \in Devices : attached[v] = attached[w] => v = w
    /\ DOMAIN instanceProperties = HMGenerations
    /\ \A g \in HMGenerations : \E n \in Nat : DOMAIN instanceProperties[g].disks = 1..n
    /\ \A g \in HMGenerations : \A i, j \in DOMAIN instanceProperties[g].disks :
         instanceProperties[g].disks[i].name = instanceProperties[g].disks[j].name => i = j

DeviceMetrics == {"Volume ID", "Mapping", "Volume Read Response Time", "Volume Write Response Time"}
LocalMetrics == {"Memory Consumption", "Guaranteed VM Processing Power", "Processor Type", "Current Network Bandwidth",
                 "Instance Type", "Hardware Model", "Cloud Provider"}
CloudMetrics == {"VM Processing Power Consumption", "Network Read Throughput", "Guaranteed Throughput",
                 "Volume Utilization", "Volume Read Throughput", "Volume Read Ops"}

(* One value of each metric. *)
OneValue(metrics) == \A m, n \in metrics : m.name = n.name /\ m.id = n.id => m = n
Named(metrics, names) == \A m \in metrics : m.name \in names
OwnValues(metrics) ==
    \A m \in metrics : m.name \in sapMetrics["delta"] \cup {"Volume Utilization"} =>
        m.value \in {Text(m.id), Unavailable, Number(0), <<"of", Text(m.id), Text(m.id)>>}

(* What a collection has gathered at each of its places. *)
GatheredAt(where, c) ==
    /\ where \in HMPlaces \ {"local", "cloud", "text", "length"} => c.metrics = {}
    /\ where = "local" => Named(c.metrics, DeviceMetrics)
    /\ where = "cloud" => Named(c.metrics, DeviceMetrics \cup LocalMetrics)
    /\ OneValue(c.metrics)
    /\ c.inOrder => OwnValues(c.metrics)

GatheredInv == \A g \in HMGenerations : GatheredAt(hmAt[g], gathered[g])

Counted == [ops : Nat, time : Nat]
(* The counters c were read after p, or they are of another disk. *)
ReadLater(p, c) ==
    \E m \in 0..measured : /\ p.time <= p.ops * m
                           /\ (c.ops >= p.ops /\ c.time >= p.time) \/ c.time >= c.ops * m

(* What a reader kept of its last reading, and what the counters are since. *)
ReadingsInv ==
    /\ measured \in Nat
    /\ counters \in [Devices -> [Directions -> Counted]]
    /\ \A v \in Devices, r \in Directions : counters[v][r].time <= counters[v][r].ops * measured
    /\ DOMAIN prevDiskStats = HMGenerations /\ DOMAIN readings = HMGenerations
    /\ \A g \in HMGenerations : DOMAIN readings[g] = {"prev", "now"}
    /\ \A g \in HMGenerations : ~readings[g].now.ok => DOMAIN prevDiskStats[g] = {}
    /\ \A g \in HMGenerations : readings[g].now.ok =>
         /\ readings[g].now.mapped \subseteq Devices
         /\ DOMAIN prevDiskStats[g] = readings[g].now.mapped
         /\ readings[g].now.counters \in [Devices -> [Directions -> Counted]]
         /\ \A v \in readings[g].now.mapped : prevDiskStats[g][v] = readings[g].now.counters[v]
         /\ \A v \in readings[g].now.mapped, r \in Directions : ReadLater(readings[g].now.counters[v][r], counters[v][r])

(* What AveragesAreOfTheInterval says of one collection. *)
OfTheInterval(reading, disks, metrics) ==
    \A i \in DOMAIN disks, r \in Directions :
        LET v == disks[i].mapping
            name == IF r = "Read" THEN "Volume Read Response Time" ELSE "Volume Write Response Time"
            gatheredValue == ValueOf(metrics, name, disks[i].name)
        IN IF reading.now.ok /\ reading.prev.ok /\ v \in reading.now.mapped \cap reading.prev.mapped
             THEN reading.now.attached[v] = reading.prev.attached[v]
                    /\ reading.now.counters[v][r].ops >= reading.prev.counters[v][r].ops =>
                    LET ops == reading.now.counters[v][r].ops - reading.prev.counters[v][r].ops
                        time == reading.now.counters[v][r].time - reading.prev.counters[v][r].time
                    IN gatheredValue = {Number(IF ops = 0 THEN 0 ELSE time \div ops)}
             ELSE gatheredValue = {Unavailable}

HMInv == DocumentInv /\ DisksInv /\ GatheredInv /\ ReadingsInv /\ AveragesAreOfTheInterval

(* Each attached disk is one of the reader's once, whatever order the API has. *)
LEMMA MappingIsOfDisks ==
    ASSUME DisksInv, NEW linked, NEW inPlatform,
           NEW i \in DOMAIN ReadDiskMapping(linked, inPlatform).disks, NEW j \in DOMAIN ReadDiskMapping(linked, inPlatform).disks,
           ReadDiskMapping(linked, inPlatform).disks[i].name = ReadDiskMapping(linked, inPlatform).disks[j].name
    PROVE  i = j
<1> DEFINE present == Kept(HMDevices, {v \in Devices : attached[v] # NoDisk})
<1>1. /\ DOMAIN ReadDiskMapping(linked, inPlatform).disks = DOMAIN present
      /\ \A k \in DOMAIN present : ReadDiskMapping(linked, inPlatform).disks[k].name = attached[present[k]]
  BY DEF ReadDiskMapping
<1>2. HMDevices \in Seq(STRING)
  BY HostMetricsAssumption
<1>3. present \in Seq(STRING)
  BY <1>2, KeptSelects
<1>4. PICK f : Selects(f, present, Len(HMDevices), HMDevices, {v \in Devices : attached[v] # NoDisk})
  BY <1>2, KeptSelects
<1> HIDE DEF present
<1>5. DOMAIN present = 1..Len(present)
  BY <1>3
<1>6. /\ i \in 1..Len(present) /\ j \in 1..Len(present) /\ attached[present[i]] = attached[present[j]]
  BY <1>1, <1>5, Zenon
<1>7. /\ present[i] = HMDevices[f[i]] /\ present[j] = HMDevices[f[j]] /\ present[i] \in Devices /\ present[j] \in Devices
      /\ f[i] \in 1..Len(HMDevices) /\ f[j] \in 1..Len(HMDevices)
  BY <1>4, <1>6 DEF Selects
<1>8. HMDevices[f[i]] = HMDevices[f[j]]
  BY <1>6, <1>7, Zenon DEF DisksInv
<1>9. f[i] = f[j]
  BY <1>2, <1>7, <1>8, HostMetricsAssumption
<1>10. Len(present) \in Nat
  BY <1>3
<1>11. ~(i < j) /\ ~(j < i)
  BY <1>4, <1>6, <1>7, <1>9, <1>10 DEF Selects
<1> QED BY <1>6, <1>10, <1>11

(* The disks a reader knows are a sequence. *)
LEMMA MappingIsSequence ==
    ASSUME NEW linked, NEW inPlatform
    PROVE  \E n \in Nat : DOMAIN ReadDiskMapping(linked, inPlatform).disks = 1..n
<1> DEFINE present == Kept(HMDevices, {v \in Devices : attached[v] # NoDisk})
<1>1. DOMAIN ReadDiskMapping(linked, inPlatform).disks = DOMAIN present
  BY DEF ReadDiskMapping
<1>2. present \in Seq(STRING)
  <2>1. HMDevices \in Seq(STRING)
    BY HostMetricsAssumption
  <2> QED BY <2>1, KeptSelects
<1> HIDE DEF present
<1> QED BY <1>1, <1>2

(* What a step gathers is added to what its own collection has. *)
LEMMA MetricsAdded ==
    ASSUME DocumentInv, NEW g \in HMGenerations, NEW metrics, AddMetrics(g, metrics)
    PROVE  /\ DOMAIN gathered' = HMGenerations
           /\ DOMAIN gathered'[g] = {"id", "metrics", "inOrder"}
           /\ gathered'[g].metrics = gathered[g].metrics \cup metrics
           /\ gathered'[g].id = gathered[g].id /\ gathered'[g].inOrder = gathered[g].inOrder
           /\ \A h \in HMGenerations : h # g => gathered'[h] = gathered[h]
  BY Zenon DEF DocumentInv, AddMetrics

(* The place of one collector moves. *)
LEMMA PlaceMoved ==
    ASSUME DocumentInv, NEW g \in HMGenerations, NEW where, HMTo(g, where)
    PROVE  /\ DOMAIN hmAt' = HMGenerations /\ hmAt'[g] = where
           /\ \A h \in HMGenerations : h # g => hmAt'[h] = hmAt[h]
  BY Zenon DEF DocumentInv, HMTo

(* Metrics of different names do not get into each other's way. *)
LEMMA OneValueTogether ==
    ASSUME NEW m, NEW n, OneValue(m), OneValue(n), NEW s, NEW t, s \cap t = {}, Named(m, s), Named(n, t)
    PROVE  OneValue(m \cup n) /\ Named(m \cup n, s \cup t)
  BY Zenon DEF OneValue, Named

(* The fields of a metric. *)
LEMMA MetricFields ==
    ASSUME NEW name, NEW id, NEW value
    PROVE  /\ Metric(name, id, value).name = name
           /\ Metric(name, id, value).id = id
           /\ Metric(name, id, value).value = value
  BY DEF Metric

(* The value of a metric that has one. *)
LEMMA TheValue ==
    ASSUME NEW metrics, OneValue(metrics), NEW name, NEW id, NEW value, Metric(name, id, value) \in metrics
    PROVE  ValueOf(metrics, name, id) = {value}
<1>1. /\ Metric(name, id, value).name = name /\ Metric(name, id, value).id = id /\ Metric(name, id, value).value = value
  BY MetricFields
<1> QED BY <1>1, Zenon DEF ValueOf, OneValue

--------------------------------------------------------------------------------
(* Products that grow with a factor. *)
LEMMA LargerFactor ==
    ASSUME NEW a \in Nat, NEW b \in Nat, NEW m \in Nat, a <= b
    PROVE  a * m <= b * m
<1>1. PICK d \in Nat : b = a + d
  <2>1. b - a \in Nat /\ b = a + (b - a)
    OBVIOUS
  <2> QED BY <2>1
<1>2. b * m = a * m + d * m /\ d * m \in Nat /\ a * m \in Nat
  BY <1>1
<1> QED BY <1>2

(* Counters with no fewer operations than before have taken no less time: a disk that
   took over the device has counted since its attachment only, longer operations. *)
LEMMA TimeGrows ==
    ASSUME ReadingsInv, NEW p \in Counted, NEW c \in Counted, ReadLater(p, c), c.ops >= p.ops
    PROVE  c.time >= p.time
<1>1. /\ p.ops \in Nat /\ p.time \in Nat /\ c.ops \in Nat /\ c.time \in Nat
  BY DEF Counted
<1>2. PICK m \in Nat : p.time <= p.ops * m /\ ((c.ops >= p.ops /\ c.time >= p.time) \/ c.time >= c.ops * m)
  BY DEF ReadLater, ReadingsInv
<1>3. p.ops * m <= c.ops * m
  BY <1>1, <1>2, LargerFactor
<1>4. p.ops * m \in Nat /\ c.ops * m \in Nat
  BY <1>1, <1>2
<1> QED BY <1>1, <1>2, <1>3, <1>4

(* The average of operations that took time. *)
LEMMA AverageOfOperations ==
    ASSUME ReadingsInv, NEW p \in Counted, NEW c \in Counted, ReadLater(p, c), c.ops >= p.ops
    PROVE  averageResponseTime(p, c) =
             Number(IF c.ops - p.ops = 0 THEN 0 ELSE (c.time - p.time) \div (c.ops - p.ops))
<1>1. c.time >= p.time
  BY TimeGrows
<1>2. p.ops \in Nat /\ p.time \in Nat /\ c.ops \in Nat /\ c.time \in Nat
  BY DEF Counted
<1>3. \A t, o \in Nat : calculateAverage(t, o) = IF o = 0 THEN 0 ELSE t \div o
  <2> SUFFICES ASSUME NEW t \in Nat, NEW o \in Nat PROVE calculateAverage(t, o) = IF o = 0 THEN 0 ELSE t \div o
    OBVIOUS
  <2>1. CASE o = 0
    BY <2>1 DEF calculateAverage
  <2>2. CASE o # 0 /\ t = 0
    <3>1. 0 \div o = 0
      BY <2>2
    <3> QED BY <2>2, <3>1 DEF calculateAverage
  <2>3. CASE o # 0 /\ t # 0
    <3>1. Truncated(t, o) = t \div o
      BY <2>3 DEF Truncated
    <3> QED BY <2>3, <3>1 DEF calculateAverage
  <2> QED BY <2>1, <2>2, <2>3
<1>4. c.time - p.time \in Nat /\ c.ops - p.ops \in Nat
  BY <1>1, <1>2
<1>5. calculateAverage(c.time - p.time, c.ops - p.ops) =
        IF c.ops - p.ops = 0 THEN 0 ELSE (c.time - p.time) \div (c.ops - p.ops)
  BY <1>3, <1>4, Zenon
<1> QED BY <1>5, Zenon DEF averageResponseTime

(* An operation makes counters later that were. *)
LEMMA CountedOnce ==
    ASSUME NEW m \in Nat, NEW k \in Nat, m <= k, NEW c \in Counted, NEW d \in Counted,
           d.ops = c.ops + 1, d.time = c.time + (k + 1)
    PROVE  /\ c.time >= c.ops * m => d.time >= d.ops * m
           /\ c.time <= c.ops * k => d.time <= d.ops * (k + 1)
<1>1. /\ c.ops \in Nat /\ c.time \in Nat /\ d.ops \in Nat /\ d.time \in Nat
  BY DEF Counted
<1>2. /\ d.ops * m = c.ops * m + m /\ c.ops * m \in Nat
  BY <1>1
<1>3. /\ d.ops * (k + 1) = c.ops * k + c.ops + (k + 1) /\ c.ops * k \in Nat
  BY <1>1
<1> QED BY <1>1, <1>2, <1>3

(* The property, collection by collection. *)
LEMMA EachCollection ==
    AveragesAreOfTheInterval <=>
      \A g \in HMGenerations :
          hmAt[g] = "local" => OfTheInterval(readings[g], instanceProperties[g].disks, gathered[g].metrics)
  BY Zenon DEF AveragesAreOfTheInterval, OfTheInterval

--------------------------------------------------------------------------------
(* What is gathered for the disks: one value of each metric. *)
LEMMA DiskMetricsOnce ==
    ASSUME DisksInv, NEW g \in HMGenerations, NEW stats
    PROVE  OneValue(DiskMetrics(g, stats)) /\ Named(DiskMetrics(g, stats), DeviceMetrics)
<1> DEFINE disks == instanceProperties[g].disks
           Or(v, x) == IF v \in stats THEN x ELSE Unavailable
           value(i, name) ==
             IF name = "Volume ID" THEN Text(disks[i].name)
             ELSE IF name = "Mapping" THEN Text(disks[i].mapping)
             ELSE IF name = "Volume Read Response Time" THEN Or(disks[i].mapping, averageReadResponseTime(g, disks[i].mapping))
             ELSE Or(disks[i].mapping, averageWriteResponseTime(g, disks[i].mapping))
<1>1. \A m \in DiskMetrics(g, stats) :
         \E i \in DOMAIN disks : \E name \in DeviceMetrics : m = Metric(name, disks[i].name, value(i, name))
  <2> SUFFICES ASSUME NEW m \in DiskMetrics(g, stats)
               PROVE  \E i \in DOMAIN disks : \E name \in DeviceMetrics : m = Metric(name, disks[i].name, value(i, name))
    OBVIOUS
  <2>1. PICK i \in DOMAIN disks :
          \/ m = Metric("Volume ID", disks[i].name, Text(disks[i].name))
          \/ m = Metric("Mapping", disks[i].name, Text(disks[i].mapping))
          \/ m = Metric("Volume Read Response Time", disks[i].name, Or(disks[i].mapping, averageReadResponseTime(g, disks[i].mapping)))
          \/ m = Metric("Volume Write Response Time", disks[i].name, Or(disks[i].mapping, averageWriteResponseTime(g, disks[i].mapping)))
    BY Zenon DEF DiskMetrics
  <2>2. /\ value(i, "Volume ID") = Text(disks[i].name)
        /\ value(i, "Mapping") = Text(disks[i].mapping)
        /\ value(i, "Volume Read Response Time") = Or(disks[i].mapping, averageReadResponseTime(g, disks[i].mapping))
        /\ value(i, "Volume Write Response Time") = Or(disks[i].mapping, averageWriteResponseTime(g, disks[i].mapping))
    OBVIOUS
  <2>3. {"Volume ID", "Mapping", "Volume Read Response Time", "Volume Write Response Time"} \subseteq DeviceMetrics
    BY DEF DeviceMetrics
  <2> HIDE DEF value
  <2> QED BY <2>1, <2>2, <2>3, Zenon
<1>2. \A i, j \in DOMAIN disks : disks[i].name = disks[j].name => i = j
  BY Zenon DEF DisksInv
<1> HIDE DEF disks, value
<1>3. OneValue(DiskMetrics(g, stats))
  <2> SUFFICES ASSUME NEW m \in DiskMetrics(g, stats), NEW n \in DiskMetrics(g, stats), m.name = n.name, m.id = n.id
               PROVE  m = n
    BY DEF OneValue
  <2>1. PICK i \in DOMAIN disks : \E name \in DeviceMetrics : m = Metric(name, disks[i].name, value(i, name))
    BY <1>1
  <2>2. PICK a \in DeviceMetrics : m = Metric(a, disks[i].name, value(i, a))
    BY <2>1
  <2>3. PICK j \in DOMAIN disks : \E name \in DeviceMetrics : n = Metric(name, disks[j].name, value(j, name))
    BY <1>1
  <2>4. PICK b \in DeviceMetrics : n = Metric(b, disks[j].name, value(j, b))
    BY <2>3
  <2>5. m.name = a /\ m.id = disks[i].name /\ n.name = b /\ n.id = disks[j].name
    BY <2>2, <2>4, MetricFields
  <2>6. i = j /\ a = b
    BY <1>2, <2>5, Zenon
  <2> QED BY <2>2, <2>4, <2>6, Zenon
<1>4. Named(DiskMetrics(g, stats), DeviceMetrics)
  <2> SUFFICES ASSUME NEW m \in DiskMetrics(g, stats) PROVE m.name \in DeviceMetrics
    BY DEF Named
  <2>1. PICK i \in DOMAIN disks : \E name \in DeviceMetrics : m = Metric(name, disks[i].name, value(i, name))
    BY <1>1
  <2>2. PICK a \in DeviceMetrics : m = Metric(a, disks[i].name, value(i, a))
    BY <2>1
  <2> QED BY <2>2, MetricFields
<1> QED BY <1>3, <1>4

(* The two times that are gathered for a disk. *)
LEMMA TimesGathered ==
    ASSUME DisksInv, NEW g \in HMGenerations, NEW stats, NEW i \in DOMAIN instanceProperties[g].disks, NEW r \in Directions
    PROVE  ValueOf(DiskMetrics(g, stats), IF r = "Read" THEN "Volume Read Response Time" ELSE "Volume Write Response Time",
                   instanceProperties[g].disks[i].name)
             = {IF instanceProperties[g].disks[i].mapping \in stats
                  THEN Since(g, instanceProperties[g].disks[i].mapping, r) ELSE Unavailable}
<1> DEFINE disk == instanceProperties[g].disks[i]
           value == IF disk.mapping \in stats THEN Since(g, disk.mapping, r) ELSE Unavailable
           name == IF r = "Read" THEN "Volume Read Response Time" ELSE "Volume Write Response Time"
<1>1. r = "Read" \/ (r = "Write" /\ r # "Read")
  BY DEF Directions
<1> DEFINE Of(k) ==
             LET d == instanceProperties[g].disks[k]
                 v == d.mapping
                 Or(x) == IF v \in stats THEN x ELSE Unavailable
             IN {Metric("Volume ID", d.name, Text(d.name)), Metric("Mapping", d.name, Text(v)),
                 Metric("Volume Read Response Time", d.name, Or(averageReadResponseTime(g, v))),
                 Metric("Volume Write Response Time", d.name, Or(averageWriteResponseTime(g, v)))}
<1>a. DiskMetrics(g, stats) = UNION {Of(k) : k \in DOMAIN instanceProperties[g].disks}
  BY DEF DiskMetrics
<1>b. Of(i) \subseteq DiskMetrics(g, stats)
  <2> HIDE DEF Of
  <2> QED BY <1>a
<1>2. /\ Metric("Volume Read Response Time", disk.name,
                IF disk.mapping \in stats THEN averageReadResponseTime(g, disk.mapping) ELSE Unavailable) \in DiskMetrics(g, stats)
      /\ Metric("Volume Write Response Time", disk.name,
                IF disk.mapping \in stats THEN averageWriteResponseTime(g, disk.mapping) ELSE Unavailable) \in DiskMetrics(g, stats)
  BY <1>b, Zenon
<1>3. Metric(name, disk.name, value) \in DiskMetrics(g, stats)
  <2>1. CASE r = "Read"
    <3>1. Metric("Volume Read Response Time", disk.name,
                IF disk.mapping \in stats THEN Since(g, disk.mapping, "Read") ELSE Unavailable) \in DiskMetrics(g, stats)
      BY <1>2, Zenon DEF averageReadResponseTime
    <3> QED BY <2>1, <3>1, Zenon
  <2>2. CASE r = "Write" /\ r # "Read"
    <3>1. Metric("Volume Write Response Time", disk.name,
                IF disk.mapping \in stats THEN Since(g, disk.mapping, "Write") ELSE Unavailable) \in DiskMetrics(g, stats)
      BY <1>2, Zenon DEF averageWriteResponseTime
    <3> QED BY <2>2, <3>1, Zenon
  <2> QED BY <1>1, <2>1, <2>2
<1> HIDE DEF name, value
<1>4. ValueOf(DiskMetrics(g, stats), name, disk.name) = {value}
  BY <1>3, DiskMetricsOnce, TheValue, Zenon
<1> QED BY <1>4, Zenon DEF name, value

(* The averages of a collection are of the time between two readings. *)
LEMMA ReadingsInterval ==
    ASSUME DisksInv, ReadingsInv, NEW g \in HMGenerations, NEW ok \in BOOLEAN
    PROVE  OfTheInterval([prev |-> readings[g].now, now |-> Reading(g, ok)], instanceProperties[g].disks,
                         DiskMetrics(g, IF ok THEN parseDiskStats(g) ELSE {}))
<1> DEFINE stats == IF ok THEN parseDiskStats(g) ELSE {}
           reading == [prev |-> readings[g].now, now |-> Reading(g, ok)]
           was == readings[g].now
<1>1. /\ reading.prev = was /\ reading.now.ok = ok /\ reading.now.mapped = parseDiskStats(g) /\ reading.now.counters = counters
  BY DEF Reading
<1>2. parseDiskStats(g) \subseteq Devices
  BY DEF parseDiskStats
<1> HIDE DEF reading, was
<1> SUFFICES OfTheInterval(reading, instanceProperties[g].disks, DiskMetrics(g, stats))
  BY DEF reading, was
<1> SUFFICES ASSUME NEW i \in DOMAIN instanceProperties[g].disks, NEW r \in Directions
             PROVE  LET v == instanceProperties[g].disks[i].mapping
                        name == IF r = "Read" THEN "Volume Read Response Time" ELSE "Volume Write Response Time"
                        gatheredValue == ValueOf(DiskMetrics(g, stats), name, instanceProperties[g].disks[i].name)
                    IN IF reading.now.ok /\ reading.prev.ok /\ v \in reading.now.mapped \cap reading.prev.mapped
                         THEN reading.now.attached[v] = reading.prev.attached[v]
                                /\ reading.now.counters[v][r].ops >= reading.prev.counters[v][r].ops =>
                                LET ops == reading.now.counters[v][r].ops - reading.prev.counters[v][r].ops
                                    time == reading.now.counters[v][r].time - reading.prev.counters[v][r].time
                                IN gatheredValue = {Number(IF ops = 0 THEN 0 ELSE time \div ops)}
                         ELSE gatheredValue = {Unavailable}
  BY Zenon DEF OfTheInterval
<1> DEFINE v == instanceProperties[g].disks[i].mapping
           gatheredValue == ValueOf(DiskMetrics(g, stats), IF r = "Read" THEN "Volume Read Response Time" ELSE "Volume Write Response Time",
                                    instanceProperties[g].disks[i].name)
<1>3. gatheredValue = {IF v \in stats THEN Since(g, v, r) ELSE Unavailable}
  BY TimesGathered, Zenon
<1> HIDE DEF gatheredValue, v
<1>4. ASSUME ok, was.ok, v \in parseDiskStats(g), v \in was.mapped, counters[v][r].ops >= was.counters[v][r].ops
      PROVE  gatheredValue = {Number(IF counters[v][r].ops - was.counters[v][r].ops = 0 THEN 0
                                     ELSE (counters[v][r].time - was.counters[v][r].time)
                                            \div (counters[v][r].ops - was.counters[v][r].ops))}
  <2>1. /\ v \in DOMAIN prevDiskStats[g] /\ prevDiskStats[g][v] = was.counters[v] /\ v \in Devices
        /\ was.counters[v][r] \in Counted /\ counters[v][r] \in Counted
        /\ ReadLater(was.counters[v][r], counters[v][r])
    BY <1>4 DEF ReadingsInv, was
  <2>2. v \in stats
    BY <1>4
  <2>3. gatheredValue = {averageResponseTime(was.counters[v][r], counters[v][r])}
    BY <1>3, <2>1, <2>2, Zenon DEF Since
  <2> HIDE DEF stats
  <2>4. averageResponseTime(was.counters[v][r], counters[v][r]) =
             Number(IF counters[v][r].ops - was.counters[v][r].ops = 0 THEN 0
                    ELSE (counters[v][r].time - was.counters[v][r].time) \div (counters[v][r].ops - was.counters[v][r].ops))
    BY <1>4, <2>1, AverageOfOperations, Zenon
  <2> QED BY <2>3, <2>4, Zenon
<1>5. ASSUME ~(ok /\ was.ok /\ v \in parseDiskStats(g) /\ v \in was.mapped)
      PROVE  gatheredValue = {Unavailable}
  <2>1. CASE v \notin stats
    BY <1>3, <2>1, Zenon
  <2>2. CASE v \in stats
    <3>1. ok /\ v \in parseDiskStats(g)
      BY <2>2
    <3>2. v \notin DOMAIN prevDiskStats[g]
      BY <1>5, <3>1 DEF ReadingsInv, was
    <3> QED BY <1>3, <2>2, <3>2, Zenon DEF Since
  <2> QED BY <2>1, <2>2
<1> QED
  BY <1>1, <1>4, <1>5, Zenon DEF gatheredValue, v

(* What is gathered of the machine: one value of each metric. *)
LEMMA LocalMetricsOnce ==
    ASSUME NEW g, NEW mem \in BOOLEAN, NEW cpus
    PROVE  LET local == memoryMetrics(mem) \cup networkMetrics(g, cpus) \cup cpuMetrics(g, cpus) \cup configMetrics(g, cpus)
           IN OneValue(local) /\ Named(local, LocalMetrics)
<1> DEFINE local == memoryMetrics(mem) \cup networkMetrics(g, cpus) \cup cpuMetrics(g, cpus) \cup configMetrics(g, cpus)
           used == IF mem THEN Text("used of total") ELSE Number(0)
           type == IF instanceProperties[g].platform THEN "type" ELSE ""
           value(name) ==
             IF name = "Memory Consumption" THEN used
             ELSE IF name = "Guaranteed VM Processing Power" THEN Number(cpus)
             ELSE IF name = "Processor Type" THEN Text("platform")
             ELSE IF name = "Current Network Bandwidth" THEN Number(cpus * 2 * 1000)
             ELSE IF name = "Instance Type" THEN (IF bareMetal THEN Number(cpus) ELSE Text(type))
             ELSE IF name = "Hardware Model" THEN (IF bareMetal THEN Text("Google Cloud Bare Metal") ELSE Text("Google"))
             ELSE Text("Google Cloud Platform")
<1>1. \A m \in local : \E name \in LocalMetrics : \E id : m = Metric(name, id, value(name))
  <2> SUFFICES ASSUME NEW m \in local PROVE \E name \in LocalMetrics : \E id : m = Metric(name, id, value(name))
    BY Zenon
  <2>1. /\ value("Memory Consumption") = used
        /\ value("Guaranteed VM Processing Power") = Number(cpus)
        /\ value("Processor Type") = Text("platform")
        /\ value("Current Network Bandwidth") = Number(cpus * 2 * 1000)
        /\ value("Cloud Provider") = Text("Google Cloud Platform")
    <3>1. value("Memory Consumption") = used
      BY Zenon
    <3>2. value("Guaranteed VM Processing Power") = Number(cpus)
      BY Zenon
    <3>3. value("Processor Type") = Text("platform")
      BY Zenon
    <3>4. value("Current Network Bandwidth") = Number(cpus * 2 * 1000)
      BY Zenon
    <3>5. value("Cloud Provider") = Text("Google Cloud Platform")
      BY Zenon
    <3> HIDE DEF value
    <3> QED BY <3>1, <3>2, <3>3, <3>4, <3>5, Zenon
  <2>2. /\ value("Instance Type") = (IF bareMetal THEN Number(cpus) ELSE Text(type))
        /\ value("Hardware Model") = (IF bareMetal THEN Text("Google Cloud Bare Metal") ELSE Text("Google"))
    BY Zenon
  <2> HIDE DEF value
  <2>7. /\ "Memory Consumption" \in LocalMetrics /\ "Guaranteed VM Processing Power" \in LocalMetrics
        /\ "Processor Type" \in LocalMetrics /\ "Cloud Provider" \in LocalMetrics
        /\ "Instance Type" \in LocalMetrics /\ "Hardware Model" \in LocalMetrics
    BY DEF LocalMetrics
  <2>3. CASE m \in memoryMetrics(mem)
    <3>1. m = Metric("Memory Consumption", "", value("Memory Consumption"))
      BY <2>1, <2>3, Zenon DEF memoryMetrics
    <3> QED BY <2>7, <3>1, Zenon
  <2>4. CASE m \in networkMetrics(g, cpus)
    <3>1. PICK a \in Adapters : m = Metric("Current Network Bandwidth", a, Number(cpus * 2 * 1000))
      BY <2>4, Zenon DEF networkMetrics
    <3>2. m = Metric("Current Network Bandwidth", a, value("Current Network Bandwidth"))
      BY <2>1, <3>1, ZenonT(60)
    <3>3. "Current Network Bandwidth" \in LocalMetrics
      BY DEF LocalMetrics
    <3> QED BY <3>2, <3>3, Zenon
  <2>5. CASE m \in cpuMetrics(g, cpus)
    <3>1. \/ m = Metric("Guaranteed VM Processing Power", "", Number(cpus))
          \/ m = Metric("Processor Type", "", Text("platform"))
      BY <2>5, Zenon DEF cpuMetrics
    <3>2. \/ m = Metric("Guaranteed VM Processing Power", "", value("Guaranteed VM Processing Power"))
          \/ m = Metric("Processor Type", "", value("Processor Type"))
      BY <2>1, <3>1, Zenon
    <3> QED BY <2>7, <3>2, Zenon
  <2>6. CASE m \in configMetrics(g, cpus)
    <3>1. CASE bareMetal
      <4>1. \/ m = Metric("Cloud Provider", "", Text("Google Cloud Platform"))
            \/ m = Metric("Instance Type", "", Number(cpus))
            \/ m = Metric("Hardware Model", "", Text("Google Cloud Bare Metal"))
        BY <2>6, <3>1, Zenon DEF configMetrics, bareMetalMetrics
      <4>2. value("Instance Type") = Number(cpus) /\ value("Hardware Model") = Text("Google Cloud Bare Metal")
        BY <2>2, <3>1, Zenon
      <4>3. \/ m = Metric("Cloud Provider", "", value("Cloud Provider"))
            \/ m = Metric("Instance Type", "", value("Instance Type"))
            \/ m = Metric("Hardware Model", "", value("Hardware Model"))
        BY <2>1, <4>1, <4>2, Zenon
      <4> QED BY <2>7, <4>3, Zenon
    <3>2. CASE ~bareMetal
      <4>1. \/ m = Metric("Cloud Provider", "", Text("Google Cloud Platform"))
            \/ m = Metric("Instance Type", "", Text(type))
            \/ m = Metric("Hardware Model", "", Text("Google"))
        BY <2>6, <3>2, Zenon DEF configMetrics
      <4>2. value("Instance Type") = Text(type) /\ value("Hardware Model") = Text("Google")
        BY <2>2, <3>2, Zenon
      <4>3. \/ m = Metric("Cloud Provider", "", value("Cloud Provider"))
            \/ m = Metric("Instance Type", "", value("Instance Type"))
            \/ m = Metric("Hardware Model", "", value("Hardware Model"))
        BY <2>1, <4>1, <4>2, Zenon
      <4> QED BY <2>7, <4>3, Zenon
    <3> QED BY <3>1, <3>2
  <2> QED BY <2>3, <2>4, <2>5, <2>6
<1> HIDE DEF value
<1>3. ASSUME NEW m \in local PROVE \E name \in LocalMetrics : m = Metric(name, m.id, value(name)) /\ m.name = name
  <2>1. PICK name \in LocalMetrics : \E id : m = Metric(name, id, value(name))
    BY <1>1
  <2>0. PICK id : m = Metric(name, id, value(name))
    BY <2>1
  <2>2. m.name = name /\ m.id = id
    BY <2>0, MetricFields
  <2> QED BY <2>0, <2>2
<1>4. OneValue(local)
  BY <1>3, Zenon DEF OneValue
<1>5. Named(local, LocalMetrics)
  BY <1>3, Zenon DEF Named
<1> QED BY <1>4, <1>5

(* What is queried for a disk: one value of each metric, and of answers that have all
   disks in their order or none of them the disk's own. *)
LEMMA CloudDiskMetricsOnce ==
    ASSUME DisksInv, NEW g \in HMGenerations, NEW answer
    PROVE  LET metrics == CloudDiskMetrics(g, answer)
           IN /\ OneValue(metrics)
              /\ Named(metrics, {"Volume Read Throughput", "Volume Read Ops", "Volume Utilization", "Guaranteed Throughput"})
              /\ (\A p \in DiskQueries : answer[p] \in {<<>>, DiskNames(g)}) => OwnValues(metrics)
<1> DEFINE metrics == CloudDiskMetrics(g, answer)
           queried == {"Volume Read Throughput", "Volume Read Ops", "Volume Utilization", "Guaranteed Throughput"}
           names == DiskNames(g)
           disks == instanceProperties[g].disks
           Of(q, i) == parseTimeSeriesDataByDisk(names, answer[q], i)
           valueOf(i, name) ==
             IF name = "Volume Read Throughput" THEN Of("delta", i)
             ELSE IF name = "Volume Read Ops" THEN Of("delta", i)
             ELSE IF name = "Volume Utilization" THEN VolumeUtilization(Of("rate", i), Of("max", i))
             ELSE Number(1)
<1>0. /\ DOMAIN names = DOMAIN disks
      /\ \A i \in DOMAIN disks : names[i] = disks[i].name
      /\ \A i, j \in DOMAIN names : names[i] = names[j] => i = j
  <2>1. DOMAIN names = DOMAIN disks /\ \A i \in DOMAIN disks : names[i] = disks[i].name
    BY Zenon DEF DiskNames
  <2> QED BY <2>1, Zenon DEF DisksInv
<1>1. sapMetrics["delta"] = {"Volume Read Throughput", "Volume Read Ops"}
  BY Zenon DEF sapMetrics, DiskQueries
<1>2. \A m \in metrics : \E i \in DOMAIN names : \E name \in queried : m = Metric(name, names[i], valueOf(i, name))
  <2> SUFFICES ASSUME NEW m \in metrics
               PROVE  \E i \in DOMAIN names : \E name \in queried : m = Metric(name, names[i], valueOf(i, name))
    OBVIOUS
  <2>1. PICK i \in DOMAIN names :
          \/ \E n \in sapMetrics["delta"] : m = Metric(n, names[i], Of("delta", i))
          \/ m = Metric("Volume Utilization", names[i], VolumeUtilization(Of("rate", i), Of("max", i)))
          \/ m = Metric("Guaranteed Throughput", names[i], Number(1))
    <3> HIDE DEF names
    <3> QED BY Zenon DEF CloudDiskMetrics, names
  <2>2. /\ valueOf(i, "Volume Read Throughput") = Of("delta", i)
        /\ valueOf(i, "Volume Read Ops") = Of("delta", i)
        /\ valueOf(i, "Volume Utilization") = VolumeUtilization(Of("rate", i), Of("max", i))
        /\ valueOf(i, "Guaranteed Throughput") = Number(1)
    BY Zenon
  <2> HIDE DEF valueOf
  <2> QED BY <1>1, <2>1, <2>2, Zenon
<1>3. /\ \A i : valueOf(i, "Volume Read Throughput") = Of("delta", i)
      /\ \A i : valueOf(i, "Volume Read Ops") = Of("delta", i)
      /\ \A i : valueOf(i, "Volume Utilization") = VolumeUtilization(Of("rate", i), Of("max", i))
  BY Zenon
<1> HIDE DEF valueOf, metrics, names, Of, queried, disks
<1>4. ASSUME NEW m \in metrics
      PROVE  \E i \in DOMAIN names : m = Metric(m.name, names[i], valueOf(i, m.name)) /\ m.name \in queried /\ m.id = names[i]
                                     /\ m.value = valueOf(i, m.name)
  <2>1. PICK i \in DOMAIN names : \E name \in queried : m = Metric(name, names[i], valueOf(i, name))
    BY <1>2
  <2>2. PICK a \in queried : m = Metric(a, names[i], valueOf(i, a))
    BY <2>1
  <2>3. m.name = a /\ m.id = names[i] /\ m.value = valueOf(i, a)
    BY <2>2, MetricFields
  <2> QED BY <2>2, <2>3
<1>5. OneValue(metrics)
  <2> SUFFICES ASSUME NEW m \in metrics, NEW n \in metrics, m.name = n.name, m.id = n.id PROVE m = n
    BY DEF OneValue
  <2>1. PICK i \in DOMAIN names : m = Metric(m.name, names[i], valueOf(i, m.name)) /\ m.id = names[i]
    BY <1>4
  <2>2. PICK j \in DOMAIN names : n = Metric(n.name, names[j], valueOf(j, n.name)) /\ n.id = names[j]
    BY <1>4
  <2>3. i = j
    BY <1>0, <2>1, <2>2, Zenon
  <2> QED BY <2>1, <2>2, <2>3, Zenon
<1>6. Named(metrics, queried)
  BY <1>4, Zenon DEF Named
<1>7. ASSUME \A p \in DiskQueries : answer[p] \in {<<>>, names} PROVE OwnValues(metrics)
  <2>1. PICK k \in Nat : DOMAIN names = 1..k
    BY <1>0, Zenon DEF DisksInv, disks
  <2>2. ASSUME NEW i \in DOMAIN names, NEW p \in DiskQueries PROVE Of(p, i) \in {Text(names[i]), Unavailable}
    <3>1. i \in Nat /\ i > 0
      BY <2>1
    <3>2. CASE answer[p] = <<>>
      <4>1. ~(i <= Len(answer[p]))
        BY <3>1, <3>2
      <4> QED BY <4>1, Zenon DEF parseTimeSeriesDataByDisk, Of
    <3>3. CASE answer[p] = names
      BY <3>3, Zenon DEF parseTimeSeriesDataByDisk, Of
    <3> QED BY <1>7, <3>2, <3>3
  <2>3. {"delta", "rate", "max"} \subseteq DiskQueries
    BY DEF DiskQueries
  <2> SUFFICES ASSUME NEW m \in metrics, m.name \in sapMetrics["delta"] \cup {"Volume Utilization"}
               PROVE  m.value \in {Text(m.id), Unavailable, Number(0), <<"of", Text(m.id), Text(m.id)>>}
    BY DEF OwnValues
  <2>4. PICK i \in DOMAIN names : m.id = names[i] /\ m.value = valueOf(i, m.name)
    BY <1>4
  <2>5. CASE m.name \in {"Volume Read Throughput", "Volume Read Ops"}
    <3>1. m.value = Of("delta", i)
      BY <1>3, <2>4, <2>5, Zenon
    <3>2. m.value \in {Text(m.id), Unavailable}
      BY <2>2, <2>3, <2>4, <3>1, Zenon
    <3> QED BY <3>2, Zenon
  <2>6. CASE m.name = "Volume Utilization"
    <3>1. m.value = VolumeUtilization(Of("rate", i), Of("max", i))
      BY <1>3, <2>4, <2>6, Zenon
    <3>2. Of("rate", i) \in {Text(m.id), Unavailable} /\ Of("max", i) \in {Text(m.id), Unavailable}
      BY <2>2, <2>3, <2>4, Zenon
    <3>3. CASE Unavailable \in {Of("rate", i), Of("max", i)}
      BY <3>1, <3>3, Zenon DEF VolumeUtilization
    <3>4. CASE Unavailable \notin {Of("rate", i), Of("max", i)}
      <4>1. Of("rate", i) = Text(m.id) /\ Of("max", i) = Text(m.id)
        BY <3>2, <3>4, Zenon
      <4>2. m.value = <<"of", Text(m.id), Text(m.id)>>
        BY <3>1, <3>4, <4>1, Zenon DEF VolumeUtilization
      <4> QED BY <4>2, Zenon
    <3> QED BY <3>3, <3>4
  <2> QED BY <1>1, <2>5, <2>6
<1> QED BY <1>5, <1>6, <1>7, Zenon DEF metrics, names, queried

(* All that the queries add. *)
LEMMA CloudMetricsOnce ==
    ASSUME DisksInv, NEW g \in HMGenerations, NEW answer, NEW data \in BOOLEAN
    PROVE  LET metrics == PassthroughMetrics(data) \cup CloudNetworkMetrics(g, data) \cup CloudDiskMetrics(g, answer)
           IN /\ OneValue(metrics) /\ Named(metrics, CloudMetrics)
              /\ (\A p \in DiskQueries : answer[p] \in {<<>>, DiskNames(g)}) => OwnValues(metrics)
<1> DEFINE queried == {"Volume Read Throughput", "Volume Read Ops", "Volume Utilization", "Guaranteed Throughput"}
           others == PassthroughMetrics(data) \cup CloudNetworkMetrics(g, data)
           disk == CloudDiskMetrics(g, answer)
           x == parseTimeSeriesData(data)
           plain == {"VM Processing Power Consumption", "Network Read Throughput"}
           places == Adapters \cup {""}
<1>1. \A m \in others : \E a \in plain, b \in places : m = Metric(a, b, x)
  BY Zenon DEF PassthroughMetrics, CloudNetworkMetrics
<1>2. \A m \in others : m = Metric(m.name, m.id, x) /\ m.name \in plain
  <2> SUFFICES ASSUME NEW m \in others
               PROVE  m = Metric(m.name, m.id, x) /\ m.name \in plain
    OBVIOUS
  <2> HIDE DEF others, x, disk, queried, plain, places
  <2>1. PICK a \in plain : \E b \in places : m = Metric(a, b, x)
    BY <1>1
  <2>2. PICK b \in places : m = Metric(a, b, x)
    BY <2>1
  <2>3. m.name = a /\ m.id = b
    BY <2>2, MetricFields
  <2> QED BY <2>1, <2>2, <2>3
<1>3. OneValue(others)
  BY <1>2, Zenon DEF OneValue
<1>4. Named(others, plain)
  BY <1>2, Zenon DEF Named
<1>5. /\ OneValue(disk) /\ Named(disk, queried)
      /\ (\A p \in DiskQueries : answer[p] \in {<<>>, DiskNames(g)}) => OwnValues(disk)
  BY CloudDiskMetricsOnce, Zenon
<1>6. plain \cap queried = {}
  OBVIOUS
<1>7. plain \cup queried \subseteq CloudMetrics
  BY DEF CloudMetrics
<1>8. sapMetrics["delta"] = {"Volume Read Throughput", "Volume Read Ops"}
  BY Zenon DEF sapMetrics, DiskQueries
<1> HIDE DEF others, disk, queried, plain
<1>9. OneValue(others \cup disk) /\ Named(others \cup disk, plain \cup queried)
  BY <1>3, <1>4, <1>5, <1>6, OneValueTogether
<1>10. Named(others \cup disk, CloudMetrics)
  BY <1>7, <1>9, Zenon DEF Named
<1>11. OwnValues(disk) => OwnValues(others \cup disk)
  BY <1>4, <1>8, Zenon DEF OwnValues, Named, plain
<1> QED BY <1>5, <1>9, <1>10, <1>11, Zenon DEF others, disk

--------------------------------------------------------------------------------
(* A collector that goes on, but for the assignment of the document. *)
LEMMA DocumentWhileGoing ==
    ASSUME DocumentInv, NEW g \in HMGenerations, NEW where \in HMPlaces \ {"length"}, HMTo(g, where),
           hmAt[g] \notin {"not started", "length"}, UNCHANGED <<hmGen, metricsXML>>,
           DOMAIN gathered' = HMGenerations, \A h \in HMGenerations : DOMAIN gathered'[h] = {"id", "metrics", "inOrder"},
           \A h \in HMGenerations : h # g => gathered'[h] = gathered[h],
           where \in Collecting => gathered'[g].id[1] = g
    PROVE  DocumentInv'
<1>1. /\ hmAt' \in [HMGenerations -> HMPlaces] /\ hmAt'[g] = where
      /\ \A h \in HMGenerations : h # g => hmAt'[h] = hmAt[h]
  <2>1. hmAt \in [HMGenerations -> HMPlaces]
    BY DEF DocumentInv
  <2> QED BY <2>1 DEF HMTo
<1>2. \A h \in HMGenerations : h > hmGen => hmAt'[h] = "not started"
  BY <1>1, Zenon DEF DocumentInv
<1>3. \A h \in HMGenerations : hmAt'[h] = "length" => hmAt[h] = "length" /\ gathered'[h] = gathered[h]
  BY <1>1, Zenon
<1>4. \A h \in HMGenerations : hmAt'[h] \in Collecting => gathered'[h].id[1] = h
  BY <1>1, Zenon DEF DocumentInv
<1>5. \A h \in HMGenerations : hmAt'[h] = "length" => metricsXML'.text = gathered'[h].id \/ metricsXML'.text[1] # h
  BY <1>3, Zenon DEF DocumentInv
<1>6. WholeDocument'
  <2>1. \A h \in HMGenerations : hmAt[h] = "length" => hmAt'[h] = "length"
    BY <1>1, Zenon
  <2> QED BY <2>1, Zenon DEF DocumentInv, WholeDocument
<1> QED BY <1>1, <1>2, <1>4, <1>5, <1>6, Zenon DEF DocumentInv

(* One collection changes, and what it has gathered is as its place says. *)
LEMMA GatheredByOne ==
    ASSUME GatheredInv, NEW g \in HMGenerations, GatheredAt(hmAt'[g], gathered'[g]),
           \A h \in HMGenerations : h # g => hmAt'[h] = hmAt[h] /\ gathered'[h] = gathered[h]
    PROVE  GatheredInv'
  BY Zenon DEF GatheredInv

(* The averages of the other collections stay. *)
LEMMA AveragesStay ==
    ASSUME AveragesAreOfTheInterval,
           \A g \in HMGenerations : hmAt'[g] = "local" =>
               /\ hmAt[g] = "local" /\ readings'[g] = readings[g] /\ gathered'[g] = gathered[g]
               /\ instanceProperties'[g] = instanceProperties[g]
    PROVE  AveragesAreOfTheInterval'
<1>1. \A g \in HMGenerations :
          hmAt[g] = "local" => OfTheInterval(readings[g], instanceProperties[g].disks, gathered[g].metrics)
  BY EachCollection
<1>2. \A g \in HMGenerations :
          hmAt'[g] = "local" => OfTheInterval(readings'[g], instanceProperties'[g].disks, gathered'[g].metrics)
  BY <1>1, Zenon
<1> QED BY <1>2, Zenon DEF AveragesAreOfTheInterval, OfTheInterval

(* No collector moves and the document stays. *)
LEMMA NothingWritten ==
    ASSUME UNCHANGED <<hmGen, hmAt, gathered, metricsXML>>
    PROVE  (DocumentInv => DocumentInv') /\ (GatheredInv => GatheredInv')
<1>1. WholeDocument => WholeDocument'
  BY Zenon DEF WholeDocument
<1>2. DocumentInv => DocumentInv'
  BY <1>1, Zenon DEF DocumentInv
<1>3. GatheredInv => GatheredInv'
  BY Zenon DEF GatheredInv
<1> QED BY <1>2, <1>3

(* What nothing has touched. *)
LEMMA DisksStay == DisksInv /\ UNCHANGED <<attached, instanceProperties>> => DisksInv'
  BY Zenon DEF DisksInv

(* A step that neither counts nor reads keeps what is known of the readings. *)
LEMMA ReadingsStay == ReadingsInv /\ UNCHANGED <<measured, counters, prevDiskStats, readings>> => ReadingsInv'
  BY DEF ReadingsInv, ReadLater

(* An empty collection has one value of each metric. *)
LEMMA NothingGathered == OneValue({}) /\ OwnValues({}) /\ \A names : Named({}, names)
  BY DEF OneValue, OwnValues, Named

(* The properties of New are of no disk. *)
LEMMA NothingKnown ==
    /\ \E n \in Nat : DOMAIN NotKnown.disks = 1..n
    /\ \A i, j \in DOMAIN NotKnown.disks : NotKnown.disks[i].name = NotKnown.disks[j].name => i = j
<1>1. DOMAIN NotKnown.disks = 1..0 /\ 0 \in Nat
  BY DEF NotKnown
<1> QED BY <1>1

(* What one collection knows of the instance is replaced. *)
LEMMA InstanceRead ==
    ASSUME DisksInv, UNCHANGED attached, NEW g \in HMGenerations, NEW p,
           instanceProperties' = [instanceProperties EXCEPT ![g] = p],
           \E n \in Nat : DOMAIN p.disks = 1..n,
           \A i, j \in DOMAIN p.disks : p.disks[i].name = p.disks[j].name => i = j
    PROVE  DisksInv' /\ \A h \in HMGenerations : h # g => instanceProperties'[h] = instanceProperties[h]
<1>1. /\ DOMAIN instanceProperties' = HMGenerations /\ instanceProperties'[g] = p
      /\ \A h \in HMGenerations : h # g => instanceProperties'[h] = instanceProperties[h]
  BY Zenon DEF DisksInv
<1>2. attached' \in [Devices -> HMDisks \cup {NoDisk}] /\ \A v, w \in Devices : attached'[v] = attached'[w] => v = w
  BY DEF DisksInv
<1>3. ASSUME NEW h \in HMGenerations
      PROVE  /\ \E n \in Nat : DOMAIN instanceProperties'[h].disks = 1..n
             /\ \A i, j \in DOMAIN instanceProperties'[h].disks :
                  instanceProperties'[h].disks[i].name = instanceProperties'[h].disks[j].name => i = j
  <2>1. CASE h = g
    BY <1>1, <2>1
  <2>2. CASE h # g
    <3>1. instanceProperties'[h] = instanceProperties[h]
      BY <1>1, <2>2
    <3>2. /\ \E n \in Nat : DOMAIN instanceProperties[h].disks = 1..n
          /\ \A i, j \in DOMAIN instanceProperties[h].disks :
               instanceProperties[h].disks[i].name = instanceProperties[h].disks[j].name => i = j
      BY DEF DisksInv
    <3> QED BY ONLY <3>1, <3>2
  <2> QED BY <2>1, <2>2
<1> QED BY <1>1, <1>2, <1>3, Zenon DEF DisksInv

(* The first place of every collection, and the last of a generation. *)
LEMMA TickKeeps == ASSUME HMInv, NEW g \in HMGenerations, HMTick(g) PROVE HMInv'
<1>1. /\ hmAt[g] \in {"idle", "start"} /\ HMTo(g, "info")
      /\ gathered' = [gathered EXCEPT ![g] = [Nothing EXCEPT !.id = <<g, hmCollections + 1>>]]
      /\ instanceProperties' = [instanceProperties EXCEPT ![g] = NotKnown]
      /\ UNCHANGED <<hmGen, metricsXML, attached, measured, counters, prevDiskStats, readings>>
  BY DEF HMTick, hmEnv
<1>2. hmAt'[g] = "info" /\ \A h \in HMGenerations : h # g => hmAt'[h] = hmAt[h]
  BY <1>1, PlaceMoved, Zenon DEF HMInv
<1>3. /\ DOMAIN gathered' = HMGenerations
      /\ gathered'[g] = [Nothing EXCEPT !.id = <<g, hmCollections + 1>>]
      /\ \A h \in HMGenerations : h # g => gathered'[h] = gathered[h]
  BY <1>1, Zenon DEF HMInv, DocumentInv
<1>4. DOMAIN gathered'[g] = {"id", "metrics", "inOrder"} /\ gathered'[g].metrics = {} /\ gathered'[g].id[1] = g
  BY <1>3 DEF Nothing
<1>5. DocumentInv'
  <2>1. \A h \in HMGenerations : DOMAIN gathered'[h] = {"id", "metrics", "inOrder"}
    BY <1>3, <1>4, Zenon DEF HMInv, DocumentInv
  <2>2. hmAt[g] \notin {"not started", "length"} /\ "info" \in HMPlaces \ {"length"}
    BY <1>1 DEF HMPlaces
  <2> QED BY <1>1, <1>3, <1>4, <2>1, <2>2, DocumentWhileGoing DEF HMInv
<1>6. GatheredInv'
  <2>1. GatheredAt(hmAt'[g], gathered'[g])
    BY <1>2, <1>4, NothingGathered, Zenon DEF GatheredAt
  <2> QED BY <1>2, <1>3, <2>1, GatheredByOne, Zenon DEF HMInv
<1>7. DisksInv' /\ \A h \in HMGenerations : h # g => instanceProperties'[h] = instanceProperties[h]
  BY <1>1, NothingKnown, InstanceRead, Zenon DEF HMInv
<1>8. AveragesAreOfTheInterval'
  <2>1. "info" # "local"
    OBVIOUS
  <2> QED BY <1>1, <1>2, <1>3, <1>7, <2>1, AveragesStay, Zenon DEF HMInv
<1> QED BY <1>1, <1>5, <1>6, <1>7, <1>8, ReadingsStay, Zenon DEF HMInv

(* A generation that is cancelled keeps what the others gathered. *)
LEMMA CancelledKeeps == ASSUME HMInv, NEW g \in HMGenerations, HMCancelled(g) PROVE HMInv'
<1>1. /\ hmAt[g] \in {"idle", "start"} /\ HMTo(g, "gone")
      /\ UNCHANGED <<hmGen, metricsXML, gathered, attached, instanceProperties, measured, counters, prevDiskStats, readings>>
  BY DEF HMCancelled, hmEnv
<1>2. hmAt'[g] = "gone" /\ \A h \in HMGenerations : h # g => hmAt'[h] = hmAt[h]
  BY <1>1, PlaceMoved, Zenon DEF HMInv
<1>3. hmAt[g] \in HMPlaces \ {"local", "cloud", "text", "length"} /\ "gone" \in HMPlaces \ {"local", "cloud", "text", "length"}
      /\ hmAt[g] \notin {"not started", "length"}
  BY <1>1 DEF HMPlaces
<1>5. DocumentInv'
  <2>1. DOMAIN gathered' = HMGenerations /\ \A h \in HMGenerations : DOMAIN gathered'[h] = {"id", "metrics", "inOrder"}
    BY <1>1, Zenon DEF HMInv, DocumentInv
  <2>2. "gone" \notin Collecting
    BY DEF Collecting
  <2> QED BY <1>1, <1>3, <2>1, <2>2, DocumentWhileGoing DEF HMInv
<1>6. GatheredInv'
  <2>1. GatheredAt(hmAt[g], gathered[g])
    BY DEF HMInv, GatheredInv
  <2>2. GatheredAt(hmAt'[g], gathered'[g])
    BY <1>1, <1>2, <1>3, <2>1 DEF GatheredAt
  <2> QED BY <1>1, <1>2, <2>2, GatheredByOne, Zenon DEF HMInv
<1>7. AveragesAreOfTheInterval'
  BY <1>1, <1>2, AveragesStay, Zenon DEF HMInv
<1> QED BY <1>1, <1>5, <1>6, <1>7, DisksStay, ReadingsStay, Zenon DEF HMInv

(* What the reader knows of the instance. *)
LEMMA InstanceKeeps == ASSUME HMInv, NEW g \in HMGenerations, ReadInstance(g) PROVE HMInv'
<1>1. /\ hmAt[g] = "info" /\ HMTo(g, "disks")
      /\ UNCHANGED <<hmGen, metricsXML, gathered, attached, measured, counters, prevDiskStats, readings>>
      /\ \/ UNCHANGED instanceProperties
         \/ \E linked, inPlatform : instanceProperties' = [instanceProperties EXCEPT ![g] = ReadDiskMapping(linked, inPlatform)]
  BY Zenon DEF ReadInstance, hmEnv
<1>2. hmAt'[g] = "disks" /\ \A h \in HMGenerations : h # g => hmAt'[h] = hmAt[h]
  BY <1>1, PlaceMoved, Zenon DEF HMInv
<1>3. hmAt[g] \in HMPlaces \ {"local", "cloud", "text", "length"} /\ "disks" \in HMPlaces \ {"local", "cloud", "text", "length"}
      /\ hmAt[g] \notin {"not started", "length"}
  BY <1>1 DEF HMPlaces
<1>4. DisksInv' /\ \A h \in HMGenerations : h # g => instanceProperties'[h] = instanceProperties[h]
  <2>1. CASE UNCHANGED instanceProperties
    BY <1>1, <2>1, DisksStay, Zenon DEF HMInv
  <2>2. ASSUME NEW linked, NEW inPlatform, instanceProperties' = [instanceProperties EXCEPT ![g] = ReadDiskMapping(linked, inPlatform)]
        PROVE  DisksInv' /\ \A h \in HMGenerations : h # g => instanceProperties'[h] = instanceProperties[h]
    <3>1. PICK p : p = ReadDiskMapping(linked, inPlatform)
      OBVIOUS
    <3>2. /\ \E n \in Nat : DOMAIN p.disks = 1..n
          /\ \A i, j \in DOMAIN p.disks : p.disks[i].name = p.disks[j].name => i = j
      BY <3>1, MappingIsOfDisks, MappingIsSequence, Zenon DEF HMInv
    <3> QED BY <1>1, <2>2, <3>1, <3>2, InstanceRead, Zenon DEF HMInv
  <2> QED BY <1>1, <2>1, <2>2
<1>5. DocumentInv'
  <2>1. DOMAIN gathered' = HMGenerations /\ \A h \in HMGenerations : DOMAIN gathered'[h] = {"id", "metrics", "inOrder"}
    BY <1>1, Zenon DEF HMInv, DocumentInv
  <2>2. gathered'[g].id[1] = g
    <3>1. "info" \in Collecting
      BY DEF Collecting
    <3> QED BY <1>1, <3>1, Zenon DEF HMInv, DocumentInv
  <2> QED BY <1>1, <1>3, <2>1, <2>2, DocumentWhileGoing DEF HMInv
<1>6. GatheredInv'
  <2>1. GatheredAt(hmAt[g], gathered[g])
    BY DEF HMInv, GatheredInv
  <2>2. GatheredAt(hmAt'[g], gathered'[g])
    BY <1>1, <1>2, <1>3, <2>1 DEF GatheredAt
  <2> QED BY <1>1, <1>2, <2>2, GatheredByOne, Zenon DEF HMInv
<1>7. AveragesAreOfTheInterval'
  BY <1>1, <1>2, <1>4, AveragesStay, Zenon DEF HMInv
<1> QED BY <1>1, <1>4, <1>5, <1>6, <1>7, ReadingsStay, Zenon DEF HMInv

(* The counters that a reading keeps. *)
LEMMA ReadingKept ==
    ASSUME ReadingsInv, NEW g \in HMGenerations, NEW ok \in BOOLEAN,
           prevDiskStats' = [prevDiskStats EXCEPT ![g] = IF ok THEN [v \in parseDiskStats(g) |-> counters[v]] ELSE StatsOnError(g)],
           readings' = [readings EXCEPT ![g] = [prev |-> @.now, now |-> Reading(g, ok)]],
           UNCHANGED <<measured, counters>>
    PROVE  ReadingsInv'
<1>1. /\ DOMAIN prevDiskStats' = HMGenerations
      /\ prevDiskStats'[g] = IF ok THEN [v \in parseDiskStats(g) |-> counters[v]] ELSE StatsOnError(g)
      /\ \A h \in HMGenerations : h # g => prevDiskStats'[h] = prevDiskStats[h]
  BY Zenon DEF ReadingsInv
<1>2. /\ DOMAIN readings' = HMGenerations /\ readings'[g] = [prev |-> readings[g].now, now |-> Reading(g, ok)]
      /\ \A h \in HMGenerations : h # g => readings'[h] = readings[h]
  BY Zenon DEF ReadingsInv
<1>3. /\ readings'[g].now = Reading(g, ok) /\ DOMAIN readings'[g] = {"prev", "now"}
  BY <1>2
<1>4. /\ Reading(g, ok).ok = ok /\ Reading(g, ok).mapped = parseDiskStats(g) /\ Reading(g, ok).counters = counters
  BY DEF Reading
<1>5. parseDiskStats(g) \subseteq Devices
  BY DEF parseDiskStats
<1>6. /\ measured' \in Nat /\ counters' \in [Devices -> [Directions -> Counted]]
      /\ \A v \in Devices, r \in Directions : counters'[v][r].time <= counters'[v][r].ops * measured'
  BY DEF ReadingsInv
<1>7. \A v \in Devices, r \in Directions : ReadLater(counters[v][r], counters[v][r])
  <2> SUFFICES ASSUME NEW v \in Devices, NEW r \in Directions PROVE ReadLater(counters[v][r], counters[v][r])
    OBVIOUS
  <2>1. counters[v][r] \in Counted /\ measured \in Nat /\ counters[v][r].time <= counters[v][r].ops * measured
    BY DEF ReadingsInv
  <2>2. measured \in 0..measured /\ counters[v][r].ops >= counters[v][r].ops /\ counters[v][r].time >= counters[v][r].time
    BY <2>1 DEF Counted
  <2> QED BY <2>1, <2>2 DEF ReadLater
<1>8. ASSUME NEW h \in HMGenerations
      PROVE  /\ DOMAIN readings'[h] = {"prev", "now"}
             /\ ~readings'[h].now.ok => DOMAIN prevDiskStats'[h] = {}
             /\ readings'[h].now.ok =>
                  /\ readings'[h].now.mapped \subseteq Devices
                  /\ DOMAIN prevDiskStats'[h] = readings'[h].now.mapped
                  /\ readings'[h].now.counters \in [Devices -> [Directions -> Counted]]
                  /\ \A v \in readings'[h].now.mapped : prevDiskStats'[h][v] = readings'[h].now.counters[v]
                  /\ \A v \in readings'[h].now.mapped, r \in Directions :
                       ReadLater(readings'[h].now.counters[v][r], counters[v][r])
  <2>1. CASE h # g
    <3>1. readings'[h] = readings[h] /\ prevDiskStats'[h] = prevDiskStats[h]
      BY <1>1, <1>2, <2>1
    <3>2. /\ DOMAIN readings[h] = {"prev", "now"}
          /\ ~readings[h].now.ok => DOMAIN prevDiskStats[h] = {}
      BY DEF ReadingsInv
    <3>3. readings[h].now.ok =>
            /\ readings[h].now.mapped \subseteq Devices
            /\ DOMAIN prevDiskStats[h] = readings[h].now.mapped
            /\ readings[h].now.counters \in [Devices -> [Directions -> Counted]]
            /\ \A v \in readings[h].now.mapped : prevDiskStats[h][v] = readings[h].now.counters[v]
            /\ \A v \in readings[h].now.mapped, r \in Directions : ReadLater(readings[h].now.counters[v][r], counters[v][r])
      BY Zenon DEF ReadingsInv
    <3> QED BY <3>1, <3>2, <3>3
  <2>2. CASE h = g /\ ok
    <3>1. prevDiskStats'[h] = [v \in parseDiskStats(g) |-> counters[v]]
      BY <1>1, <2>2
    <3>2. counters \in [Devices -> [Directions -> Counted]]
      BY DEF ReadingsInv
    <3>3. readings'[h].now.ok /\ readings'[h].now.mapped = parseDiskStats(g) /\ readings'[h].now.counters = counters
      BY <1>3, <1>4, <2>2, Zenon
    <3>4. DOMAIN prevDiskStats'[h] = parseDiskStats(g) /\ \A v \in parseDiskStats(g) : prevDiskStats'[h][v] = counters[v]
      BY <3>1
    <3> QED BY <1>3, <1>5, <1>7, <2>2, <3>2, <3>3, <3>4, Zenon
  <2>3. CASE h = g /\ ~ok
    <3>1. DOMAIN prevDiskStats'[h] = {}
      BY <1>1, <2>3 DEF StatsOnError
    <3>2. ~readings'[h].now.ok
      BY <1>3, <1>4, <2>3, Zenon
    <3> QED BY <1>3, <2>3, <3>1, <3>2, Zenon
  <2> QED BY <2>1, <2>2, <2>3
<1>9. \A p, c : ReadLater(p, c) => ReadLater(p, c)'
  BY DEF ReadLater
<1> QED
  BY <1>1, <1>2, <1>6, <1>8, <1>9, Zenon DEF ReadingsInv

(* The disks: their averages are of the interval, whatever could be read. *)
LEMMA ReadDisksKeeps == ASSUME HMInv, NEW g \in HMGenerations, ReadDisks(g) PROVE HMInv'
<1>1. PICK ok \in BOOLEAN :
         /\ prevDiskStats' = [prevDiskStats EXCEPT ![g] = IF ok THEN [v \in (IF ok THEN parseDiskStats(g) ELSE {}) |-> counters[v]]
                                                               ELSE StatsOnError(g)]
         /\ AddMetrics(g, DiskMetrics(g, IF ok THEN parseDiskStats(g) ELSE {}))
         /\ readings' = [readings EXCEPT ![g] = [prev |-> @.now, now |-> Reading(g, ok)]]
  BY Zenon DEF ReadDisks
<1> DEFINE stats == IF ok THEN parseDiskStats(g) ELSE {}
           metrics == DiskMetrics(g, stats)
<1>2. /\ hmAt[g] = "disks" /\ HMTo(g, "local")
      /\ UNCHANGED <<hmGen, metricsXML, instanceProperties, attached, measured, counters>>
  BY DEF ReadDisks, hmEnv
<1>3. hmAt'[g] = "local" /\ \A h \in HMGenerations : h # g => hmAt'[h] = hmAt[h]
  BY <1>2, PlaceMoved, Zenon DEF HMInv
<1>4. /\ DOMAIN gathered' = HMGenerations /\ DOMAIN gathered'[g] = {"id", "metrics", "inOrder"}
      /\ gathered'[g].metrics = gathered[g].metrics \cup metrics
      /\ gathered'[g].inOrder = gathered[g].inOrder /\ gathered'[g].id = gathered[g].id
      /\ \A h \in HMGenerations : h # g => gathered'[h] = gathered[h]
  BY <1>1, MetricsAdded, Zenon DEF HMInv
<1>5. gathered'[g].metrics = metrics
  <2>1. hmAt[g] \in HMPlaces \ {"local", "cloud", "text", "length"}
    BY <1>2 DEF HMPlaces
  <2>2. gathered[g].metrics = {}
    BY <2>1, Zenon DEF HMInv, GatheredInv, GatheredAt
  <2> QED BY <1>4, <2>2, Zenon
<1>6. OneValue(metrics) /\ Named(metrics, DeviceMetrics)
  BY DiskMetricsOnce, Zenon DEF HMInv
<1> HIDE DEF metrics
<1>7. DocumentInv'
  <2>1. \A h \in HMGenerations : DOMAIN gathered'[h] = {"id", "metrics", "inOrder"}
    BY <1>4, Zenon DEF HMInv, DocumentInv
  <2>2. /\ hmAt[g] \notin {"not started", "length"} /\ "local" \in HMPlaces \ {"length"}
        /\ hmAt[g] \in Collecting
    BY <1>2 DEF HMPlaces, Collecting
  <2>3. gathered'[g].id[1] = g
    BY <1>4, <2>2, Zenon DEF HMInv, DocumentInv
  <2> QED BY <1>2, <1>4, <2>1, <2>2, <2>3, DocumentWhileGoing DEF HMInv
<1>8. GatheredInv'
  <2>1. OwnValues(metrics)
    <3>1. sapMetrics["delta"] = {"Volume Read Throughput", "Volume Read Ops"}
      BY Zenon DEF sapMetrics, DiskQueries
    <3>2. DeviceMetrics \cap ({"Volume Read Throughput", "Volume Read Ops"} \cup {"Volume Utilization"}) = {}
      BY DEF DeviceMetrics
    <3> QED BY <1>6, <3>1, <3>2, Zenon DEF OwnValues, Named
  <2>2. "local" \notin HMPlaces \ {"local", "cloud", "text", "length"} /\ "local" # "cloud"
    OBVIOUS
  <2>3. GatheredAt(hmAt'[g], gathered'[g])
    BY <1>3, <1>5, <1>6, <2>1, <2>2, Zenon DEF GatheredAt
  <2> QED BY <1>3, <1>4, <2>3, GatheredByOne, Zenon DEF HMInv
<1>9. ReadingsInv'
  <2>1. prevDiskStats' = [prevDiskStats EXCEPT ![g] = IF ok THEN [v \in parseDiskStats(g) |-> counters[v]] ELSE StatsOnError(g)]
    <3>1. CASE ok
      BY <1>1, <3>1
    <3>2. CASE ~ok
      BY <1>1, <3>2
    <3> QED BY <3>1, <3>2
  <2> QED BY <1>1, <1>2, <2>1, ReadingKept DEF HMInv
<1>10. AveragesAreOfTheInterval'
  <2>1. \A h \in HMGenerations :
          hmAt[h] = "local" => OfTheInterval(readings[h], instanceProperties[h].disks, gathered[h].metrics)
    BY EachCollection DEF HMInv
  <2>2. readings'[g] = [prev |-> readings[g].now, now |-> Reading(g, ok)] /\ \A h \in HMGenerations : h # g => readings'[h] = readings[h]
    BY <1>1, Zenon DEF HMInv, ReadingsInv
  <2>3. OfTheInterval([prev |-> readings[g].now, now |-> Reading(g, ok)], instanceProperties[g].disks, metrics)
    BY ReadingsInterval, Zenon DEF HMInv, metrics
  <2>4. ASSUME NEW h \in HMGenerations, hmAt'[h] = "local"
        PROVE  OfTheInterval(readings'[h], instanceProperties'[h].disks, gathered'[h].metrics)
    <3>1. CASE h = g
      BY <1>2, <1>5, <2>2, <2>3, <3>1
    <3>2. CASE h # g
      BY <1>2, <1>3, <1>4, <2>1, <2>2, <2>4, <3>2
    <3> QED BY <3>1, <3>2
  <2> QED BY <2>4, Zenon DEF AveragesAreOfTheInterval, OfTheInterval
<1> QED BY <1>2, <1>7, <1>8, <1>9, <1>10, DisksStay, Zenon DEF HMInv

(* A step that adds metrics of other names. *)
LEMMA LocalKeeps == ASSUME HMInv, NEW g \in HMGenerations, ReadLocal(g) PROVE HMInv'
<1>1. PICK mem \in BOOLEAN, cpu \in BOOLEAN :
        AddMetrics(g, memoryMetrics(mem) \cup networkMetrics(g, cpuStats(cpu)) \cup cpuMetrics(g, cpuStats(cpu))
                        \cup configMetrics(g, cpuStats(cpu)))
  BY Zenon DEF ReadLocal
<1> DEFINE local == memoryMetrics(mem) \cup networkMetrics(g, cpuStats(cpu)) \cup cpuMetrics(g, cpuStats(cpu))
                      \cup configMetrics(g, cpuStats(cpu))
<1>2. /\ hmAt[g] = "local" /\ HMTo(g, "cloud")
      /\ UNCHANGED <<hmGen, metricsXML, instanceProperties, attached, measured, counters, prevDiskStats, readings>>
  BY DEF ReadLocal, hmEnv
<1>3. hmAt'[g] = "cloud" /\ \A h \in HMGenerations : h # g => hmAt'[h] = hmAt[h]
  BY <1>2, PlaceMoved, Zenon DEF HMInv
<1>4. OneValue(local) /\ Named(local, LocalMetrics)
  <2>1. PICK cpus : cpus = cpuStats(cpu)
    OBVIOUS
  <2>2. LET l == memoryMetrics(mem) \cup networkMetrics(g, cpus) \cup cpuMetrics(g, cpus) \cup configMetrics(g, cpus)
        IN OneValue(l) /\ Named(l, LocalMetrics)
    BY LocalMetricsOnce
  <2> QED BY <2>1, <2>2, Zenon
<1> HIDE DEF local
<1>5. /\ DOMAIN gathered' = HMGenerations /\ DOMAIN gathered'[g] = {"id", "metrics", "inOrder"}
      /\ gathered'[g].metrics = gathered[g].metrics \cup local
      /\ gathered'[g].inOrder = gathered[g].inOrder /\ gathered'[g].id = gathered[g].id
      /\ \A h \in HMGenerations : h # g => gathered'[h] = gathered[h]
  BY <1>1, MetricsAdded, Zenon DEF HMInv, local
<1>6. OneValue(gathered[g].metrics) /\ Named(gathered[g].metrics, DeviceMetrics)
  BY <1>2, Zenon DEF HMInv, GatheredInv, GatheredAt
<1>7. OneValue(gathered'[g].metrics) /\ Named(gathered'[g].metrics, DeviceMetrics \cup LocalMetrics)
  <2>1. DeviceMetrics \cap LocalMetrics = {}
    BY DEF DeviceMetrics, LocalMetrics
  <2>2. OneValue(gathered[g].metrics \cup local) /\ Named(gathered[g].metrics \cup local, DeviceMetrics \cup LocalMetrics)
    BY <1>4, <1>6, <2>1, OneValueTogether, Zenon
  <2> QED BY <1>5, <2>2, Zenon
<1>8. DocumentInv'
  <2>1. \A h \in HMGenerations : DOMAIN gathered'[h] = {"id", "metrics", "inOrder"}
    BY <1>5, Zenon DEF HMInv, DocumentInv
  <2>2. /\ hmAt[g] \notin {"not started", "length"} /\ "cloud" \in HMPlaces \ {"length"}
        /\ hmAt[g] \in Collecting
    BY <1>2 DEF HMPlaces, Collecting
  <2>3. gathered'[g].id[1] = g
    BY <1>5, <2>2, Zenon DEF HMInv, DocumentInv
  <2> QED BY <1>2, <1>5, <2>1, <2>2, <2>3, DocumentWhileGoing DEF HMInv
<1>9. GatheredInv'
  <2>1. OwnValues(gathered'[g].metrics)
    <3>1. sapMetrics["delta"] = {"Volume Read Throughput", "Volume Read Ops"}
      BY Zenon DEF sapMetrics, DiskQueries
    <3>2. (DeviceMetrics \cup LocalMetrics) \cap ({"Volume Read Throughput", "Volume Read Ops"} \cup {"Volume Utilization"}) = {}
      BY DEF DeviceMetrics, LocalMetrics
    <3> QED BY <1>7, <3>1, <3>2, Zenon DEF OwnValues, Named
  <2>2. "cloud" \notin HMPlaces \ {"local", "cloud", "text", "length"} /\ "cloud" # "local"
    OBVIOUS
  <2>3. GatheredAt(hmAt'[g], gathered'[g])
    BY <1>3, <1>7, <2>1, <2>2, Zenon DEF GatheredAt
  <2> QED BY <1>3, <1>5, <2>3, GatheredByOne, Zenon DEF HMInv
<1>10. AveragesAreOfTheInterval'
  <2>1. "cloud" # "local"
    OBVIOUS
  <2> QED BY <1>2, <1>3, <1>5, <2>1, AveragesStay, Zenon DEF HMInv
<1> QED BY <1>2, <1>8, <1>9, <1>10, DisksStay, ReadingsStay, Zenon DEF HMInv

(* What Cloud Monitoring said. *)
LEMMA CloudKeeps == ASSUME HMInv, NEW g \in HMGenerations, ReadCloud(g) PROVE HMInv'
<1>2. /\ hmAt[g] = "cloud" /\ HMTo(g, "text")
      /\ UNCHANGED <<hmGen, metricsXML, instanceProperties, attached, measured, counters, prevDiskStats, readings>>
  BY DEF ReadCloud, hmEnv
<1>3. hmAt'[g] = "text" /\ \A h \in HMGenerations : h # g => hmAt'[h] = hmAt[h]
  BY <1>2, PlaceMoved, Zenon DEF HMInv
<1>4. OneValue(gathered[g].metrics) /\ Named(gathered[g].metrics, DeviceMetrics \cup LocalMetrics)
  BY <1>2, Zenon DEF HMInv, GatheredInv, GatheredAt
<1>5. OwnValues(gathered[g].metrics)
  <2>1. sapMetrics["delta"] = {"Volume Read Throughput", "Volume Read Ops"}
    BY Zenon DEF sapMetrics, DiskQueries
  <2>2. (DeviceMetrics \cup LocalMetrics) \cap ({"Volume Read Throughput", "Volume Read Ops"} \cup {"Volume Utilization"}) = {}
    BY DEF DeviceMetrics, LocalMetrics
  <2> QED BY <1>4, <2>1, <2>2, Zenon DEF OwnValues, Named
<1>6. /\ DOMAIN gathered' = HMGenerations /\ DOMAIN gathered'[g] = {"id", "metrics", "inOrder"}
      /\ OneValue(gathered'[g].metrics) /\ (gathered'[g].inOrder => OwnValues(gathered'[g].metrics))
      /\ gathered'[g].id = gathered[g].id
      /\ \A h \in HMGenerations : h # g => gathered'[h] = gathered[h]
  <2>1. CASE UNCHANGED gathered
    BY <1>4, <1>5, <2>1, Zenon DEF HMInv, DocumentInv
  <2>2. ASSUME NEW data \in BOOLEAN, NEW answer,
               gathered' = [gathered EXCEPT ![g].metrics = @ \cup PassthroughMetrics(data) \cup CloudNetworkMetrics(g, data)
                                                             \cup CloudDiskMetrics(g, answer),
                                            ![g].inOrder = \A p \in DiskQueries : answer[p] \in {<<>>, DiskNames(g)}]
        PROVE  /\ DOMAIN gathered' = HMGenerations /\ DOMAIN gathered'[g] = {"id", "metrics", "inOrder"}
               /\ OneValue(gathered'[g].metrics) /\ (gathered'[g].inOrder => OwnValues(gathered'[g].metrics))
               /\ gathered'[g].id = gathered[g].id
               /\ \A h \in HMGenerations : h # g => gathered'[h] = gathered[h]
    <3> DEFINE added == PassthroughMetrics(data) \cup CloudNetworkMetrics(g, data) \cup CloudDiskMetrics(g, answer)
               own == \A p \in DiskQueries : answer[p] \in {<<>>, DiskNames(g)}
    <3>1. OneValue(added) /\ Named(added, CloudMetrics) /\ (own => OwnValues(added))
      BY CloudMetricsOnce, Zenon DEF HMInv
    <3>2. gathered' = [gathered EXCEPT ![g].metrics = @ \cup added, ![g].inOrder = own]
      <4>1. \A s : s \cup PassthroughMetrics(data) \cup CloudNetworkMetrics(g, data) \cup CloudDiskMetrics(g, answer) = s \cup added
        OBVIOUS
      <4> HIDE DEF added
      <4> QED BY <2>2, <4>1, Zenon
    <3> HIDE DEF added, own
    <3>3. /\ DOMAIN gathered' = HMGenerations /\ DOMAIN gathered'[g] = {"id", "metrics", "inOrder"}
          /\ gathered'[g].metrics = gathered[g].metrics \cup added
          /\ gathered'[g].inOrder = own /\ gathered'[g].id = gathered[g].id
          /\ \A h \in HMGenerations : h # g => gathered'[h] = gathered[h]
      BY <3>2, ZenonT(60) DEF HMInv, DocumentInv
    <3>4. (DeviceMetrics \cup LocalMetrics) \cap CloudMetrics = {}
      BY DEF DeviceMetrics, LocalMetrics, CloudMetrics
    <3>5. OneValue(gathered[g].metrics \cup added)
      BY <1>4, <3>1, <3>4, OneValueTogether, Zenon
    <3>6. own => OwnValues(gathered[g].metrics \cup added)
      BY <1>5, <3>1, Zenon DEF OwnValues
    <3> QED BY <3>3, <3>5, <3>6, Zenon
  <2> QED BY <2>1, <2>2, Zenon DEF ReadCloud
<1>7. DocumentInv'
  <2>1. \A h \in HMGenerations : DOMAIN gathered'[h] = {"id", "metrics", "inOrder"}
    BY <1>6, Zenon DEF HMInv, DocumentInv
  <2>2. /\ hmAt[g] \notin {"not started", "length"} /\ "text" \in HMPlaces \ {"length"}
        /\ hmAt[g] \in Collecting
    BY <1>2 DEF HMPlaces, Collecting
  <2>3. gathered'[g].id[1] = g
    BY <1>6, <2>2, Zenon DEF HMInv, DocumentInv
  <2> QED BY <1>2, <1>6, <2>1, <2>2, <2>3, DocumentWhileGoing DEF HMInv
<1>8. GatheredInv'
  <2>1. "text" \notin HMPlaces \ {"local", "cloud", "text", "length"} /\ "text" # "local" /\ "text" # "cloud"
    OBVIOUS
  <2>2. GatheredAt(hmAt'[g], gathered'[g])
    BY <1>3, <1>6, <2>1, Zenon DEF GatheredAt
  <2> QED BY <1>3, <1>6, <2>2, GatheredByOne, Zenon DEF HMInv
<1>9. AveragesAreOfTheInterval'
  <2>1. "text" # "local"
    OBVIOUS
  <2> QED BY <1>2, <1>3, <1>6, <2>1, AveragesStay, Zenon DEF HMInv
<1> QED BY <1>2, <1>7, <1>8, <1>9, DisksStay, ReadingsStay, Zenon DEF HMInv

(* Generations are numbers, and one that started is not after the current one. *)
LEMMA Generations ==
    ASSUME DocumentInv
    PROVE  /\ hmGen \in Nat /\ hmGen >= 1 /\ hmGen \in HMGenerations
           /\ \A h \in HMGenerations : h \in Nat /\ h >= 1
           /\ \A h \in HMGenerations : hmAt[h] # "not started" => ~(h > hmGen)
<1>1. hmGen \in HMGenerations /\ \A h \in HMGenerations : h > hmGen => hmAt[h] = "not started"
  BY Zenon DEF DocumentInv
<1>2. \A h \in HMGenerations : h \in Nat /\ h >= 1
  BY DEF HMGenerations
<1> QED BY <1>1, <1>2, Zenon

(* The two writes of the assignment. *)
LEMMA TextKeeps == ASSUME HMInv, NEW g \in HMGenerations, PublishText(g) PROVE HMInv'
<1>1. /\ hmAt[g] = "text" /\ HMTo(g, "length")
      /\ metricsXML' = [metricsXML EXCEPT !.text = gathered[g].id]
      /\ UNCHANGED <<hmGen, gathered, instanceProperties, attached, measured, counters, prevDiskStats, readings>>
  BY DEF PublishText, hmEnv
<1>2. hmAt'[g] = "length" /\ \A h \in HMGenerations : h # g => hmAt'[h] = hmAt[h]
  BY <1>1, PlaceMoved, Zenon DEF HMInv
<1>3. /\ DOMAIN metricsXML' = {"text", "length"} /\ metricsXML'.text = gathered[g].id
  BY <1>1 DEF HMInv, DocumentInv
<1>4. hmAt' \in [HMGenerations -> HMPlaces]
  <2>1. "length" \in HMPlaces /\ hmAt \in [HMGenerations -> HMPlaces]
    BY DEF HMInv, DocumentInv, HMPlaces
  <2> QED BY <1>1, <2>1 DEF HMTo
<1>5. \A h \in HMGenerations : h > hmGen => hmAt'[h] = "not started"
  <2>1. ~(g > hmGen)
    BY <1>1 DEF HMInv, DocumentInv
  <2> QED BY <1>2, <2>1, Zenon DEF HMInv, DocumentInv
<1>6. gathered[g].id[1] = g
  <2>1. hmAt[g] \in Collecting
    BY <1>1 DEF Collecting
  <2> QED BY <2>1, Zenon DEF HMInv, DocumentInv
<1>7. DocumentInv'
  <2>1. \A h \in HMGenerations : hmAt'[h] \in Collecting => gathered'[h].id[1] = h
    BY <1>1, <1>2, <1>6, Zenon DEF HMInv, DocumentInv
  <2>2. \A h \in HMGenerations : hmAt'[h] = "length" => metricsXML'.text = gathered'[h].id \/ metricsXML'.text[1] # h
    BY <1>1, <1>3, <1>6, Zenon
  <2>3. WholeDocument'
    BY <1>2, Zenon DEF WholeDocument
  <2> QED BY <1>1, <1>3, <1>4, <1>5, <2>1, <2>2, <2>3, Zenon DEF HMInv, DocumentInv
<1>8. GatheredInv'
  <2>1. OneValue(gathered[g].metrics) /\ (gathered[g].inOrder => OwnValues(gathered[g].metrics))
    BY Zenon DEF HMInv, GatheredInv, GatheredAt
  <2>2. "length" \notin HMPlaces \ {"local", "cloud", "text", "length"} /\ "length" # "local" /\ "length" # "cloud"
    OBVIOUS
  <2>3. GatheredAt(hmAt'[g], gathered'[g])
    BY <1>1, <1>2, <2>1, <2>2, Zenon DEF GatheredAt
  <2> QED BY <1>1, <1>2, <2>3, GatheredByOne, Zenon DEF HMInv
<1>9. AveragesAreOfTheInterval'
  <2>1. "length" # "local"
    OBVIOUS
  <2> QED BY <1>1, <1>2, <2>1, AveragesStay, Zenon DEF HMInv
<1> QED BY <1>1, <1>7, <1>8, <1>9, DisksStay, ReadingsStay, Zenon DEF HMInv

(* The length of a document is of the collection its text is of. *)
LEMMA LengthKeeps == ASSUME HMInv, NEW g \in HMGenerations, PublishLength(g) PROVE HMInv'
<1>1. /\ hmAt[g] = "length" /\ HMTo(g, "idle")
      /\ metricsXML' = [metricsXML EXCEPT !.length = gathered[g].id]
      /\ gathered' = [gathered EXCEPT ![g] = Nothing]
      /\ UNCHANGED <<hmGen, instanceProperties, attached, measured, counters, prevDiskStats, readings>>
  BY DEF PublishLength, hmEnv
<1>2. hmAt'[g] = "idle" /\ \A h \in HMGenerations : h # g => hmAt'[h] = hmAt[h]
  BY <1>1, PlaceMoved, Zenon DEF HMInv
<1>3. /\ DOMAIN metricsXML' = {"text", "length"} /\ metricsXML'.length = gathered[g].id /\ metricsXML'.text = metricsXML.text
  BY <1>1 DEF HMInv, DocumentInv
<1>4. hmAt' \in [HMGenerations -> HMPlaces]
  <2>1. "idle" \in HMPlaces /\ hmAt \in [HMGenerations -> HMPlaces]
    BY DEF HMInv, DocumentInv, HMPlaces
  <2> QED BY <1>1, <2>1 DEF HMTo
<1>5. \A h \in HMGenerations : h > hmGen => hmAt'[h] = "not started"
  <2>1. ~(g > hmGen)
    BY <1>1 DEF HMInv, DocumentInv
  <2> QED BY <1>2, <2>1, Zenon DEF HMInv, DocumentInv
<1>6. gathered[g].id[1] = g
  <2>1. hmAt[g] \in Collecting
    BY <1>1 DEF Collecting
  <2> QED BY <2>1, Zenon DEF HMInv, DocumentInv
<1>7. /\ DOMAIN gathered' = HMGenerations /\ gathered'[g] = Nothing
      /\ \A h \in HMGenerations : h # g => gathered'[h] = gathered[h]
  BY <1>1, Zenon DEF HMInv, DocumentInv
<1>8. DOMAIN Nothing = {"id", "metrics", "inOrder"} /\ Nothing.metrics = {}
  BY DEF Nothing
<1>9. DocumentInv'
  <2>1. WholeDocument'
    <3>1. metricsXML.text = gathered[g].id \/ metricsXML.text[1] # g
      BY <1>1, Zenon DEF HMInv, DocumentInv
    <3> QED BY <1>3, <1>6, <3>1, Zenon DEF WholeDocument
  <2>2. \A h \in HMGenerations : DOMAIN gathered'[h] = {"id", "metrics", "inOrder"}
    BY <1>7, <1>8, Zenon DEF HMInv, DocumentInv
  <2>3. hmGen' \in HMGenerations /\ hmGen' = hmGen
    BY <1>1 DEF HMInv, DocumentInv
  <2>4. "idle" \notin Collecting /\ "idle" # "length"
    BY DEF Collecting
  <2>5. \A h \in HMGenerations : hmAt'[h] \in Collecting => gathered'[h].id[1] = h
    <3>1. \A h \in HMGenerations : hmAt[h] \in Collecting => gathered[h].id[1] = h
      BY Zenon DEF HMInv, DocumentInv
    <3>2. hmAt'[g] \notin Collecting
      BY <1>2, <2>4
    <3> QED BY <1>2, <1>7, <3>1, <3>2, Zenon
  <2>6. \A h \in HMGenerations : hmAt'[h] = "length" => metricsXML'.text = gathered'[h].id \/ metricsXML'.text[1] # h
    BY <1>2, <1>3, <1>7, <2>4, Zenon DEF HMInv, DocumentInv
  <2> QED BY <1>3, <1>4, <1>5, <1>7, <2>1, <2>2, <2>3, <2>5, <2>6, Zenon DEF DocumentInv
<1>10. GatheredInv'
  <2>1. GatheredAt(hmAt'[g], gathered'[g])
    BY <1>7, <1>8, NothingGathered, Zenon DEF GatheredAt
  <2> QED BY <1>2, <1>7, <2>1, GatheredByOne, Zenon DEF HMInv
<1>11. AveragesAreOfTheInterval'
  <2>1. "idle" # "local"
    OBVIOUS
  <2> QED BY <1>1, <1>2, <1>7, <2>1, AveragesStay, Zenon DEF HMInv
<1> QED BY <1>1, <1>9, <1>10, <1>11, DisksStay, ReadingsStay, Zenon DEF HMInv

(* A second generation starts; the document stays. *)
LEMMA RestartKeeps == HMInv /\ HMRestart => HMInv'
<1> SUFFICES ASSUME HMInv, HMRestart PROVE HMInv'
  OBVIOUS
<1> DEFINE g == hmGen + 1
<1>1. /\ hmGen < MaxHMGenerations /\ hmGen' = g /\ HMTo(g, "start")
      /\ UNCHANGED <<metricsXML, gathered, instanceProperties, attached, measured, counters, prevDiskStats, readings>>
  BY DEF HMRestart, hmEnv
<1>2. g \in HMGenerations /\ g # 1 /\ g > hmGen /\ (\A h \in HMGenerations : h > g => h > hmGen /\ h # g)
  <2>1. hmGen \in Nat /\ hmGen >= 1 /\ hmGen < MaxHMGenerations /\ MaxHMGenerations \in Nat
    BY <1>1, Generations, HostMetricsAssumption DEF HMInv
  <2>2. \A h \in HMGenerations : h \in Nat
    BY DEF HMGenerations
  <2>3. g \in HMGenerations
    BY <2>1 DEF HMGenerations
  <2> QED BY <2>1, <2>2, <2>3
<1>3. hmAt'[g] = "start" /\ \A h \in HMGenerations : h # g => hmAt'[h] = hmAt[h]
  <2>1. PICK n \in HMGenerations : n = g
    BY <1>2
  <2> QED BY <1>1, <2>1, PlaceMoved, Zenon DEF HMInv
<1>4. hmAt[g] = "not started"
  BY <1>2, Zenon DEF HMInv, DocumentInv
<1> HIDE DEF g
<1>5. DocumentInv'
  <2>1. hmAt' \in [HMGenerations -> HMPlaces]
    <3>1. "start" \in HMPlaces /\ hmAt \in [HMGenerations -> HMPlaces]
      BY DEF HMInv, DocumentInv, HMPlaces
    <3> QED BY <1>1, <3>1 DEF HMTo
  <2>2. \A h \in HMGenerations : h > hmGen' => hmAt'[h] = "not started"
    BY <1>1, <1>2, <1>3, Zenon DEF HMInv, DocumentInv
  <2>3. "start" \notin Collecting /\ "start" # "length" /\ hmAt[g] # "length"
    BY <1>4 DEF Collecting
  <2>4. \A h \in HMGenerations : hmAt'[h] \in Collecting => gathered'[h].id[1] = h
    BY <1>1, <1>3, <2>3, Zenon DEF HMInv, DocumentInv
  <2>5. \A h \in HMGenerations : hmAt'[h] = "length" => metricsXML'.text = gathered'[h].id \/ metricsXML'.text[1] # h
    BY <1>1, <1>3, <2>3, Zenon DEF HMInv, DocumentInv
  <2>6. WholeDocument'
    BY <1>1, <1>3, <2>3, Zenon DEF HMInv, DocumentInv, WholeDocument
  <2> QED BY <1>1, <1>2, <2>1, <2>2, <2>4, <2>5, <2>6, Zenon DEF HMInv, DocumentInv
<1>6. GatheredInv'
  <2>1. GatheredAt("not started", gathered[g])
    BY <1>2, <1>4, Zenon DEF HMInv, GatheredInv
  <2>2. "not started" \in HMPlaces \ {"local", "cloud", "text", "length"} /\ "start" # "local" /\ "start" # "cloud"
    BY DEF HMPlaces
  <2>3. GatheredAt(hmAt'[g], gathered'[g])
    BY <1>1, <1>3, <2>1, <2>2, Zenon DEF GatheredAt
  <2> QED BY <1>1, <1>2, <1>3, <2>3, GatheredByOne, Zenon DEF HMInv
<1>7. AveragesAreOfTheInterval'
  <2>1. "start" # "local"
    OBVIOUS
  <2> QED BY <1>1, <1>3, <2>1, AveragesStay, Zenon DEF HMInv
<1> QED BY <1>1, <1>5, <1>6, <1>7, DisksStay, ReadingsStay, Zenon DEF HMInv

(* The counters go on, or begin again for another disk. *)
LEMMA InputOutputKeeps == ASSUME HMInv, NEW v \in Devices, NEW r \in Directions, InputOutput(v, r) PROVE HMInv'
<1>1. /\ measured' = measured + 1
      /\ counters' = [counters EXCEPT ![v][r] = [ops |-> @.ops + 1, time |-> @.time + measured']]
      /\ UNCHANGED <<hmGen, hmAt, metricsXML, gathered, instanceProperties, attached, prevDiskStats, readings>>
  BY DEF InputOutput
<1>2. measured \in Nat /\ counters \in [Devices -> [Directions -> Counted]]
  BY DEF HMInv, ReadingsInv
<1>3. PICK d \in Counted : d.ops = counters[v][r].ops + 1 /\ d.time = counters[v][r].time + (measured + 1)
  <2>1. counters[v][r].ops \in Nat /\ counters[v][r].time \in Nat
    BY <1>2 DEF Counted
  <2>2. \A a, b \in Nat : [ops |-> a, time |-> b] \in Counted /\ [ops |-> a, time |-> b].ops = a /\ [ops |-> a, time |-> b].time = b
    BY DEF Counted
  <2>3. counters[v][r].ops + 1 \in Nat /\ counters[v][r].time + (measured + 1) \in Nat
    BY <1>2, <2>1
  <2> QED BY <2>2, <2>3, Zenon
<1>4. [ops |-> counters[v][r].ops + 1, time |-> counters[v][r].time + measured'] = d
  BY <1>1, <1>3 DEF Counted
<1>5. /\ counters' \in [Devices -> [Directions -> Counted]] /\ counters'[v][r] = d
      /\ \A w \in Devices, q \in Directions : w # v \/ q # r => counters'[w][q] = counters[w][q]
  <2>1. counters' = [counters EXCEPT ![v][r] = d]
    BY <1>1, <1>4, Zenon
  <2> QED BY <1>2, <2>1
<1>6. ASSUME NEW p, NEW c \in Counted, NEW e \in Counted, ReadLater(p, c), e = c \/ (e.ops = c.ops + 1 /\ e.time = c.time + (measured + 1)),
             p \in Counted
      PROVE  ReadLater(p, e)'
  <2>1. PICK m \in 0..measured : p.time <= p.ops * m /\ ((c.ops >= p.ops /\ c.time >= p.time) \/ c.time >= c.ops * m)
    BY <1>6 DEF ReadLater
  <2>2. m \in 0..measured' /\ m \in Nat /\ m <= measured
    BY <1>1, <1>2, <2>1
  <2>3. c.ops >= p.ops /\ c.time >= p.time => e.ops >= p.ops /\ e.time >= p.time
    BY <1>2, <1>6 DEF Counted
  <2>4. c.time >= c.ops * m => e.time >= e.ops * m
    BY <1>2, <1>6, <2>2, CountedOnce
  <2> QED BY <2>1, <2>2, <2>3, <2>4 DEF ReadLater
<1>7. ASSUME NEW w \in Devices, NEW q \in Directions
      PROVE  /\ counters[w][q] \in Counted /\ counters'[w][q] \in Counted
             /\ \/ counters'[w][q] = counters[w][q]
                \/ counters'[w][q].ops = counters[w][q].ops + 1 /\ counters'[w][q].time = counters[w][q].time + (measured + 1)
             /\ counters'[w][q].time <= counters'[w][q].ops * measured'
  <2>1. counters[w][q] \in Counted /\ counters'[w][q] \in Counted
    BY <1>2, <1>5
  <2>2. counters[w][q].time <= counters[w][q].ops * measured
    BY DEF HMInv, ReadingsInv
  <2>3. CASE w = v /\ q = r
    <3>1. d.time <= d.ops * (measured + 1)
      BY <1>2, <1>3, <2>1, <2>2, <2>3, CountedOnce
    <3> QED BY <1>1, <1>3, <1>5, <2>1, <2>3, <3>1
  <2>4. CASE ~(w = v /\ q = r)
    <3>1. counters'[w][q] = counters[w][q]
      BY <1>5, <2>4
    <3>2. \A t, o \in Nat : t <= o * measured => t <= o * (measured + 1)
      BY <1>2
    <3>3. counters[w][q].time \in Nat /\ counters[w][q].ops \in Nat
      BY <2>1 DEF Counted
    <3> QED BY <1>1, <2>1, <2>2, <3>1, <3>2, <3>3
  <2> QED BY <2>3, <2>4
<1>8. ASSUME NEW h \in HMGenerations, readings[h].now.ok, NEW w \in readings[h].now.mapped, NEW q \in Directions
      PROVE  ReadLater(readings[h].now.counters[w][q], counters[w][q])'
  <2>1. PICK p : p = readings[h].now.counters[w][q]
    OBVIOUS
  <2>2. PICK c : c = counters[w][q]
    OBVIOUS
  <2>3. PICK e : e = counters'[w][q]
    OBVIOUS
  <2>4. w \in Devices /\ p \in Counted /\ ReadLater(readings[h].now.counters[w][q], counters[w][q])
    BY <1>8, <2>1 DEF HMInv, ReadingsInv
  <2>5. ReadLater(p, c)
    BY <2>1, <2>2, <2>4
  <2>6. c \in Counted /\ e \in Counted /\ (e = c \/ (e.ops = c.ops + 1 /\ e.time = c.time + (measured + 1)))
    BY <1>7, <2>2, <2>3, <2>4
  <2>7. ReadLater(p, e)'
    BY <1>6, <2>4, <2>5, <2>6
  <2>8. readings'[h].now.counters[w][q] = p
    BY <1>1, <2>1
  <2> QED BY <2>3, <2>7, <2>8, Zenon DEF ReadLater
<1>9. ReadingsInv'
  <2>1. measured' \in Nat
    BY <1>1, <1>2
  <2>2. /\ DOMAIN prevDiskStats' = HMGenerations /\ DOMAIN readings' = HMGenerations
        /\ \A g \in HMGenerations : DOMAIN readings'[g] = {"prev", "now"}
        /\ \A g \in HMGenerations : ~readings'[g].now.ok => DOMAIN prevDiskStats'[g] = {}
    BY <1>1, Zenon DEF HMInv, ReadingsInv
  <2>3. ASSUME NEW g \in HMGenerations, readings'[g].now.ok
        PROVE  /\ readings'[g].now.mapped \subseteq Devices
               /\ DOMAIN prevDiskStats'[g] = readings'[g].now.mapped
               /\ readings'[g].now.counters \in [Devices -> [Directions -> Counted]]
               /\ \A w \in readings'[g].now.mapped : prevDiskStats'[g][w] = readings'[g].now.counters[w]
               /\ \A w \in readings'[g].now.mapped, q \in Directions : ReadLater(readings[g].now.counters[w][q], counters[w][q])'
    <3>1. readings' = readings /\ prevDiskStats' = prevDiskStats /\ readings[g].now.ok
      BY <1>1, <2>3
    <3>2. /\ readings[g].now.mapped \subseteq Devices
          /\ DOMAIN prevDiskStats[g] = readings[g].now.mapped
          /\ readings[g].now.counters \in [Devices -> [Directions -> Counted]]
          /\ \A w \in readings[g].now.mapped : prevDiskStats[g][w] = readings[g].now.counters[w]
      BY <3>1, Zenon DEF HMInv, ReadingsInv
    <3>3. \A w \in readings[g].now.mapped, q \in Directions : ReadLater(readings[g].now.counters[w][q], counters[w][q])'
      BY <1>8, <3>1
    <3> QED BY <3>1, <3>2, <3>3
  <2> QED BY <1>5, <1>7, <2>1, <2>2, <2>3, Zenon DEF ReadingsInv
<1>10. DocumentInv' /\ GatheredInv'
  BY <1>1, NothingWritten, Zenon DEF HMInv
<1>11. AveragesAreOfTheInterval'
  BY <1>1, AveragesStay, Zenon DEF HMInv
<1> QED BY <1>1, <1>9, <1>10, <1>11, DisksStay, Zenon DEF HMInv

(* A disk that replaces another counts from zero, and the counters that a reader
   kept are not after its own: each operation takes longer than the one before. *)
LEMMA SwapDiskKeeps == ASSUME HMInv, NEW v \in Devices, NEW d \in HMDisks, SwapDisk(v, d) PROVE HMInv'
<1>1. /\ d \notin Range(attached)
      /\ attached' = [attached EXCEPT ![v] = d]
      /\ counters' = [counters EXCEPT ![v] = [r \in Directions |-> [ops |-> 0, time |-> 0]]]
      /\ UNCHANGED <<hmGen, hmAt, metricsXML, gathered, instanceProperties, prevDiskStats, readings, measured>>
  BY DEF SwapDisk
<1>2. measured \in Nat /\ counters \in [Devices -> [Directions -> Counted]] /\ attached \in [Devices -> HMDisks \cup {NoDisk}]
  BY DEF HMInv, ReadingsInv, DisksInv
<1>3. PICK z \in Counted : z = [ops |-> 0, time |-> 0] /\ z.ops = 0 /\ z.time = 0
  <2>1. [ops |-> 0, time |-> 0] \in Counted
    BY DEF Counted
  <2>2. [ops |-> 0, time |-> 0].ops = 0 /\ [ops |-> 0, time |-> 0].time = 0
    OBVIOUS
  <2> QED BY <2>1, <2>2, Zenon
<1>4. /\ counters' \in [Devices -> [Directions -> Counted]]
      /\ \A w \in Devices, q \in Directions : counters'[w][q] = z \/ counters'[w][q] = counters[w][q]
  <2>1. counters' = [counters EXCEPT ![v] = [r \in Directions |-> z]]
    BY <1>1, <1>3, Zenon
  <2> QED BY <1>2, <2>1
<1>5. DisksInv'
  <2>1. /\ attached' \in [Devices -> HMDisks \cup {NoDisk}] /\ attached'[v] = d
        /\ \A w \in Devices : w # v => attached'[w] = attached[w]
    BY <1>1, <1>2
  <2>2. \A w \in Devices : attached[w] # d
    BY <1>1, <1>2 DEF Range
  <2>3. \A w, x \in Devices : attached'[w] = attached'[x] => w = x
    BY <2>1, <2>2, Zenon DEF HMInv, DisksInv
  <2> QED BY <1>1, <2>1, <2>3, ZenonT(60) DEF HMInv, DisksInv
<1>6. ASSUME NEW p \in Counted, NEW c \in Counted, ReadLater(p, c) PROVE ReadLater(p, c)' /\ ReadLater(p, z)'
  <2>1. PICK m \in 0..measured : p.time <= p.ops * m /\ ((c.ops >= p.ops /\ c.time >= p.time) \/ c.time >= c.ops * m)
    BY <1>6 DEF ReadLater
  <2>2. z.time >= z.ops * m
    BY <1>2, <1>3, <2>1
  <2>3. m \in 0..measured'
    BY <1>1, <2>1
  <2> QED BY <2>1, <2>2, <2>3 DEF ReadLater
<1>7. ASSUME NEW w \in Devices, NEW q \in Directions PROVE counters'[w][q].time <= counters'[w][q].ops * measured'
  <2>1. z.time <= z.ops * measured
    BY <1>2, <1>3
  <2>2. counters[w][q].time <= counters[w][q].ops * measured
    BY DEF HMInv, ReadingsInv
  <2>3. measured' = measured
    BY <1>1
  <2> QED BY <1>4, <2>1, <2>2, <2>3, Zenon
<1>8. ASSUME NEW h \in HMGenerations, readings[h].now.ok, NEW w \in readings[h].now.mapped, NEW q \in Directions
      PROVE  ReadLater(readings[h].now.counters[w][q], counters[w][q])'
  <2>1. PICK p : p = readings[h].now.counters[w][q]
    OBVIOUS
  <2>2. PICK c : c = counters[w][q]
    OBVIOUS
  <2>3. PICK e : e = counters'[w][q]
    OBVIOUS
  <2>4. w \in Devices /\ p \in Counted /\ ReadLater(readings[h].now.counters[w][q], counters[w][q])
    BY <1>8, <2>1 DEF HMInv, ReadingsInv
  <2>5. ReadLater(p, c) /\ c \in Counted
    BY <1>2, <2>1, <2>2, <2>4
  <2>6. e = z \/ e = c
    BY <1>4, <2>2, <2>3, <2>4
  <2>7. ReadLater(p, e)'
    BY <1>6, <2>4, <2>5, <2>6
  <2>8. readings'[h].now.counters[w][q] = p
    BY <1>1, <2>1
  <2> QED BY <2>3, <2>7, <2>8, Zenon DEF ReadLater
<1>9. ReadingsInv'
  <2>1. measured' \in Nat
    BY <1>1, <1>2
  <2>2. /\ DOMAIN prevDiskStats' = HMGenerations /\ DOMAIN readings' = HMGenerations
        /\ \A g \in HMGenerations : DOMAIN readings'[g] = {"prev", "now"}
        /\ \A g \in HMGenerations : ~readings'[g].now.ok => DOMAIN prevDiskStats'[g] = {}
    BY <1>1, Zenon DEF HMInv, ReadingsInv
  <2>3. ASSUME NEW g \in HMGenerations, readings'[g].now.ok
        PROVE  /\ readings'[g].now.mapped \subseteq Devices
               /\ DOMAIN prevDiskStats'[g] = readings'[g].now.mapped
               /\ readings'[g].now.counters \in [Devices -> [Directions -> Counted]]
               /\ \A w \in readings'[g].now.mapped : prevDiskStats'[g][w] = readings'[g].now.counters[w]
               /\ \A w \in readings'[g].now.mapped, q \in Directions : ReadLater(readings[g].now.counters[w][q], counters[w][q])'
    <3>1. readings' = readings /\ prevDiskStats' = prevDiskStats /\ readings[g].now.ok
      BY <1>1, <2>3
    <3>2. /\ readings[g].now.mapped \subseteq Devices
          /\ DOMAIN prevDiskStats[g] = readings[g].now.mapped
          /\ readings[g].now.counters \in [Devices -> [Directions -> Counted]]
          /\ \A w \in readings[g].now.mapped : prevDiskStats[g][w] = readings[g].now.counters[w]
      BY <3>1, Zenon DEF HMInv, ReadingsInv
    <3>3. \A w \in readings[g].now.mapped, q \in Directions : ReadLater(readings[g].now.counters[w][q], counters[w][q])'
      BY <1>8, <3>1
    <3> QED BY <3>1, <3>2, <3>3
  <2> QED BY <1>4, <1>7, <2>1, <2>2, <2>3, Zenon DEF ReadingsInv
<1>10. DocumentInv' /\ GatheredInv'
  BY <1>1, NothingWritten, Zenon DEF HMInv
<1>11. AveragesAreOfTheInterval'
  BY <1>1, AveragesStay, Zenon DEF HMInv
<1> QED BY <1>5, <1>9, <1>10, <1>11, Zenon DEF HMInv

--------------------------------------------------------------------------------

(* The first generation starts with nothing gathered. *)
LEMMA HostMetricsBegin == HostMetricsInit => HMInv
<1> SUFFICES ASSUME HostMetricsInit PROVE HMInv
  OBVIOUS
<1>1. 1 \in HMGenerations /\ 1 \in Nat
  BY HostMetricsAssumption DEF HMGenerations
<1>2. DOMAIN Nothing = {"id", "metrics", "inOrder"} /\ Nothing.metrics = {}
  BY DEF Nothing
<1>3. \A g \in HMGenerations : hmAt[g] \in {"start", "not started"} /\ gathered[g] = Nothing /\ instanceProperties[g] = NotKnown
  BY DEF HostMetricsInit
<1>4. {"start", "not started"} \subseteq HMPlaces \ {"local", "cloud", "text", "length"}
  BY DEF HMPlaces
<1>5. DocumentInv
  <2>1. hmAt \in [HMGenerations -> HMPlaces]
    BY <1>4 DEF HostMetricsInit
  <2>2. \A g \in HMGenerations : g > hmGen => hmAt[g] = "not started"
    <3>1. hmGen = 1 /\ \A g \in HMGenerations : g # 1 => hmAt[g] = "not started"
      BY Zenon DEF HostMetricsInit
    <3>2. \A g \in HMGenerations : g > 1 => g # 1
      BY DEF HMGenerations
    <3> QED BY <3>1, <3>2, Zenon
  <2>3. hmGen \in HMGenerations /\ DOMAIN gathered = HMGenerations
    BY <1>1 DEF HostMetricsInit
  <2>4. DOMAIN metricsXML = {"text", "length"} /\ metricsXML.text = metricsXML.length
    BY DEF HostMetricsInit
  <2>5. {"start", "not started"} \cap (Collecting \cup {"length"}) = {}
    BY DEF Collecting
  <2>6. \A g \in HMGenerations : hmAt[g] \notin Collecting /\ hmAt[g] # "length"
    BY <1>3, <2>5
  <2> QED BY <1>2, <1>3, <2>1, <2>2, <2>3, <2>4, <2>6, Zenon DEF DocumentInv, WholeDocument
<1>6. DisksInv
  <2>1. DOMAIN instanceProperties = HMGenerations
    BY DEF HostMetricsInit
  <2>2. DOMAIN NotKnown.disks = 1..0 /\ 0 \in Nat /\ \A i \in DOMAIN NotKnown.disks : FALSE
    BY DEF NotKnown
  <2>3. attached \in [Devices -> HMDisks \cup {NoDisk}] /\ \A v, w \in Devices : attached[v] = attached[w] => v = w
    BY Zenon DEF HostMetricsInit
  <2> QED BY <1>3, <2>1, <2>2, <2>3, Zenon DEF DisksInv
<1>7. GatheredInv
  <2> SUFFICES ASSUME NEW g \in HMGenerations PROVE GatheredAt(hmAt[g], gathered[g])
    BY DEF GatheredInv
  <2> QED BY <1>2, <1>3, NothingGathered, Zenon DEF GatheredAt
<1>8. ReadingsInv
  <2>1. measured = 0 /\ counters = [v \in Devices |-> [r \in Directions |-> [ops |-> 0, time |-> 0]]]
    BY DEF HostMetricsInit
  <2>2. counters \in [Devices -> [Directions -> Counted]]
    BY <2>1 DEF Counted
  <2>3. \A v \in Devices, r \in Directions : counters[v][r].time <= counters[v][r].ops * measured
    BY <2>1
  <2>4. DOMAIN prevDiskStats = HMGenerations /\ \A g \in HMGenerations : DOMAIN prevDiskStats[g] = {}
    <3>1. DOMAIN prevDiskStats = HMGenerations /\ \A g \in HMGenerations : prevDiskStats[g] = <<>>
      BY DEF HostMetricsInit
    <3>2. DOMAIN <<>> = {}
      OBVIOUS
    <3> QED BY <3>1, <3>2, Zenon
  <2>5. DOMAIN readings = HMGenerations /\ \A g \in HMGenerations : DOMAIN readings[g] = {"prev", "now"} /\ readings[g].now = NoReading
    BY DEF HostMetricsInit
  <2>6. ~NoReading.ok
    BY DEF NoReading
  <2>7. \A g \in HMGenerations : ~readings[g].now.ok
    BY <2>5, <2>6
  <2> QED BY <2>1, <2>2, <2>3, <2>4, <2>5, <2>7 DEF ReadingsInv
<1>9. AveragesAreOfTheInterval
  <2>1. \A g \in HMGenerations : hmAt[g] # "local"
    BY <1>3
  <2> QED BY <2>1, EachCollection
<1> QED BY <1>5, <1>6, <1>7, <1>8, <1>9 DEF HMInv

(* Every step of the collectors and of the host keeps the invariant. *)
LEMMA HostMetricsStep == HMInv /\ [HostMetricsNext]_hostVars => HMInv'
<1> SUFFICES ASSUME HMInv, [HostMetricsNext]_hostVars PROVE HMInv'
  OBVIOUS
<1>1. CASE UNCHANGED hostVars
  <2>1. UNCHANGED <<hmGen, hmAt, metricsXML, gathered, instanceProperties, prevDiskStats, readings, measured, counters, attached>>
    BY <1>1 DEF hostVars, hmEnv
  <2>2. DocumentInv' /\ GatheredInv'
    BY <2>1, NothingWritten, Zenon DEF HMInv
  <2>3. AveragesAreOfTheInterval'
    BY <2>1, AveragesStay, Zenon DEF HMInv
  <2> QED BY <2>1, <2>2, <2>3, DisksStay, ReadingsStay, Zenon DEF HMInv
<1>2. CASE HostMetricsNext
  BY <1>2, TickKeeps, CancelledKeeps, InstanceKeeps, ReadDisksKeeps, LocalKeeps, CloudKeeps, TextKeeps, LengthKeeps,
     RestartKeeps, InputOutputKeeps, SwapDiskKeeps, Zenon DEF HostMetricsNext
<1> QED BY <1>1, <1>2

(* No collector tears its own document: one that is torn is a mixture of two generations.
   An average is of the time between two readings of the counters of one disk, or it is
   unavailable; of a disk that took over the device in between nothing is said. And what
   Cloud Monitoring said of a disk is given as that disk's, as long as its series came in
   the order of the disks or not at all (collectHostMetrics, readDiskStatsForLinux,
   parseTimeSeriesDataByDisk). *)
THEOREM MetricsAreSound == HostMetricsSpec => []HostMetricsAreSound
<1>1. HMInv => HostMetricsAreSound
  <2> SUFFICES ASSUME HMInv PROVE HostMetricsAreSound
    OBVIOUS
  <2>1. WholeDocument
    BY DEF HMInv, DocumentInv
  <2>2. DiskValuesAreTheirOwn
    BY Zenon DEF HMInv, GatheredInv, GatheredAt, OneValue, OwnValues, DiskValuesAreTheirOwn
  <2> QED BY <2>1, <2>2 DEF HMInv, HostMetricsAreSound
<1> QED
  BY <1>1, HostMetricsBegin, HostMetricsStep, PTL DEF HostMetricsSpec

================================================================================
