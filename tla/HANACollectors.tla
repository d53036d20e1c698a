---------------------------- MODULE HANACollectors ----------------------------
(* The collectors of one HANA instance (internal/processmetrics/hana and
   fastmovingmetrics): the slow one, the fast one and the one of the reliability
   metrics, which share the instance that discovery found, and their next
   generation, which process metrics start when the instances change. *)
EXTENDS Naturals

CONSTANTS
    HasCredentials,     \* a user and its password, or a key of hdbuserstore
    SkippedGroups,      \* the groups of metrics of which one is to be skipped
    MaxAttempts,        \* of a collection: the first and its retries
    MaxHANAGenerations,
    MaxTakeovers,       \* bound on the changes of the replication role
    MaxResets           \* bound on the changes of the password

ASSUME HANACollectorsAssumption ==
    /\ HasCredentials \in BOOLEAN
    /\ SkippedGroups \subseteq {"service", "query", "log", "availability", "ha"}
    /\ MaxAttempts \in Nat \ {0} /\ MaxHANAGenerations \in Nat \ {0} /\ MaxTakeovers \in Nat /\ MaxResets \in Nat

HANAGenerations == 1..MaxHANAGenerations
Sites == {"primary", "secondary", "standalone"}

VARIABLES
    hcGen,          \* the generation of collectors that is not cancelled
    site,           \* [generation -> the site in the instance its collectors share]
    slowAt, fastAt, \* [generation -> where the collector is]
    attempt,        \* [slow, fast -> [generation -> the attempt it makes]]
    slowErr,        \* [generation -> the attempt met an error]
    queryFailCount, \* [generation -> HANAQueryFailCount]
    collected,      \* [generation -> what the last fast collection sent]
    role,           \* the site of the instance as HANA has it
    takeovers,
    password,       \* "right" or "wrong": what the agent has
    resets,
    refusedInARow   \* logins refused since the last that was accepted

hcEnv == <<role, takeovers, password, resets>>
hcSlow == <<slowAt, slowErr, queryFailCount, refusedInARow>>
hcFast == <<fastAt, collected>>
hcVars == <<hcGen, site, attempt, hcSlow, hcFast, hcEnv>>

HANAInit ==
    /\ role \in Sites /\ takeovers = 0
    /\ password \in {"right", "wrong"} /\ resets = 0 /\ refusedInARow = 0
    /\ hcGen = 1
    /\ site = [g \in HANAGenerations |-> role]
    /\ slowAt = [g \in HANAGenerations |-> "idle"] /\ slowErr = [g \in HANAGenerations |-> FALSE]
    /\ fastAt = [g \in HANAGenerations |-> "idle"]
    /\ attempt = [c \in {"slow", "fast"} |-> [g \in HANAGenerations |-> 1]]
    /\ queryFailCount = [g \in HANAGenerations |-> 0]
    /\ collected = [g \in HANAGenerations |-> {"nothing yet"}]

HANAOver(g) == g # hcGen
SlowTo(g, where) == slowAt' = [slowAt EXCEPT ![g] = where]
FastTo(g, where) == fastAt' = [fastAt EXCEPT ![g] = where]
Attempt(c, g, n) == attempt' = [attempt EXCEPT ![c][g] = n]
NoteError(g, e) == slowErr' = [slowErr EXCEPT ![g] = @ \/ e]

------------------------------------------------------------------------------
(* InstanceProperties.Collect of the slow collector: the services, the query and
   the log, each of them whether or not the one before failed. *)
SlowCollect(g) ==
    /\ g <= hcGen /\ slowAt[g] = "idle" /\ ~HANAOver(g)
    /\ SlowTo(g, "service")
    /\ UNCHANGED <<hcGen, site, attempt, slowErr, queryFailCount, refusedInARow, hcFast, hcEnv>>

(* collectHANAServiceMetrics *)
HANAService(g) ==
    /\ slowAt[g] = "service" /\ SlowTo(g, "query")
    /\ \E e \in (IF "service" \in SkippedGroups THEN {FALSE} ELSE BOOLEAN) : NoteError(g, e)
    /\ UNCHANGED <<hcGen, site, attempt, queryFailCount, refusedInARow, hcFast, hcEnv>>

maxHANAQueryFailCount == 2

(* Mutant: the count of failures is not asked. *)
MayQueryAlways(g) == HasCredentials /\ site[g] # "secondary" /\ "query" \notin SkippedGroups

MayQuery(g) ==
    /\ HasCredentials /\ site[g] # "secondary" /\ "query" \notin SkippedGroups
    /\ queryFailCount[g] < maxHANAQueryFailCount

(* collectHANAQueryMetrics and runHANAQuery: a refused login is counted; a query
   that fails otherwise does not reach the login or passes it. A failure of the
   query is reported as a state and is no error. *)
HANAQuery(g) ==
    /\ slowAt[g] = "query" /\ SlowTo(g, "log")
    /\ IF MayQuery(g)
         THEN \/ /\ password = "wrong"
                 /\ queryFailCount' = [queryFailCount EXCEPT ![g] = @ + 1]
                 /\ refusedInARow' = refusedInARow + 1
              \/ /\ password = "right" /\ refusedInARow' = 0
                 /\ UNCHANGED queryFailCount
              \/ UNCHANGED <<queryFailCount, refusedInARow>>
         ELSE UNCHANGED <<queryFailCount, refusedInARow>>
    /\ UNCHANGED <<hcGen, site, attempt, slowErr, hcFast, hcEnv>>

(* collectHANALogUtilisationKb, and backoff.Retry around all three. *)
HANALog(g) ==
    /\ slowAt[g] = "log"
    /\ \E e \in (IF "log" \in SkippedGroups THEN {FALSE} ELSE BOOLEAN) :
         IF (slowErr[g] \/ e) /\ attempt["slow"][g] < MaxAttempts /\ ~HANAOver(g)
           THEN /\ SlowTo(g, "service") /\ Attempt("slow", g, attempt["slow"][g] + 1)
                /\ slowErr' = [slowErr EXCEPT ![g] = FALSE]
           ELSE /\ SlowTo(g, "idle") /\ Attempt("slow", g, 1)
                /\ slowErr' = [slowErr EXCEPT ![g] = FALSE]
    /\ UNCHANGED <<hcGen, site, queryFailCount, refusedInARow, hcFast, hcEnv>>

------------------------------------------------------------------------------
(* The fast collector: a failure ends the attempt. *)
FastCollect(g) ==
    /\ g <= hcGen /\ fastAt[g] = "idle" /\ ~HANAOver(g)
    /\ FastTo(g, "availability") /\ collected' = [collected EXCEPT ![g] = {"nothing yet"}]
    /\ UNCHANGED <<hcGen, site, attempt, hcSlow, hcEnv>>

Sends(g, what) ==
    FastTo(g, "idle") /\ Attempt("fast", g, 1) /\ collected' = [collected EXCEPT ![g] = what]

(* Mutant: an error after the last attempt sends nothing. *)
FastFailsSilent(g) ==
    IF HANAOver(g) THEN Sends(g, {"cancelled"})
    ELSE IF attempt["fast"][g] < MaxAttempts
      THEN FastTo(g, "availability") /\ Attempt("fast", g, attempt["fast"][g] + 1) /\ UNCHANGED collected
      ELSE Sends(g, {})

(* CollectWithRetry after the last attempt failed: nothing but zeros for the state
   of the replication, which are sent although they are to be skipped; a
   collection that is cancelled sends nothing. *)
FastFails(g) ==
    IF HANAOver(g) THEN Sends(g, {"cancelled"})
    ELSE IF attempt["fast"][g] < MaxAttempts
      THEN FastTo(g, "availability") /\ Attempt("fast", g, attempt["fast"][g] + 1) /\ UNCHANGED collected
      ELSE Sends(g, {"ha"})

Available == {"availability"} \ SkippedGroups

(* collectHANAAvailabilityMetrics: the process list... *)
Availability(g) ==
    /\ fastAt[g] = "availability"
    /\ \/ "availability" \notin SkippedGroups /\ FastFails(g)
       \/ "ha" \in SkippedGroups /\ Sends(g, Available)
       \/ "ha" \notin SkippedGroups /\ FastTo(g, "replication") /\ UNCHANGED <<attempt, collected>>
    /\ UNCHANGED <<hcGen, site, hcSlow, hcEnv>>

(* ...refreshHAReplicationConfig, which writes the site into the shared instance... *)
Replication(g) ==
    /\ fastAt[g] = "replication"
    /\ \/ FastFails(g) /\ UNCHANGED site
       \/ FastTo(g, "processes") /\ site' = [site EXCEPT ![g] = role] /\ UNCHANGED <<attempt, collected>>
    /\ UNCHANGED <<hcGen, hcSlow, hcEnv>>

(* ...and the exit status of a second process list. *)
Processes(g) ==
    /\ fastAt[g] = "processes"
    /\ \/ FastFails(g)
       \/ Sends(g, Available \cup {"ha"})
    /\ UNCHANGED <<hcGen, site, hcSlow, hcEnv>>

(* The reliability collector goes the same way without anything to skip; what it
   returns is dropped. Only the site remains, that each of its attempts writes
   where it has the instance from discovery and no copy of its own, and so does a
   collection that its cancelled generation still has under way. *)
Reliability(g) ==
    /\ g <= hcGen /\ site' = [site EXCEPT ![g] = role]
    /\ UNCHANGED <<hcGen, attempt, hcSlow, hcFast, hcEnv>>

------------------------------------------------------------------------------
(* updateMetricsCollectors starts the next generation with what discovery found
   lately, and with a count of zero. *)
NextHANAGeneration ==
    /\ hcGen < MaxHANAGenerations
    /\ hcGen' = hcGen + 1
    /\ \E found \in {role, site[hcGen]} : site' = [site EXCEPT ![hcGen + 1] = found]
    /\ UNCHANGED <<attempt, hcSlow, hcFast, hcEnv>>

Takeover ==
    /\ takeovers < MaxTakeovers /\ role # "standalone"
    /\ takeovers' = takeovers + 1
    /\ role' = IF role = "primary" THEN "secondary" ELSE "primary"
    /\ UNCHANGED <<hcGen, site, attempt, hcSlow, hcFast, password, resets>>

ResetPassword ==
    /\ resets < MaxResets /\ resets' = resets + 1
    /\ password' = IF password = "right" THEN "wrong" ELSE "right"
    /\ UNCHANGED <<hcGen, site, attempt, hcSlow, hcFast, role, takeovers>>

HANANext ==
    \/ \E g \in HANAGenerations :
         \/ SlowCollect(g) \/ HANAService(g) \/ HANAQuery(g) \/ HANALog(g)
         \/ FastCollect(g) \/ Availability(g) \/ Replication(g) \/ Processes(g)
         \/ Reliability(g)
    \/ NextHANAGeneration \/ Takeover \/ ResetPassword

HANASpec == HANAInit /\ [][HANANext]_hcVars

------------------------------------------------------------------------------
(* Every fast collection that is not cancelled sends the state of the replication,
   be it that all attempts failed, at whatever part, unless its metrics are skipped;
   and while collectors of one generation come and go, the logins they have refused
   stay below the three that lock the user out: only a new generation, or a
   password that is changed back, begins to count again. *)
CollectorsKeepToTheirBounds ==
    /\ \A g \in HANAGenerations :
         fastAt[g] = "idle" /\ collected[g] \cap {"nothing yet", "cancelled"} = {} /\ "ha" \notin SkippedGroups
           => "ha" \in collected[g]
    /\ \A n \in HANAGenerations : hcGen = n => refusedInARow <= maxHANAQueryFailCount * n

(* HANA locks a user out after three logins were refused in a row
   (hana.go: "so we will have only two max fail counts"). *)
NeverLocksOut == refusedInARow < 3
==============================================================================
