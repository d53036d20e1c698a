---------------------------- MODULE HANAMonitoring ----------------------------
(***************************************************************************)
(* HANA monitoring (internal/hanamonitoring, with the connections of       *)
(* internal/databaseconnector).  A loop connects to the configured         *)
(* instances and retries, on every tick, those it did not reach.  For each *)
(* instance it reaches, a goroutine of its own submits one task per query  *)
(* to a worker pool; a task that has run puts itself back after the sample *)
(* interval, unless the database refused its credentials.                  *)
(***************************************************************************)
EXTENDS Naturals, Sequences, FiniteSets, Functions

CONSTANTS
    HANAInstances,      \* the sequence of configured instances
    Queries,        \* the queries of the configuration
    QueriesToRun,          \* [instance -> query names], what queries_to_run names
    RunAll,         \* the instances with run_all
    Key,            \* [instance -> host:user:port]
    Userstore,      \* the instances reached through hdbsql with a userstore key
    Prepared,       \* the instances a handle can be made for: a userstore key
                    \* comes with a SID, otherwise a password can be read
    Pinged,         \* connection_timeout is set: a new connection is tried out
    Threads         \* execution_threads

Jobs == Range(HANAInstances) \X Queries

ASSUME MonitoringAssumption ==
    /\ HANAInstances \in Seq(Range(HANAInstances))
    /\ Threads \in Nat \ {0} /\ Pinged \in BOOLEAN
    /\ Range(HANAInstances) = DOMAIN Key /\ Range(HANAInstances) = DOMAIN QueriesToRun
    /\ RunAll \cup Userstore \cup Prepared \subseteq Range(HANAInstances)

VARIABLES
    loop,       \* createWorkerPool: "connecting", "waiting" or "ended"
    nextInstance,       \* connectToDatabases: the index of the next instance
    reached,      \* the instances reached in this pass
    connected,  \* the keys with connectedDBs
    authError,  \* the keys in authErrorDBs
    unsent,     \* tasks the submitting goroutines have not submitted yet
    queue,      \* the pool's queue of tasks
    running,    \* the tasks that run
    timers,     \* the tasks that wait for their sample interval
    refused,    \* history: the tasks whose query the driver reported as refused
    failing,    \* the tasks with a failCount: their last run ended with an error
    hmCancelled   \* the context

connections == <<loop, nextInstance, reached, connected, authError>>
pool == <<unsent, queue, running, timers, refused, failing>>
hmVars == <<connections, pool, hmCancelled>>

MonitoringInit ==
    /\ loop = "connecting" /\ nextInstance = 1 /\ reached = {}
    /\ connected = {} /\ authError = {}
    /\ unsent = {} /\ queue = <<>> /\ running = {} /\ timers = {} /\ refused = {} /\ failing = {}
    /\ hmCancelled = FALSE

(* submitQueriesToWorkerPool: an instance that names no query, or all, runs
   every query; names the configuration does not have are skipped. *)
QueriesOf(i) ==
    IF i \in RunAll \/ QueriesToRun[i] = {} THEN Queries ELSE QueriesToRun[i] \cap Queries

(* CreateDBHandle: what a connection to i may come to.  The driver opens
   lazily, so without a ping every handle succeeds; an error of hdbsql is the
   error of a command and never an authentication error. *)
Outcomes(i) ==
    IF i \notin Prepared THEN {"error"}
    ELSE IF ~Pinged THEN {"ok"}
    ELSE IF i \in Userstore THEN {"ok", "error"}
    ELSE {"ok", "error", "auth"}

(* Mutant: the key is not recorded as connected. *)
ConnectForgets ==
    /\ loop = "connecting" /\ nextInstance <= Len(HANAInstances)
    /\ nextInstance' = nextInstance + 1
    /\ reached' = reached \cup {HANAInstances[nextInstance]}
    /\ UNCHANGED <<loop, connected, authError, pool, hmCancelled>>

(* connectToDatabases, one instance. *)
Connect ==
    /\ loop = "connecting" /\ nextInstance <= Len(HANAInstances)
    /\ nextInstance' = nextInstance + 1
    /\ LET i == HANAInstances[nextInstance]
           k == Key[i]
       IN IF k \in connected \cup authError
            THEN UNCHANGED <<reached, connected, authError>>
            ELSE \E o \in Outcomes(i) :
                   /\ reached' = IF o = "ok" THEN reached \cup {i} ELSE reached
                   /\ connected' = IF o = "ok" THEN connected \cup {k} ELSE connected
                   /\ authError' = IF o = "auth" THEN authError \cup {k} ELSE authError
    /\ UNCHANGED <<loop, pool, hmCancelled>>

(* invokeSubmitQueriesToWorkerPool: a goroutine for what the pass found.  The
   order of its instances and queries is the order of a map. *)
PassDone ==
    /\ loop = "connecting" /\ nextInstance > Len(HANAInstances)
    /\ unsent' = unsent \cup UNION {{i} \X QueriesOf(i) : i \in reached}
    /\ reached' = {} /\ nextInstance' = 1
    /\ loop' = "waiting"
    /\ UNCHANGED <<connected, authError, queue, running, timers, refused, failing, hmCancelled>>

(* The retry loop ends when a tick finds every key connected; the first pass
   is never the last one. *)
RetryTick ==
    /\ loop = "waiting"
    /\ \/ (hmCancelled \/ Range(Key) \subseteq connected) /\ loop' = "ended"
       \/ ~(Range(Key) \subseteq connected) /\ loop' = "connecting"
    /\ UNCHANGED <<nextInstance, reached, connected, authError, pool, hmCancelled>>

SubmitQuery(j) ==
    /\ j \in unsent
    /\ unsent' = unsent \ {j} /\ queue' = Append(queue, j)
    /\ UNCHANGED <<connections, running, timers, refused, failing, hmCancelled>>

(* A worker takes a task; a cancelled context ends it at once. *)
StartQuery ==
    /\ queue # <<>> /\ Cardinality(running) < Threads
    /\ queue' = Tail(queue)
    /\ running' = IF hmCancelled THEN running ELSE running \cup {Head(queue)}
    /\ UNCHANGED <<connections, unsent, timers, refused, failing, hmCancelled>>

(* Mutant: a refused task is queued again as after any other error. *)
FinishQueryAlways(j) ==
    /\ j \in running
    /\ running' = running \ {j} /\ timers' = timers \cup {j}
    /\ \/ refused' = refused \cup {j} \/ UNCHANGED refused
    /\ failing' \in {failing \ {j}, failing \cup {j}}
    /\ UNCHANGED <<connections, unsent, queue, hmCancelled>>

(* queryAndSend with queryAndSendOnce and matchQueryAndInstanceType: "ok"
   stands for a query that ran, or that is not for this kind of site; errors are
   counted, and any number of them changes nothing; a refusal the driver reports
   ends the task. *)
FinishQuery(j) ==
    /\ j \in running
    /\ running' = running \ {j}
    /\ \E o \in {"ok", "error", "refused"} :
         /\ failing' = IF o = "ok" THEN failing \ {j} ELSE failing \cup {j}
         /\ IF o = "refused" /\ j[1] \notin Userstore
              THEN refused' = refused \cup {j} /\ UNCHANGED timers
              ELSE timers' = timers \cup {j} /\ UNCHANGED refused
    /\ UNCHANGED <<connections, unsent, queue, hmCancelled>>

(* Mutant: the task is submitted again no more. *)
SampleAgainOnce(j) ==
    /\ j \in timers
    /\ timers' = timers \ {j}
    /\ UNCHANGED <<connections, unsent, queue, running, refused, failing, hmCancelled>>

(* time.AfterFunc: the worker is free for other tasks until then. *)
SampleAgain(j) ==
    /\ j \in timers
    /\ timers' = timers \ {j} /\ queue' = Append(queue, j)
    /\ UNCHANGED <<connections, unsent, running, refused, failing, hmCancelled>>

CancelMonitoring ==
    /\ ~hmCancelled /\ hmCancelled' = TRUE
    /\ UNCHANGED <<connections, pool>>

MonitoringNext ==
    \/ Connect \/ PassDone \/ RetryTick \/ StartQuery \/ CancelMonitoring
    \/ \E j \in Jobs : SubmitQuery(j) \/ FinishQuery(j) \/ SampleAgain(j)

(* The loop runs, timers fire, and the timeout of a query (and of a command)
   ends every run. *)
MonitoringFairness ==
    /\ WF_hmVars(Connect \/ PassDone \/ RetryTick)
    /\ WF_hmVars(StartQuery)
    /\ \A j \in Jobs : /\ WF_hmVars(SubmitQuery(j)) /\ WF_hmVars(FinishQuery(j))
                       /\ WF_hmVars(SampleAgain(j))

MonitoringSpec == MonitoringInit /\ [][MonitoringNext]_hmVars /\ MonitoringFairness

------------------------------------------------------------------------------
(* Where the task of a query can be, a refusal being the end of it. *)
Places == <<unsent, Range(queue), running, timers, refused>>

(* A query of an instance is one task at most, however often connecting is
   retried, and it never comes back once the database has refused it ("not
   restarting to prevent user lockout"); an instance that refused the
   connections gets no query at all. *)
OneTaskPerQuery ==
    /\ IsInjective(queue)
    /\ \A x, y \in DOMAIN Places : x # y => Places[x] \cap Places[y] = {}
    /\ \A i \in Range(HANAInstances) : Key[i] \in authError \ connected =>
         \A x \in DOMAIN Places : \A q \in Queries : <<i, q>> \notin Places[x]

(* Every query of an instance that was reached is asked, and after each run,
   whatever its outcome but a refusal, asked again, unless monitoring is
   cancelled. *)
KeepsQuerying ==
    \A i \in Range(HANAInstances) : \A q \in QueriesOf(i) :
      (i \in reached \/ <<i, q>> \in unsent \cup timers)
        ~> (hmCancelled \/ <<i, q>> \in running)

(* "After several consecutive errors, the query will not be restarted": a query that
   has nothing but errors from some time on is not asked for ever. *)
ErrorsEndQuery == \A j \in Jobs : <>[](j \in failing) => <>[](j \notin running)
==============================================================================
