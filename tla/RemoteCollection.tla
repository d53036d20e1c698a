--------------------------- MODULE RemoteCollection ---------------------------
(***************************************************************************)
(* Remote collection of workload metrics (internal/workloadmanager/        *)
(* remote.go).  A pool of workers takes one remote host each, copies the   *)
(* configuration and the agent to it, runs the agent there and sends what  *)
(* it answered.                                                            *)
(***************************************************************************)
EXTENDS Naturals, FiniteSets

CONSTANTS
    Hosts,          \* remote_collection_instances
    Method,         \* "ssh", "gcloud" or "none"
    Workers,        \* concurrent_collections
    MaxCollections  \* bound on the collections, one per interval

VARIABLES
    collecting, \* collectAndSendRemoteMetrics is under way
    tempFile,   \* the temporary file with the configuration exists
    at,         \* [host -> "none", "queued", the next step, or "answered"]
    answer,     \* [host -> whether metrics came back]
    remote,     \* [host -> the files on it: "binary", "config"]
    sends,      \* [host -> the sends of this collection]
    collections

remoteVars == <<collecting, tempFile, at, answer, remote, sends, collections>>

RemoteInit ==
    /\ collecting = FALSE /\ tempFile = FALSE
    /\ at = [h \in Hosts |-> "none"] /\ answer = [h \in Hosts |-> FALSE]
    /\ remote = [h \in Hosts |-> {}] /\ sends = [h \in Hosts |-> 0]
    /\ collections = 0

RemoteSteps == {"removeBinary", "copyConfig", "copyBinary", "execute"}
Busy == {h \in Hosts : at[h] \in RemoteSteps \cup {"answered"}}
GoOn(h, step) == at' = [at EXCEPT ![h] = step]
Answer(h, metrics) == GoOn(h, "answered") /\ answer' = [answer EXCEPT ![h] = metrics]

(* Without a method, or a file for the configuration, nothing is collected. *)
Collect ==
    /\ ~collecting /\ collections < MaxCollections
    /\ collections' = collections + 1
    /\ sends' = [h \in Hosts |-> 0]
    /\ \/ Method # "none" /\ collecting' = TRUE /\ tempFile' = TRUE
            /\ at' = [h \in Hosts |-> "queued"]
       \/ UNCHANGED <<collecting, tempFile, at>>
    /\ UNCHANGED <<answer, remote>>

(* A worker of the pool; the routine it starts asks for gcloud first, which may
   not be installed. *)
TakeHost(h) ==
    /\ at[h] = "queued" /\ Cardinality(Busy) < Workers
    /\ \/ GoOn(h, "removeBinary") /\ UNCHANGED answer
       \/ Method = "gcloud" /\ Answer(h, FALSE)
    /\ UNCHANGED <<collecting, tempFile, remote, sends, collections>>

(* An error of rm -f changes nothing. *)
RemoveBinary(h) ==
    /\ at[h] = "removeBinary" /\ GoOn(h, "copyConfig")
    /\ \E gone \in {{}, {"binary"}} : remote' = [remote EXCEPT ![h] = @ \ gone]
    /\ UNCHANGED <<collecting, tempFile, answer, sends, collections>>

(* Mutant: an error of a copy ends the routine without an answer. *)
CopyToForgets(h, step, file, onward) ==
    /\ at[h] = step
    /\ \/ remote' = [remote EXCEPT ![h] = @ \cup {file}] /\ GoOn(h, onward)
       \/ GoOn(h, "lost") /\ UNCHANGED remote
    /\ UNCHANGED <<collecting, tempFile, answer, sends, collections>>

(* An error of a copy ends the collection from this host with no metrics; what
   was copied before stays there. *)
CopyTo(h, step, file, onward) ==
    /\ at[h] = step
    /\ \/ remote' = [remote EXCEPT ![h] = @ \cup {file}] /\ GoOn(h, onward) /\ UNCHANGED answer
       \/ remote' = [remote EXCEPT ![h] = @ \cup {file}] /\ Answer(h, FALSE)
       \/ Answer(h, FALSE) /\ UNCHANGED remote
    /\ UNCHANGED <<collecting, tempFile, sends, collections>>

CopyConfig(h) ==
    IF tempFile THEN CopyTo(h, "copyConfig", "config", "copyBinary")
      ELSE /\ at[h] = "copyConfig" /\ Answer(h, FALSE)
           /\ UNCHANGED <<collecting, tempFile, remote, sends, collections>>
CopyBinary(h) == CopyTo(h, "copyBinary", "binary", "execute")

(* remote; rm; rm: the error of the command is that of its last part, an agent
   that fails prints ERROR, and the metrics before a line that cannot be parsed
   are kept. *)
Execute(h) ==
    /\ at[h] = "execute"
    /\ \/ /\ \E metrics \in BOOLEAN : Answer(h, metrics)
          /\ \E left \in SUBSET {"binary"} : remote' = [remote EXCEPT ![h] = @ \cap left]
       \/ /\ Answer(h, FALSE)
          /\ \E left \in SUBSET remote[h] : remote' = [remote EXCEPT ![h] = left]
    /\ UNCHANGED <<collecting, tempFile, sends, collections>>

(* The worker has the answer of its routine and sends it, empty or not. *)
SendFor(h) ==
    /\ at[h] = "answered" /\ GoOn(h, "none")
    /\ sends' = [sends EXCEPT ![h] = @ + 1]
    /\ UNCHANGED <<collecting, tempFile, answer, remote, collections>>

(* StopWait and the deferred removal of the file. *)
FinishCollection ==
    /\ collecting /\ \A h \in Hosts : at[h] = "none"
    /\ collecting' = FALSE
    /\ tempFile' = FALSE
    /\ UNCHANGED <<at, answer, remote, sends, collections>>

HostStep(h) ==
    \/ TakeHost(h) \/ RemoveBinary(h) \/ CopyConfig(h) \/ CopyBinary(h) \/ Execute(h) \/ SendFor(h)

RemoteNext ==
    \/ Collect \/ FinishCollection
    \/ \E h \in Hosts : HostStep(h)

(* Workers run, and every command they run has a timeout. *)
RemoteFairness ==
    /\ WF_remoteVars(FinishCollection)
    /\ \A h \in Hosts : WF_remoteVars(HostStep(h))

RemoteSpec == RemoteInit /\ [][RemoteNext]_remoteVars /\ RemoteFairness

------------------------------------------------------------------------------
(* A collection that has begun comes to its end, whatever the hosts answer and
   wherever their commands fail, and by then each host was sent for exactly
   once, reached or not. *)
EachHostOnce == collecting ~> (~collecting /\ \A h \in Hosts : sends[h] = 1)
==============================================================================
