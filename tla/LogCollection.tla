----------------------------- MODULE LogCollection -----------------------------
(***************************************************************************)
(* Log collection on request (internal/pubsubactions).  Each message of a  *)
(* subscription gets a handler of its own; a valid one is acknowledged     *)
(* first, then a support bundle is collected and uploaded, and an event    *)
(* with the path of the bundle is published.                               *)
(***************************************************************************)
EXTENDS SupportBundle

CONSTANTS
    Messages,       \* the messages, each the run of its bundle as well
    Commands,       \* the other executions of the command
    ValidMessages,  \* those that parse, are for this instance and name a bucket
    MaxDeliveries   \* bound on how often a message is delivered

ASSUME LogAssumption ==
    /\ Runs = Messages \cup Commands /\ Messages \cap Commands = {}
    /\ ValidMessages \subseteq Messages /\ MaxDeliveries \in Nat
    /\ Options \in [Runs -> SUBSET Flags]
    /\ \A m \in Messages : Options[m] \in {{"bucket"}, {"bucket", "identified"}}

VARIABLES
    listening,  \* LogCollectionHandler receives
    handler,    \* [message -> "none", "received", "collect" or "publish"]
    acked,      \* the messages Pub/Sub does not deliver again
    deliveries, \* [message -> how often it was delivered]
    events,     \* the published events: [message, path, delivery]
    lost        \* history: the acknowledged messages whose handler the daemon
                \* took with it, or whose event could not be published

requests == <<listening, handler, acked, deliveries, events, lost>>
logVars == <<bundles, requests>>

LogInit ==
    /\ BundlesInit
    /\ listening = FALSE
    /\ handler = [m \in Messages |-> "none"]
    /\ acked = {} /\ deliveries = [m \in Messages |-> 0] /\ events = {} /\ lost = {}

Handle(m, step) == handler' = [handler EXCEPT ![m] = step]

(* Start and the beginning of LogCollectionHandler: without a client or the
   subscription it gives up, and nothing tries again. *)
Listen ==
    /\ ~listening /\ listening' = TRUE
    /\ UNCHANGED <<bundles, handler, acked, deliveries, events, lost>>

Deliver(m) ==
    /\ listening /\ m \notin acked /\ handler[m] = "none"
    /\ deliveries[m] < MaxDeliveries
    /\ deliveries' = [deliveries EXCEPT ![m] = @ + 1]
    /\ Handle(m, "received")
    /\ UNCHANGED <<bundles, listening, acked, events, lost>>

(* Mutant: the message is acknowledged when it has been dealt with. *)
ReceiveAcksLate(m) ==
    /\ handler[m] = "received"
    /\ IF m \in ValidMessages THEN Handle(m, "collect") ELSE Handle(m, "none")
    /\ UNCHANGED <<bundles, listening, acked, deliveries, events, lost>>

(* A message that is malformed or not for this agent is refused, and so comes
   again; every other one is acknowledged before anything is done. *)
Receive(m) ==
    /\ handler[m] = "received"
    /\ IF m \in ValidMessages
         THEN acked' = acked \cup {m} /\ Handle(m, "collect")
         ELSE Handle(m, "none") /\ UNCHANGED acked
    /\ UNCHANGED <<bundles, listening, deliveries, events, lost>>

(* bundleCollection: the command runs in the handler. *)
Collect(m) ==
    /\ handler[m] = "collect"
    /\ IF pc[m] = "idle" THEN Launch(m) /\ UNCHANGED handler
         ELSE IF pc[m] # "done" THEN BundleStep(m) /\ UNCHANGED handler
         ELSE /\ Handle(m, IF status[m] = "success" THEN "publish" ELSE "none")
              /\ UNCHANGED bundles
    /\ UNCHANGED <<listening, acked, deliveries, events, lost>>

(* publishEvent: without a client or the topic nothing is published; a Nack no
   longer brings the message back. *)
Publish(m) ==
    /\ handler[m] = "publish"
    /\ Handle(m, "none")
    /\ \/ /\ events' = events \cup {[message |-> m, path |-> Name[m], delivery |-> deliveries[m]]}
          /\ UNCHANGED lost
       \/ lost' = lost \cup {m} /\ UNCHANGED events
    /\ UNCHANGED <<bundles, listening, acked, deliveries>>

(* The daemon stops: its handlers are gone, with the bundles they work on left
   as they are. *)
Restart ==
    /\ listening /\ listening' = FALSE
    /\ handler' = [m \in Messages |-> "none"]
    /\ lost' = lost \cup {m \in Messages : handler[m] \in {"collect", "publish"}}
    /\ pc' = [p \in Runs |-> IF p \in Messages /\ pc[p] # "idle" THEN "done" ELSE pc[p]]
    /\ UNCHANGED <<rotated, uploaded, status, parent, bucket, acked, deliveries, events>>

Command(p) ==
    /\ Launch(p) \/ BundleStep(p)
    /\ UNCHANGED requests

LogNext ==
    \/ Listen \/ Restart
    \/ \E m \in Messages : Deliver(m) \/ Receive(m) \/ Collect(m) \/ Publish(m)
    \/ \E p \in Commands : Command(p)

LogSpec == LogInit /\ [][LogNext]_logVars

------------------------------------------------------------------------------
(* No other bundle has the name of this message's. *)
Alone(m) ==
    /\ \A p \in Runs : Name[p] = Name[m] => p = m
    /\ \A k \in DOMAIN Old : Old[k] # Name[m]

(* The path of a published event leads to an object that holds the bundle of that
   message and nothing else, whatever other bundles are collected, uploaded and
   rotated at the same time; messages that begin in the same second share the name,
   and each may find the other's bundle there, but no third one.  A message makes one
   event at most ("we don't want to process the same message again"), and when its
   handler is over it has made one, or its command did not succeed, or it is among
   those lost: acknowledged first, it does not come again after the daemon stopped or
   the event was not published. *)
EventHasItsBundle ==
    /\ \A e \in events :
         /\ e.path = Name[e.message] /\ e.path \in DOMAIN bucket
         /\ bucket[e.path].by \subseteq {p \in Runs : Name[p] = e.path}
         /\ Alone(e.message) => bucket[e.path].by = {e.message}
         /\ \A f \in events : f.message = e.message => f = e
    /\ \A m \in acked : handler[m] = "none" =>
         \/ m \in lost \/ status[m] \in {"failure", "usage", "panic"}
         \/ \E e \in events : e.message = m
==============================================================================
