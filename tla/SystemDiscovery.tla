---------------------------- MODULE SystemDiscovery ----------------------------
(***************************************************************************)
(* System discovery (internal/system/discovery.go).  One goroutine keeps   *)
(* the list of SAP instances, another discovers the SAP systems in rounds  *)
(* and sends each to the Workload Manager; when that is forbidden, a       *)
(* goroutine of its own tries again until the next round cancels it.  The  *)
(* caller waits, for a bounded time, until both lists are there.           *)
(***************************************************************************)
EXTENDS Naturals, Sequences, Functions

CONSTANTS
    Systems,        \* the SAP systems of this host, in the order of discovery
    MaxRounds       \* bound on the rounds of discovery

ASSUME DiscoveryAssumption == Systems \in Seq(Range(Systems)) /\ MaxRounds \in Nat

VARIABLES
    override,    \* system.json exists: one system, no instances
    enabled,     \* enable_discovery
    caller,      \* "instances", "systems" (waiting for them) or "returned"
    listed,      \* whether sapInstances is set
    lister,      \* updateSAPInstances: "discover", "wait" or "ended"
    discovery,   \* runDiscovery: "off", "discover", "send", "publish", "wait", "ended"
    round,       \* the number of the round
    nextSystem,  \* sendSystemsToWLM: the index of the next system
    systems,     \* the round whose systems GetSAPSystems returns, or 0
    retries,     \* goroutines that send again: [sys, round, sending]
    cancelFunc,  \* writeInsightCancelFunc: the retry it ends, <<sys, round>>
    sdCancelled, \* the retries whose context is cancelled
    wlm,         \* [system -> the round of the data the Workload Manager has]
    sdDone       \* the context of the daemon is cancelled

sdConfig == <<override, enabled>>
rounds == <<discovery, round, nextSystem, systems>>
insight == <<retries, cancelFunc, sdCancelled, wlm>>
sdVars == <<sdConfig, caller, listed, lister, rounds, insight, sdDone>>

DiscoveryInit ==
    /\ override \in BOOLEAN /\ enabled \in BOOLEAN
    /\ caller = "instances"
    /\ listed = FALSE /\ lister = "discover"
    /\ discovery = "off" /\ round = 0 /\ nextSystem = 1 /\ systems = 0
    /\ retries = {} /\ cancelFunc = {} /\ sdCancelled = {}
    /\ wlm = [s \in Range(Systems) |-> 0]
    /\ sdDone = FALSE

(* updateSAPInstances: with the override file there are none, once; otherwise
   every tick brings a new list. *)
ListInstances ==
    /\ lister = "discover"
    /\ listed' = TRUE
    /\ lister' = IF override THEN "ended" ELSE "wait"
    /\ UNCHANGED <<sdConfig, caller, rounds, insight, sdDone>>

ListerWaits ==
    /\ lister = "wait"
    /\ lister' = IF sdDone THEN "ended" ELSE "discover"
    /\ UNCHANGED <<sdConfig, caller, listed, rounds, insight, sdDone>>

(* StartSAPSystemDiscovery: a wait of at most 120 seconds for each list; after
   the first one the discovery of systems starts, whatever came of it. *)
CallerContinues ==
    /\ \/ caller = "instances" /\ caller' = "systems" /\ discovery' = "discover"
       \/ caller = "systems" /\ caller' = "returned" /\ UNCHANGED discovery
    /\ UNCHANGED <<sdConfig, listed, lister, round, nextSystem, systems, insight, sdDone>>

(* discoverSAPSystems, with the instances listed so far. *)
DiscoverSystems ==
    /\ discovery = "discover" /\ round < MaxRounds
    /\ round' = round + 1 /\ nextSystem' = 1
    /\ discovery' = IF enabled THEN "send" ELSE "publish"
    /\ UNCHANGED <<sdConfig, caller, listed, lister, systems, insight, sdDone>>

(* sendSystemsToWLM, one system.  The cancel function of the retry replaces
   that of the system before it. *)
SendInsight ==
    /\ discovery = "send" /\ nextSystem <= Len(Systems)
    /\ nextSystem' = nextSystem + 1
    /\ LET s == Systems[nextSystem]
       IN \/ wlm' = [wlm EXCEPT ![s] = round] /\ UNCHANGED <<retries, cancelFunc>>
          \/ UNCHANGED <<wlm, retries, cancelFunc>>
          \/ /\ retries' = retries \cup {[sys |-> s, round |-> round, sending |-> FALSE]}
             /\ cancelFunc' = {<<s, round>>}
             /\ UNCHANGED wlm
    /\ UNCHANGED <<sdConfig, caller, listed, lister, discovery, round, systems,
                   sdCancelled, sdDone>>

AllSent ==
    /\ discovery = "send" /\ nextSystem > Len(Systems)
    /\ discovery' = "publish"
    /\ UNCHANGED <<sdConfig, caller, listed, lister, round, nextSystem, systems,
                   insight, sdDone>>

PublishSystems ==
    /\ discovery = "publish"
    /\ systems' = round /\ discovery' = "wait"
    /\ UNCHANGED <<sdConfig, caller, listed, lister, round, nextSystem, insight, sdDone>>

(* Mutant: the retry of the last round goes on. *)
NextRoundForgets ==
    /\ discovery = "wait"
    /\ discovery' = IF sdDone THEN "ended" ELSE "discover"
    /\ cancelFunc' = {}
    /\ UNCHANGED <<sdConfig, caller, listed, lister, round, nextSystem, systems,
                   retries, sdCancelled, wlm, sdDone>>

(* A tick ends the retry of the last round; its data is about to be replaced. *)
NextRound ==
    /\ discovery = "wait"
    /\ IF sdDone THEN discovery' = "ended" /\ UNCHANGED <<cancelFunc, sdCancelled>>
               ELSE /\ discovery' = "discover" /\ cancelFunc' = {}
                    /\ sdCancelled' = sdCancelled \cup cancelFunc
    /\ UNCHANGED <<sdConfig, caller, listed, lister, round, nextSystem, systems,
                   retries, wlm, sdDone>>

RetryOver(r) == sdDone \/ <<r.sys, r.round>> \in sdCancelled

(* The retrying goroutine: every two minutes it sends the same data again, and
   goes on while that is forbidden.  select may take the tick although the
   context has ended, and a request may be under way when it ends. *)
Retry(r) ==
    /\ r \in retries
    /\ \/ /\ ~r.sending
          /\ retries' = (retries \ {r}) \cup {[r EXCEPT !.sending = TRUE]}
          /\ UNCHANGED wlm
       \/ /\ r.sending
          /\ \/ retries' = retries \ {r} /\ wlm' = [wlm EXCEPT ![r.sys] = r.round]
             \/ retries' = retries \ {r} /\ UNCHANGED wlm
             \/ retries' = (retries \ {r}) \cup {[r EXCEPT !.sending = FALSE]}
                  /\ UNCHANGED wlm
    /\ UNCHANGED <<sdConfig, caller, listed, lister, rounds, cancelFunc,
                   sdCancelled, sdDone>>

RetryEnds(r) ==
    /\ r \in retries /\ ~r.sending /\ RetryOver(r)
    /\ retries' = retries \ {r}
    /\ UNCHANGED <<sdConfig, caller, listed, lister, rounds, cancelFunc,
                   sdCancelled, wlm, sdDone>>

StopDiscovery ==
    /\ ~sdDone /\ sdDone' = TRUE
    /\ UNCHANGED <<sdConfig, caller, listed, lister, rounds, insight>>

DiscoveryNext ==
    \/ ListInstances \/ ListerWaits \/ CallerContinues
    \/ DiscoverSystems \/ SendInsight \/ AllSent \/ PublishSystems \/ NextRound
    \/ \E r \in retries : Retry(r) \/ RetryEnds(r)
    \/ StopDiscovery

DiscoverySpec == DiscoveryInit /\ [][DiscoveryNext]_sdVars

------------------------------------------------------------------------------
(* A retry of an earlier round lives on only when the cancel function of a
   later system of the same round took the place of its own. *)
Replaced(r) ==
    \E k \in DOMAIN Systems : \E m \in 1..(k - 1) :
      /\ Systems[m] = r.sys
      /\ <<Systems[k], r.round>> \in sdCancelled

RetryEndsWithItsRound ==
    \A r \in retries : (discovery = "discover" \/ r.round < round) => RetryOver(r) \/ Replaced(r)

(* Data of an earlier round does not replace that of a later one. *)
NewestInsightStays == [][\A s \in Range(Systems) : wlm'[s] >= wlm[s]]_wlm
==============================================================================
