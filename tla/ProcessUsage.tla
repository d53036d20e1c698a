----------------------------- MODULE ProcessUsage -----------------------------
(* The collector of the disk usage per process (CollectIOPSPerProcess of
   computeresources): it remembers the counters of the collection before in a map
   and reports differences. Processes read and write, end, and leave their PID to
   others of the same name; a collection that meets an error is tried again. *)
EXTENDS MetricCollection, FiniteSets

CONSTANTS
    Labels,             \* name and PID of a process: the key of the map
    MaxUsageAttempts,   \* of the backoff of process metrics
    MaxBytes,           \* bound on what one process reads
    MaxIncarnations     \* bound on the processes with the same label

(* The counters are unsigned, here of six bits: a difference below zero is a huge
   number. *)
Width == 64
Difference(a, b) == (a + Width - b) % Width

NoValue == Width

(* No process reads so much that its counter starts anew. *)
ASSUME ProcessUsageAssumption ==
    /\ IsFiniteSet(Labels)
    /\ MaxUsageAttempts \in Nat \ {0} /\ MaxBytes \in 0..(Width - 1) /\ MaxIncarnations \in Nat

VARIABLES
    bytes,          \* [label -> the counter of its process, NoValue when there is none]
    incarnation,    \* [label -> how many processes had it]
    lastValue,      \* LastValue: [label -> the counter of the collection before, or NoValue]
    visited,        \* labels the attempt has asked
    usageErr,       \* the attempt met an error
    usageAttempt,   \* 0 when no collection runs
    usages,         \* [label -> the difference the attempt has, or NoValue]
    first,          \* [label -> the counter when this process was seen first, or NoValue]
    foreign,        \* [label -> the difference the attempt has is not of this process alone]
    reported        \* [label -> the sum of the differences sent that are of this process]

puVars == <<bytes, incarnation, lastValue, visited, usageErr, usageAttempt, usages, first, foreign, reported>>

UsageInit ==
    /\ bytes = [l \in Labels |-> 0] /\ incarnation = [l \in Labels |-> 1]
    /\ lastValue = [l \in Labels |-> NoValue]
    /\ visited = {} /\ usageErr = FALSE /\ usageAttempt = 0
    /\ usages = [l \in Labels |-> NoValue]
    /\ first = [l \in Labels |-> NoValue] /\ foreign = [l \in Labels |-> FALSE] /\ reported = [l \in Labels |-> 0]

CollectUsage ==
    /\ usageAttempt = 0 /\ usageAttempt' = 1
    /\ visited' = {} /\ usageErr' = FALSE /\ usages' = [l \in Labels |-> NoValue]
    /\ UNCHANGED <<bytes, incarnation, lastValue, first, foreign, reported>>

(* Mutant: a difference is taken without remembering what it was taken to. *)
ReadCountersOnce(l) ==
    /\ usageAttempt # 0 /\ l \notin visited /\ visited' = visited \cup {l}
    /\ \/ /\ usageErr' = TRUE
          /\ UNCHANGED <<lastValue, usages, first, foreign>>
       \/ /\ bytes[l] # NoValue
          /\ lastValue' = [lastValue EXCEPT ![l] = IF @ = NoValue THEN bytes[l] ELSE @]
          /\ usages' = [usages EXCEPT ![l] =
                          IF lastValue[l] = NoValue THEN NoValue ELSE Difference(bytes[l], lastValue[l])]
          /\ first' = [first EXCEPT ![l] = IF @ = NoValue THEN bytes[l] ELSE @]
          /\ foreign' = [foreign EXCEPT ![l] = first[l] = NoValue]
          /\ UNCHANGED usageErr
    /\ UNCHANGED <<bytes, incarnation, usageAttempt, reported>>

(* IOCountersWithContext of one process; a process that is gone is an error. The
   first value of a label is only remembered; the first value of a process that got
   the label of another is taken for a later value of that one. *)
ReadCounters(l) ==
    /\ usageAttempt # 0 /\ l \notin visited /\ visited' = visited \cup {l}
    /\ \/ /\ usageErr' = TRUE
          /\ UNCHANGED <<lastValue, usages, first, foreign>>
       \/ /\ bytes[l] # NoValue
          /\ lastValue' = [lastValue EXCEPT ![l] = bytes[l]]
          /\ usages' = [usages EXCEPT ![l] =
                          IF lastValue[l] = NoValue THEN NoValue ELSE Difference(bytes[l], lastValue[l])]
          /\ first' = [first EXCEPT ![l] = IF @ = NoValue THEN bytes[l] ELSE @]
          /\ foreign' = [foreign EXCEPT ![l] = first[l] = NoValue]
          /\ UNCHANGED usageErr
    /\ UNCHANGED <<bytes, incarnation, usageAttempt, reported>>

Sent(l) == IF usages[l] = NoValue \/ foreign[l] THEN 0 ELSE usages[l]

(* The processes are listed again for every attempt, so one that ended may be
   missing; only what the last attempt found is sent. *)
EndUsage ==
    /\ usageAttempt # 0 /\ \A l \in Labels \ visited : bytes[l] = NoValue
    /\ IF usageErr /\ usageAttempt < MaxUsageAttempts
         THEN /\ usageAttempt' = usageAttempt + 1 /\ visited' = {} /\ usageErr' = FALSE
              /\ usages' = [l \in Labels |-> NoValue] /\ UNCHANGED reported
         ELSE /\ usageAttempt' = 0
              /\ reported' = [l \in Labels |-> reported[l] + Sent(l)]
              /\ UNCHANGED <<visited, usageErr, usages>>
    /\ UNCHANGED <<bytes, incarnation, lastValue, first, foreign>>

------------------------------------------------------------------------------
ProcessReads(l) ==
    /\ bytes[l] < MaxBytes /\ bytes' = [bytes EXCEPT ![l] = @ + 1]
    /\ UNCHANGED <<incarnation, lastValue, visited, usageErr, usageAttempt, usages, first, foreign, reported>>

ProcessEnds(l) ==
    /\ bytes[l] # NoValue /\ bytes' = [bytes EXCEPT ![l] = NoValue]
    /\ UNCHANGED <<incarnation, lastValue, visited, usageErr, usageAttempt, usages, first, foreign, reported>>

ProcessBegins(l) ==
    /\ bytes[l] = NoValue /\ incarnation[l] < MaxIncarnations
    /\ bytes' = [bytes EXCEPT ![l] = 0] /\ incarnation' = [incarnation EXCEPT ![l] = @ + 1]
    /\ first' = [first EXCEPT ![l] = NoValue] /\ foreign' = [foreign EXCEPT ![l] = TRUE]
    /\ reported' = [reported EXCEPT ![l] = 0]
    /\ UNCHANGED <<lastValue, visited, usageErr, usageAttempt, usages>>

UsageNext ==
    \/ CollectUsage \/ EndUsage
    \/ \E l \in Labels : ReadCounters(l) \/ ProcessReads(l) \/ ProcessEnds(l) \/ ProcessBegins(l)

UsageSpec == UsageInit /\ [][UsageNext]_puVars

------------------------------------------------------------------------------
(* No byte of a process is reported twice, however attempts fail and are repeated and
   whoever had its label before: the differences that were sent of it add up to no more
   than it read between the first and the last time it was seen. What an attempt found
   that was not the last is never sent: the sum may be less. Nothing is said of one
   difference, the first after the label went to another process, which the code takes
   to the counter of the process before (computeresources.go:353-361). *)
NoByteTwice ==
    \A l \in Labels :
      reported[l] + (IF usageAttempt # 0 THEN Sent(l) ELSE 0)
        <= IF first[l] = NoValue THEN 0 ELSE lastValue[l] - first[l]

(* What a collection has read is kept and nothing is counted twice: the first for the
   slow collectors of process metrics, the second for the one of the disk usage. *)
CollectionsKeepWhatTheyCount == CollectionsKeepWhatTheyRead /\ NoByteTwice
==============================================================================
