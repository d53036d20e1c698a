--------------------------- MODULE RequestAnswers ---------------------------
(***************************************************************************)
(* What a Backint command promises to SAP HANA: every request that it took *)
(* from the input is answered once, and a command that ends well leaves no *)
(* request without an answer.  A command that fails or is killed may.      *)
(***************************************************************************)
EXTENDS Naturals, FiniteSets

CONSTANT Requests

VARIABLES
    taken,      \* the requests read so far, not answered
    replies,    \* the number of answers to each request
    over        \* "no", "well" or "badly"

avars == <<taken, replies, over>>

Init ==
    /\ taken = {}
    /\ replies = [r \in Requests |-> 0]
    /\ over = "well"

(* A command begins; the answers to the one before are gone. *)
Begin ==
    /\ over # "no"
    /\ over' = "no"
    /\ taken' = {}
    /\ replies' = [r \in Requests |-> 0]

Take(r) ==
    /\ over = "no"
    /\ r \notin taken /\ replies[r] = 0
    /\ taken' = taken \cup {r}
    /\ UNCHANGED <<replies, over>>

Reply(r) ==
    /\ over = "no"
    /\ r \in taken
    /\ taken' = taken \ {r}
    /\ replies' = [replies EXCEPT ![r] = 1]
    /\ UNCHANGED over

(* A request that is refused at once is taken and answered in one step. *)
Refuse(r) ==
    /\ over = "no"
    /\ r \notin taken /\ replies[r] = 0
    /\ replies' = [replies EXCEPT ![r] = 1]
    /\ UNCHANGED <<taken, over>>

EndWell ==
    /\ over = "no" /\ taken = {}
    /\ over' = "well"
    /\ UNCHANGED <<taken, replies>>

EndBadly ==
    /\ over = "no"
    /\ over' = "badly"
    /\ taken' = {}
    /\ UNCHANGED replies

Next ==
    \/ Begin \/ EndWell \/ EndBadly
    \/ \E r \in Requests : Take(r) \/ Reply(r) \/ Refuse(r)

Spec == Init /\ [][Next]_avars /\ WF_avars(EndWell \/ \E r \in Requests : Reply(r))
=============================================================================
