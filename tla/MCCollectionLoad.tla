--------------------------- MODULE MCCollectionLoad ---------------------------
(***************************************************************************)
(* The load of every pair of small definitions: a state is a pair of       *)
(* definitions, taken from a pool of metrics of every section, vendor and  *)
(* version, and steps fill the agent's one, then the local one; beside     *)
(* them, every pair of versions is compared.                               *)
(***************************************************************************)
EXTENDS CollectionLoad

MCAgentVersion == <<3, 8, 0>>
MCVersions == {<<>>, <<3, 8, 1>>, <<1>>}

CONSTANTS
    Keys,      \* types and labels; "" stands for a missing one
    Versions,  \* min_version values
    Base,      \* every number in a compared version is below it
    MaxSize    \* bound on the metrics of a definition

ASSUME BaseAssumption == Base \in Nat \ {0}

VARIABLES
    primary,   \* the agent's definition
    secondary, \* the local definition
    versions   \* two versions that are compared, or none

vars == <<primary, secondary, versions>>

AllVersions == UNION {[1..n -> 0..(Base - 1)] : n \in 1..3}

(* Every list, vendor and version in the section of HANA; entries that are incomplete,
   that lack a type and label or whose version is malformed are taken from some lists
   only, and have no twin, as the entries of the section of custom metrics. *)
Metrics ==
    {m \in [id : {1, 2}, sec : {"hana", "custom"}, list : Lists, key : Keys, vendor : Vendors,
            ver : Versions, good : {"yes", "no"}] :
        /\ m.list # "os" => m.vendor = "ALL"
        /\ m.sec = "custom" => m.id = 1 /\ m.list = "os" /\ m.vendor # "SLES" /\ m.ver = <<>> /\ m.key # ""
        /\ m.good = "no" => m.id = 1 /\ m.list \in {"eval", "index"} /\ m.ver = <<>> /\ m.key # ""
        /\ Len(m.ver) = 1 => m.id = 1 /\ m.list # "fixed" /\ m.vendor = "ALL"
        /\ m.key = "" => m.id = 1 /\ m.list = "os" /\ m.vendor = "ALL" /\ m.ver = <<>>}

Init == primary = {} /\ secondary = {} /\ versions = <<>>

(* Metrics of the agent's definition have id 1 or 2, local ones 2 or 3, so that an
   entry can be repeated literally. *)
AddPrimary(m) ==
    /\ versions = <<>> /\ secondary = {} /\ Cardinality(primary) < MaxSize
    /\ primary' = primary \cup {m}
    /\ UNCHANGED <<secondary, versions>>

AddSecondary(m) ==
    /\ versions = <<>> /\ Cardinality(secondary) < MaxSize
    /\ secondary' = secondary \cup {[m EXCEPT !.id = @ + 1]}
    /\ UNCHANGED <<primary, versions>>

Compare(a, b) ==
    /\ primary = {} /\ secondary = {} /\ versions = <<>>
    /\ versions' = <<a, b>>
    /\ UNCHANGED <<primary, secondary>>

Next ==
    \/ \E m \in Metrics : AddPrimary(m) \/ AddSecondary(m)
    \/ \E a, b \in AllVersions : Compare(a, b)

Spec == Init /\ [][Next]_vars

(* What is loaded follows the rules of vendors and labels, which shouldMerge and
   validateMetricInfo each have their own code for: the validator turns down no merge
   of two well-formed definitions, and the merge panics exactly at a metric for a
   section the agent's definition lacks; the agent's metrics survive the merge and
   nothing local stands beside them; what loads is ambiguous only through
   indexserver.ini metrics; and the versions that decide what is kept are compared as
   numbers. *)
LoadFollowsTheRules ==
    /\ LocalNeverBreaks(primary, secondary)
    /\ NewSectionPanics(primary, secondary)
    /\ PrimaryWins(primary, secondary)
    /\ AmbiguousOnlyInIndexserver(primary, secondary)
    /\ versions # <<>> => VersionOrder(Base, versions[1], versions[2])
================================================================================
