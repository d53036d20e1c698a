---------------------------- MODULE CollectionLoad ----------------------------
(***************************************************************************)
(* How a collection definition is loaded (internal/collectiondefinition):  *)
(* the agent's definition, downloaded or built in, is merged with the      *)
(* local one, metrics for newer agents are dropped, and what is left is    *)
(* validated.  Merge and the validator each carry their own version of the *)
(* rule that a type and label is defined once per operating system vendor. *)
(*                                                                         *)
(* A metric is a record: id tells entries apart, key is its type and label *)
(* ("" when one is missing), vendor its os_vendor, ver its min_version as  *)
(* a sequence of numbers (<<>> when unset), good ("yes" or "no") whether   *)
(* its value, command and evaluation rules are complete, sec the section   *)
(* it stands in, and list the kind of list of that section:                *)
(*   "os"     OS command metrics, of every section                         *)
(*   "eval"   corosync config and HANA global.ini metrics                  *)
(*   "index"  HANA indexserver.ini metrics                                 *)
(*   "fixed"  the metrics only the agent's definition may hold             *)
(* A section that holds no metric is one that is absent; one that is there *)
(* and empty merges as one that holds a metric nothing overlaps with.      *)
(***************************************************************************)
EXTENDS Naturals, Sequences, FiniteSets

CONSTANT AgentVersion    \* configuration.AgentVersion, a sequence of three numbers

ASSUME AgentVersionAssumption == AgentVersion \in Seq(Nat) /\ Len(AgentVersion) = 3

Lists == {"os", "eval", "index", "fixed"}
Sections == {"system", "corosync", "hana", "netweaver", "pacemaker", "custom"}
Vendors == {"ALL", "RHEL", "SLES"}
AnyMetric == [id : Nat, sec : Sections, list : Lists, key : STRING, vendor : Vendors,
              ver : Seq(Nat), good : {"yes", "no"}]

------------------------------------------------------------------------------
(* versionPattern: MAJOR.MINOR or MAJOR.MINOR.RELEASE. *)
WellFormedVersion(v) == Len(v) \in {2, 3}

(* Mutant: the shorter version is not padded, the common part decides. *)
compareCommonPart(a, b) ==
    LET common == IF Len(a) < Len(b) THEN Len(a) ELSE Len(b)
        differ == {i \in 1..common : a[i] # b[i]}
    IN  IF differ = {} THEN "same"
        ELSE LET i == CHOOSE i \in differ : \A j \in differ : i <= j
             IN  IF a[i] < b[i] THEN "less" ELSE "more"

(* compareVersions pads the shorter version with zeros and lets the first number
   that differs decide: -1, 0 and 1 are "less", "same" and "more". *)
Part(v, i) == IF i <= Len(v) THEN v[i] ELSE 0

compareVersions(a, b) ==
    LET differ == {i \in 1..(Len(a) + Len(b)) : Part(a, i) # Part(b, i)}
    IN  IF differ = {} THEN "same"
        ELSE LET i == CHOOSE i \in differ : \A j \in differ : i <= j
             IN  IF Part(a, i) < Part(b, i) THEN "less" ELSE "more"

(* isValidVersion, and the version check of validateMetricInfo. *)
isValidVersion(m) ==
    m.ver = <<>> \/ (WellFormedVersion(m.ver) /\ compareVersions(m.ver, AgentVersion) # "more")

(* osVendor: only OS command metrics have a vendor. *)
osVendor(m) == IF m.list = "os" THEN m.vendor ELSE "ALL"

(* The rule both halves implement: the same type and label, for the same vendor or
   with one of the two for all vendors. *)
Overlaps(m, n) ==
    /\ m.key = n.key
    /\ osVendor(m) = osVendor(n) \/ osVendor(m) = "ALL" \/ osVendor(n) = "ALL"

(* Mutant: an entry for all vendors does not stand in the way of one for a vendor. *)
shouldMergeByVendor(m, primary) ==
    \A n \in primary : ~(m.key = n.key /\ osVendor(m) = osVendor(n))

(* shouldMerge, against the map of all metrics of the primary definition. *)
shouldMerge(m, primary) == \A n \in primary : ~Overlaps(m, n)

(* Mutant: the local entry replaces the agent's. *)
mergeReplaces(primary, secondary) ==
    LET added == {m \in secondary : m.list # "fixed"}
    IN  added \cup {n \in primary : \A m \in added : ~Overlaps(m, n)}

(* What the merge functions of the sections add to the primary metrics: those of the
   secondary that may be merged, except to the lists that are the agent's. *)
MergeAdds(primary, secondary) == {m \in secondary : m.list # "fixed" /\ shouldMerge(m, primary)}

(* The copy of a section the primary lacks is nil, and the first metric that is added
   to it is a panic. *)
MergePanics(primary, secondary) ==
    \E m \in MergeAdds(primary, secondary) : \A n \in primary : n.sec # m.sec

(* The result of a merge that does not panic. *)
mergeWorkloadValidations(primary, secondary) == primary \cup MergeAdds(primary, secondary)

filterMetrics(cd) == {m \in cd : isValidVersion(m)}

Merge(primary, secondary) == filterMetrics(mergeWorkloadValidations(primary, secondary))

(* What Validate visits: every list but indexserver.ini's. *)
Checked(cd) == {m \in cd : m.list # "index"}

(* validateMetricInfo, validateMetricEvaluation and the checks of values and
   commands. *)
Complete(m) == m.key # "" /\ m.good = "yes" /\ isValidVersion(m)

(* Mutant: the validator remembers what it has seen per section only. *)
validateBySection(cd) ==
    /\ \A m \in Checked(cd) : Complete(m)
    /\ \A m, n \in Checked(cd) : (m # n /\ m.sec = n.sec) => ~Overlaps(m, n)

(* Validate; a metric without type or label fails by itself, so that it does not
   matter that it is not compared with others. *)
Valid(cd) ==
    /\ \A m \in Checked(cd) : Complete(m)
    /\ \A m, n \in Checked(cd) : m # n => ~Overlaps(m, n)

------------------------------------------------------------------------------
(* Properties of a load, for a primary and a secondary definition. *)

(* The validator never turns down the merge of a valid agent definition with a local
   one that is well-formed by its own rules: what shouldMerge lets through, it accepts.
   Such a local definition makes the load fail only by a panic, and only when one of
   its sections is not in the agent's definition. *)
LocalNeverBreaks(p, s) ==
    (Valid(filterMetrics(p)) /\ Valid(filterMetrics(s))) =>
        /\ Valid(Merge(p, s))
        /\ MergePanics(p, s) => \E m \in s : m.list # "fixed" /\ \A n \in p : n.sec # m.sec

(* It does panic whenever a metric of such a section is new to the agent's definition,
   be it for a newer agent and dropped right after the merge. *)
NewSectionPanics(p, s) ==
    \A m \in s : (m.list # "fixed" /\ \A n \in p : n.sec # m.sec /\ n.key # m.key) => MergePanics(p, s)

(* The agent's definition wins: its metrics for this agent are all there, and none
   of the local ones shares a type and label with any metric of the agent's, those
   for newer agents included. *)
PrimaryWins(p, s) ==
    /\ {m \in p : isValidVersion(m)} \subseteq Merge(p, s)
    /\ \A m \in Merge(p, s) \ p : m \in s /\ \A n \in p : ~Overlaps(m, n)

(* In a definition that loads, a type and label is ambiguous only through
   indexserver.ini metrics. *)
AmbiguousOnlyInIndexserver(p, s) ==
    Valid(Merge(p, s)) =>
        \A m, n \in Merge(p, s) : (m # n /\ Overlaps(m, n)) => "index" \in {m.list, n.list}

(* compareVersions is the order of the numbers that versions are in base Base. *)
VersionOrder(Base, a, b) ==
    LET Value(v) == Base * Base * Part(v, 1) + Base * Part(v, 2) + Part(v, 3)
    IN  compareVersions(a, b) =
            (IF Value(a) < Value(b) THEN "less" ELSE IF Value(a) > Value(b) THEN "more" ELSE "same")
================================================================================
