------------------------ MODULE WorkloadRefresh_proofs -------------------------
(***************************************************************************)
(* What the collector of workload metrics works with, for any number of    *)
(* published versions and of panics: it has passed the validation, and it  *)
(* never becomes older.  What an insight of HANA, which the collector has  *)
(* computed as well, stands on.  That a discovery of cloud resources asks  *)
(* for nothing twice and finds all that is related to its hosts.  And that *)
(* the validation, whose sections are collected side by side while backups *)
(* run, reports of HANA what is there.                                     *)
(***************************************************************************)
EXTENDS WorkloadRefresh, HANAInsights, CloudDiscovery, WorkloadSections, Subsequences_proofs,
        FiniteSetTheorems, TLAPS

--------------------------------------------------------------------------------
(* WorkloadRefresh: what is loaded, published and used. *)

(* What is loaded is valid, and of the version of what was fetched or, without it, of
   the fallback. *)
LEMMA LoadResult ==
    ASSUME NEW fetched, NEW fallback, Load(fetched, fallback) # <<>>
    PROVE  /\ Valid(Load(fetched, fallback)[1].metrics)
           /\ Load(fetched, fallback)[1].version =
                (IF fetched # <<>> THEN fetched ELSE fallback)[1].version
<1> DEFINE agent == IF fetched # <<>> THEN fetched ELSE fallback
           merged == Merge(agent[1].metrics, local.metrics)
<1>1. /\ Valid(merged)
      /\ Load(fetched, fallback) = <<[version |-> agent[1].version, metrics |-> merged]>>
  BY DEF Load
<1> HIDE DEF merged
<1> QED BY <1>1

(* The inductive invariant behind UsedIsValid: the refresher lives only beside a
   collector that was started. *)
ValidInv ==
    /\ UsedIsValid
    /\ refresher # "off" => Started

(* The versions of what is used, of what a panic returns to and of what is being sent
   are those of loads, so none is newer than the bucket, and what is sent is not
   older than anything loaded before it. *)
VersionInv ==
    /\ published.version \in Nat /\ panics \in Nat
    /\ refresher # "off" => Started
    /\ Started => /\ used.version \in Nat /\ used.version <= published.version
                  /\ initial.version \in Nat /\ initial.version <= published.version
    /\ refresher = "sending" =>
         /\ outgoing.version \in Nat /\ outgoing.version <= published.version
         /\ used.version <= outgoing.version /\ initial.version <= outgoing.version

------------------------------------------------------------------------------
(* Each step of the agent and around it keeps what is used valid. *)
LEMMA ValidNext == ValidInv /\ [Next]_vars => ValidInv'
<1> SUFFICES ASSUME ValidInv, [Next]_vars PROVE ValidInv'
  OBVIOUS
<1> USE DEF ValidInv, UsedIsValid, Started
<1>1. ASSUME NEW ms \in AgentDefinitions, Publish(ms) PROVE ValidInv'
  BY <1>1 DEF Publish
<1>2. ASSUME NEW ms \in AgentDefinitions, Start(ms) PROVE ValidInv'
  <2>1. PICK fetched : LET cd == Load(fetched, <<Default(ms)>>)
                       IN  IF cd = <<>>
                           THEN wlm' \in {"refused", "crashed"} /\ UNCHANGED <<used, initial, refresher>>
                           ELSE /\ wlm' = "waiting"
                                /\ used' = cd[1] /\ initial' = cd[1]
                                /\ refresher' = IF FetchLatest = "yes" THEN "idle" ELSE "off"
    BY <1>2 DEF Start
  <2>2. refresher = "off"
    BY <1>2 DEF Start
  <2> QED BY <2>1, <2>2, LoadResult
<1>3. ASSUME NEW l, ChangeLocal(l) PROVE ValidInv'
  BY <1>3 DEF ChangeLocal
<1>4. CASE ChangeScope \/ Cancel
  BY <1>4 DEF ChangeScope, Cancel
<1>5. ASSUME NEW fetched, loadAndBroadcast(fetched) PROVE ValidInv'
  BY <1>5, LoadResult DEF loadAndBroadcast
<1>6. CASE RefresherStops \/ Deliver
  BY <1>6 DEF RefresherStops, Deliver
<1>7. CASE Collector \/ NextRound \/ CollectorStops
  BY <1>7 DEF Collector, waitForDataWarehouseActivation, FirstRound, CollectionEnds, WriteInsight,
              NextRound, CollectorStops, Goto
<1>8. CASE Panic
  BY <1>8 DEF Panic
<1>9. CASE UNCHANGED vars
  BY <1>9 DEF vars
<1> QED BY <1>1, <1>2, <1>3, <1>4, <1>5, <1>6, <1>7, <1>8, <1>9 DEF Next, Refresh, RefreshFails

(* Versions only grow along the way from the bucket to the collector; a step other
   than a panic leaves the collector with a version as new as before. *)
LEMMA VersionNext ==
    VersionInv /\ [Next]_vars =>
        VersionInv' /\ ((Started /\ panics' = panics) => used'.version >= used.version)
<1> DEFINE NotBack == (Started /\ panics' = panics) => used'.version >= used.version
<1> SUFFICES ASSUME VersionInv, [Next]_vars PROVE VersionInv' /\ NotBack
  OBVIOUS
<1> USE DEF VersionInv, Started
<1>1. ASSUME NEW ms \in AgentDefinitions, Publish(ms) PROVE VersionInv' /\ NotBack
  BY <1>1 DEF Publish
<1>2. ASSUME NEW ms \in AgentDefinitions, Start(ms) PROVE VersionInv' /\ NotBack
  <2>1. PICK fetched \in fetchFromGCS :
          LET cd == Load(fetched, <<Default(ms)>>)
          IN  IF cd = <<>>
              THEN wlm' \in {"refused", "crashed"} /\ UNCHANGED <<used, initial, refresher>>
              ELSE /\ wlm' = "waiting"
                   /\ used' = cd[1] /\ initial' = cd[1]
                   /\ refresher' = IF FetchLatest = "yes" THEN "idle" ELSE "off"
    BY <1>2 DEF Start, fetchFromGCS
  <2>2. /\ wlm = "off" /\ refresher = "off"
        /\ UNCHANGED <<published, panics>>
    BY <1>2 DEF Start
  <2>3. ASSUME Load(fetched, <<Default(ms)>>) # <<>>
        PROVE  Load(fetched, <<Default(ms)>>)[1].version \in {0, published.version}
    BY <2>3, LoadResult DEF fetchFromGCS, Default
  <2> QED BY <2>1, <2>2, <2>3
<1>3. ASSUME NEW l, ChangeLocal(l) PROVE VersionInv' /\ NotBack
  BY <1>3 DEF ChangeLocal
<1>4. CASE ChangeScope \/ Cancel
  BY <1>4 DEF ChangeScope, Cancel
<1>5. CASE Refresh
  <2>1. ASSUME Load(<<published>>, <<>>) # <<>>
        PROVE  Load(<<published>>, <<>>)[1].version = published.version
    BY <2>1, LoadResult
  <2> QED BY <1>5, <2>1 DEF Refresh, loadAndBroadcast
<1>6. CASE RefreshFails
  <2>1. Load(<<>>, <<>>) = <<>>
    BY DEF Load
  <2> QED BY <1>6, <2>1 DEF RefreshFails, loadAndBroadcast
<1>7. CASE RefresherStops \/ Deliver
  BY <1>7 DEF RefresherStops, Deliver
<1>8. CASE Collector \/ NextRound \/ CollectorStops
  BY <1>8 DEF Collector, waitForDataWarehouseActivation, FirstRound, CollectionEnds, WriteInsight,
              NextRound, CollectorStops, Goto
<1>9. CASE Panic
  BY <1>9 DEF Panic
<1>10. CASE UNCHANGED vars
  BY <1>10 DEF vars
<1> QED BY <1>1, <1>2, <1>3, <1>4, <1>5, <1>6, <1>7, <1>8, <1>9, <1>10 DEF Next

------------------------------------------------------------------------------
(* The collector only works with, and is only sent, definitions that passed the
   validation of Load. *)
THEOREM OnlyValidIsUsed == Spec => []UsedIsValid
<1>1. Init => ValidInv
  BY DEF Init, ValidInv, UsedIsValid, Started
<1>2. ValidInv => UsedIsValid
  BY DEF ValidInv
<1> QED BY <1>1, <1>2, ValidNext, PTL DEF Spec

(* No refresh takes the collector back to an older definition or to the built-in
   one. *)
THEOREM RefreshNeverGoesBack == Spec => NeverBack
<1>1. Init => VersionInv
  BY DEF Init, VersionInv, Started
<1> QED BY <1>1, VersionNext, PTL DEF Spec, NeverBack
--------------------------------------------------------------------------------
(* Sequences without repetition. *)

(* A sequence of the elements of a finite set repeats none. *)
LEMMA Enumerated ==
    ASSUME NEW S, IsFiniteSet(S), NEW s \in SetToSeqs(S)
    PROVE  s \in Seq(S) /\ IsInjective(s)
<1>1. Cardinality(S) \in Nat
  BY FS_CardinalityType
<1>2. s \in [1..Cardinality(S) -> S] /\ \A i, j \in 1..Cardinality(S) : i # j => s[i] # s[j]
  BY DEF SetToSeqs
<1>3. s \in Seq(S)
  BY <1>1, <1>2
<1> QED
  BY <1>2, <1>3 DEF IsInjective

(* One without repetition that is as long as the set is large has all of it. *)
LEMMA FullRange ==
    ASSUME NEW S, IsFiniteSet(S), NEW s \in Seq(S), IsInjective(s), Len(s) = Cardinality(S)
    PROVE  ToSet(s) = S
<1>1. s \in [1..Len(s) -> ToSet(s)] /\ DOMAIN s = 1..Len(s) /\ ToSet(s) \subseteq S /\ Len(s) \in Nat
  BY DEF ToSet
<1>2. s \in Bijection(1..Len(s), ToSet(s))
  BY <1>1 DEF Bijection, Injection, Surjection, ToSet
<1>3. IsFiniteSet(1..Len(s)) /\ Cardinality(1..Len(s)) = Len(s)
  <2> DEFINE len == Len(s)
  <2>1. len \in Int /\ 1 \in Int /\ len >= 0
    BY <1>1
  <2> HIDE DEF len
  <2>2. IsFiniteSet(1..len)
    BY <2>1, FS_Interval
  <2>3. Cardinality(1..len) = IF 1 > len THEN 0 ELSE len - 1 + 1
    BY <2>1, FS_Interval
  <2> QED
    BY <2>1, <2>2, <2>3 DEF len
<1>4. Cardinality(ToSet(s)) = Len(s)
  BY <1>2, <1>3, FS_Bijection DEF ExistsBijection
<1> QED
  BY <1>1, <1>4, FS_Subset

(* A sequence is one over any set of all its elements. *)
LEMMA Narrowed ==
    ASSUME NEW S, NEW R, NEW s \in Seq(S), \A i \in DOMAIN s : s[i] \in R
    PROVE  s \in Seq(R)
<1>1. s \in [1..Len(s) -> S] /\ DOMAIN s = 1..Len(s) /\ Len(s) \in Nat
  OBVIOUS
<1>2. s \in [1..Len(s) -> R]
  BY <1>1
<1> QED BY <1>1, <1>2

(* The first element is not in the rest. *)
LEMMA HeadAndTail ==
    ASSUME NEW S, NEW s \in Seq(S), s # <<>>, IsInjective(s)
    PROVE  /\ Head(s) \in S /\ Head(s) \in ToSet(s) /\ Tail(s) \in Seq(S) /\ IsInjective(Tail(s))
           /\ ToSet(s) = {Head(s)} \cup ToSet(Tail(s)) /\ Head(s) \notin ToSet(Tail(s))
<1>1. /\ Head(s) = s[1] /\ Tail(s) \in Seq(S) /\ Len(s) \in Nat \ {0}
      /\ DOMAIN s = 1..Len(s) /\ DOMAIN Tail(s) = 1..(Len(s) - 1)
      /\ \A i \in 1..(Len(s) - 1) : Tail(s)[i] = s[i + 1]
  OBVIOUS
<1>2. \A i \in 1..(Len(s) - 1) : i + 1 \in DOMAIN s /\ i + 1 # 1
  BY <1>1
<1>3. IsInjective(Tail(s)) /\ Head(s) \notin ToSet(Tail(s))
  BY <1>1, <1>2 DEF IsInjective, ToSet
<1>4. \A i \in DOMAIN s : i = 1 \/ (i - 1 \in DOMAIN Tail(s) /\ s[i] = Tail(s)[i - 1])
  BY <1>1
<1>5. ToSet(s) \subseteq {Head(s)} \cup ToSet(Tail(s))
  <2>1. ASSUME NEW i \in DOMAIN s
        PROVE  s[i] = Head(s) \/ \E j \in DOMAIN Tail(s) : s[i] = Tail(s)[j]
    BY <1>1, <1>4
  <2> QED BY <2>1 DEF ToSet
<1>6. {Head(s)} \cup ToSet(Tail(s)) \subseteq ToSet(s)
  BY <1>1, <1>2 DEF ToSet
<1>7. Head(s) \in S
  BY <1>1
<1> QED
  BY <1>1, <1>3, <1>5, <1>6, <1>7

(* A new element, and new elements, leave a sequence without repetition. *)
LEMMA AppendNew ==
    ASSUME NEW S, NEW s \in Seq(S), IsInjective(s), NEW x \in S, x \notin ToSet(s)
    PROVE  /\ Append(s, x) \in Seq(S) /\ IsInjective(Append(s, x)) /\ ToSet(Append(s, x)) = ToSet(s) \cup {x}
<1>1. /\ Append(s, x) \in Seq(S) /\ Len(s) \in Nat
      /\ DOMAIN s = 1..Len(s) /\ DOMAIN Append(s, x) = 1..(Len(s) + 1)
      /\ \A i \in 1..Len(s) : Append(s, x)[i] = s[i]
      /\ Append(s, x)[Len(s) + 1] = x
  OBVIOUS
<1>2. \A i \in 1..(Len(s) + 1) : i \in 1..Len(s) \/ i = Len(s) + 1
  BY <1>1
<1>3. \A i \in 1..Len(s) : i \in 1..(Len(s) + 1)
  BY <1>1
<1>4. Len(s) + 1 \in 1..(Len(s) + 1)
  BY <1>1
<1>5. \A i \in 1..Len(s) : s[i] # x
  BY <1>1 DEF ToSet
<1>6. IsInjective(Append(s, x))
  BY <1>1, <1>2, <1>5 DEF IsInjective
<1>7. ToSet(Append(s, x)) = ToSet(s) \cup {x}
  BY <1>1, <1>2, <1>3, <1>4 DEF ToSet
<1> QED
  BY <1>1, <1>6, <1>7

LEMMA JoinDisjoint ==
    ASSUME NEW S, NEW s \in Seq(S), NEW t \in Seq(S), IsInjective(s), IsInjective(t), ToSet(s) \cap ToSet(t) = {}
    PROVE  s \o t \in Seq(S) /\ IsInjective(s \o t) /\ ToSet(s \o t) = ToSet(s) \cup ToSet(t)
<1>1. /\ s \o t \in Seq(S) /\ Len(s) \in Nat /\ Len(t) \in Nat
      /\ DOMAIN s = 1..Len(s) /\ DOMAIN t = 1..Len(t) /\ DOMAIN (s \o t) = 1..(Len(s) + Len(t))
  OBVIOUS
<1>2. \A i \in DOMAIN s : i \in DOMAIN (s \o t) /\ (s \o t)[i] = s[i]
  BY <1>1
<1>3. \A i \in DOMAIN t : Len(s) + i \in DOMAIN (s \o t) /\ (s \o t)[Len(s) + i] = t[i]
  BY <1>1
<1>4. \A i \in DOMAIN (s \o t) : \/ i \in DOMAIN s /\ (s \o t)[i] = s[i]
                                 \/ i - Len(s) \in DOMAIN t /\ (s \o t)[i] = t[i - Len(s)]
  BY <1>1
<1>5. ToSet(s \o t) = ToSet(s) \cup ToSet(t)
  <2>1. \A i \in DOMAIN (s \o t) : (s \o t)[i] \in ToSet(s) \cup ToSet(t)
    <3>1. ASSUME NEW i \in DOMAIN (s \o t)
          PROVE  (\E j \in DOMAIN s : (s \o t)[i] = s[j]) \/ (\E j \in DOMAIN t : (s \o t)[i] = t[j])
      BY <1>4
    <3> QED BY <3>1 DEF ToSet
  <2>2. \A i \in DOMAIN s : s[i] \in ToSet(s \o t)
    BY <1>2 DEF ToSet
  <2>3. \A i \in DOMAIN t : t[i] \in ToSet(s \o t)
    BY <1>3 DEF ToSet
  <2>4. ToSet(s \o t) \subseteq ToSet(s) \cup ToSet(t)
    BY <2>1 DEF ToSet
  <2>5. ToSet(s) \subseteq ToSet(s \o t) /\ ToSet(t) \subseteq ToSet(s \o t)
    BY <2>2, <2>3 DEF ToSet
  <2> QED BY <2>4, <2>5
<1>6. ASSUME NEW a \in DOMAIN (s \o t), NEW b \in DOMAIN (s \o t), (s \o t)[a] = (s \o t)[b]
      PROVE  a = b
  <2>1. CASE a \in DOMAIN s /\ (s \o t)[a] = s[a] /\ b \in DOMAIN s /\ (s \o t)[b] = s[b]
    BY <1>6, <2>1 DEF IsInjective
  <2>2. CASE a - Len(s) \in DOMAIN t /\ (s \o t)[a] = t[a - Len(s)] /\ b - Len(s) \in DOMAIN t /\ (s \o t)[b] = t[b - Len(s)]
    <3>1. a - Len(s) = b - Len(s)
      BY <1>6, <2>2 DEF IsInjective
    <3> QED BY <1>1, <3>1
  <2>3. ~(a \in DOMAIN s /\ (s \o t)[a] = s[a] /\ b - Len(s) \in DOMAIN t /\ (s \o t)[b] = t[b - Len(s)])
    BY <1>6 DEF ToSet
  <2>4. ~(b \in DOMAIN s /\ (s \o t)[b] = s[b] /\ a - Len(s) \in DOMAIN t /\ (s \o t)[a] = t[a - Len(s)])
    BY <1>6 DEF ToSet
  <2> QED BY <1>4, <2>1, <2>2, <2>3, <2>4
<1> QED
  BY <1>1, <1>5, <1>6 DEF IsInjective

(* What is taken from one sequence and put on the other leaves both together as
   they are. *)
LEMMA Regroup ==
    ASSUME NEW S, NEW r \in Seq(S), NEW t \in Seq(S), t # <<>>
    PROVE  Append(r, Head(t)) \o Tail(t) = r \o t
<1>1. Len(t) \in Nat \ {0} /\ Len(r) \in Nat
  OBVIOUS
<1>2. Append(r, Head(t)) \o Tail(t) \in Seq(S) /\ r \o t \in Seq(S)
  OBVIOUS
<1>3. Len(Append(r, Head(t)) \o Tail(t)) = Len(r \o t)
  BY <1>1
<1>4. ASSUME NEW i \in 1..Len(r \o t)
      PROVE  (Append(r, Head(t)) \o Tail(t))[i] = (r \o t)[i]
  <2>1. CASE i <= Len(r)
    BY <1>1, <2>1
  <2>2. CASE i = Len(r) + 1
    BY <1>1, <2>2
  <2>3. CASE i > Len(r) + 1
    BY <1>1, <2>3
  <2> QED BY <1>1, <2>1, <2>2, <2>3
<1> QED
  BY <1>2, <1>3, <1>4
--------------------------------------------------------------------------------
(* HANAInsights: the order of the queries and the run of the rules. *)

Files == ToSet(RuleFiles)
AllNodes == UNION {GraphNodes(f) : f \in Files}
OneRun == IF MaxRows = 0 THEN 1 ELSE MaxRows

(* Every query comes after those it depends on. *)
InOrder(f, s) == \A i \in DOMAIN s : Needs(f, s[i]) \subseteq {s[j] : j \in 1..(i - 1)}

(* While the queries of a rule are ordered: what was visited is not in the graph, and
   what is ready needs nothing that is. *)
GraphInv ==
    LET f == ruleGraph.file
        nodes == ruleGraph.nodes IN
    /\ stage = "read" /\ f \in Files /\ ruleGraph = [nodes |-> nodes, file |-> f]
    /\ Rule[f].id \in ruleIDs /\ \A i \in DOMAIN validRules : Rule[validRules[i].file].id # Rule[f].id
    /\ nodes \subseteq GraphNodes(f)
    /\ readyQueries \in Seq(nodes) /\ IsInjective(readyQueries)
    /\ \A i \in DOMAIN readyQueries : Needs(f, readyQueries[i]) \cap nodes = {}
    /\ queryOrder \in Seq(AllNodes) /\ ToSet(queryOrder) = GraphNodes(f) \ nodes
    /\ IsInjective(queryOrder) /\ InOrder(f, queryOrder)
OrderInv == ruleFiles \in Seq(Files) /\ (ruleGraph # NoGraph => GraphInv)

(* The rules that were taken have IDs of their own and their queries in order, as many
   as there are. *)
RulesInv ==
    /\ validRules \in Seq([file : Files, order : Seq(AllNodes)])
    /\ \A i \in DOMAIN validRules :
         LET f == validRules[i].file
             order == validRules[i].order IN
         /\ IsInjective(order) /\ InOrder(f, order) /\ Len(order) = Cardinality(Rule[f].queries)
         /\ Rule[f].id \in ruleIDs
         /\ \A j \in DOMAIN validRules : Rule[validRules[j].file].id = Rule[f].id => i = j

(* The rows are those of one run of a query, but for a query of the rule that has the
   name of a global one; what is still to run has no rows of this rule. *)
KnowledgeInv ==
    /\ stage \in {"read", "global", "rules", "end", "panicked"}
    /\ stage = "read" => DOMAIN gkb = {}
    /\ \A q \in DOMAIN gkb : gkb[q] \in 0..OneRun
    /\ stage = "global" =>
         /\ toRun \in Seq(AllNodes) /\ IsInjective(toRun) /\ (toRun # <<>> => ruleAt \in DOMAIN validRules)
         /\ DOMAIN gkb = {} /\ validRules # <<>>
         /\ \A q \in DOMAIN kb : kb[q] \in 0..OneRun /\ q \notin ToSet(toRun)
    /\ stage = "rules" =>
         /\ toRun \in Seq(AllNodes) /\ IsInjective(toRun) /\ ruleAt \in DOMAIN validRules
         /\ DOMAIN kb \subseteq DOMAIN gkb \cup Rule[Current].queries
         /\ \A q \in DOMAIN kb : q \notin DOMAIN gkb \cap Rule[Current].queries => kb[q] \in 0..OneRun
         /\ \A q \in DOMAIN kb \ DOMAIN gkb : q \notin ToSet(toRun)

(* What ran of the current rule and what is left make up its order, and the rules to
   come have run nothing. *)
RanInv ==
    /\ stage \in {"read", "global"} => DOMAIN queriesRan = {} /\ DOMAIN insights = {}
    /\ stage = "rules" =>
         /\ RanBefore \in Seq(Rule[Current].queries) /\ RanBefore \o toRun = validRules[ruleAt].order
         /\ \A j \in DOMAIN validRules : j > ruleAt => validRules[j].file \notin DOMAIN queriesRan
    /\ \A f \in DOMAIN insights :
         \E i \in DOMAIN validRules : validRules[i].file = f /\ (stage = "rules" => i < ruleAt)

(* Every insight stands on what its own rule asked. *)
OwnGrounded == \A f \in DOMAIN insights : InsightIsGrounded(f)

(* What was answered of the global rule and what is left make up its order, and the
   one query of which there may be rows without an answer is the last that ran. *)
AnsweredInv ==
    /\ stage = "read" => answered = <<>>
    /\ GlobalsAreGrounded
    /\ stage = "global" /\ toRun # <<>> =>
         /\ ruleAt \in Globals /\ answered \in Seq(Rule[Current].queries) /\ answered \o toRun = validRules[ruleAt].order
         /\ DOMAIN kb \subseteq ToSet(answered)
    /\ stage = "global" => \A p, q \in DOMAIN kb \ ToSet(answered) : p = q

(* A rule's graph is finite, and all that a query needs is in it. *)
LEMMA NodesAreFinite ==
    ASSUME NEW f \in Files
    PROVE  /\ IsFiniteSet(GraphNodes(f)) /\ GraphNodes(f) \subseteq AllNodes
           /\ Rule[f].queries \subseteq GraphNodes(f) /\ \A q : Needs(f, q) \subseteq GraphNodes(f)
<1> DEFINE g == [q \in Rule[f].queries |-> Rule[f].deps[q]]
           D == {Rule[f].deps[q] : q \in Rule[f].queries}
<1>1. g \in Surjection(Rule[f].queries, D)
  BY DEF Surjection
<1>2. IsFiniteSet(Rule[f].queries) /\ \A q \in Rule[f].queries : IsFiniteSet(Rule[f].deps[q])
  BY HANAInsightsAssumption DEF Files
<1>3. IsFiniteSet(D)
  BY <1>1, <1>2, FS_Surjection
<1>4. IsFiniteSet(UNION D)
  BY <1>2, <1>3, FS_UNION
<1>5. IsFiniteSet(GraphNodes(f))
  BY <1>2, <1>4, FS_Union DEF GraphNodes
<1> QED
  BY <1>5 DEF AllNodes, GraphNodes, Needs

(* A query whose needs were visited may be visited next. *)
LEMMA AppendInOrder ==
    ASSUME NEW f, NEW S, NEW s \in Seq(S), NEW x \in S, InOrder(f, s), Needs(f, x) \subseteq ToSet(s)
    PROVE  InOrder(f, Append(s, x))
<1>1. /\ Len(s) \in Nat /\ DOMAIN s = 1..Len(s) /\ DOMAIN Append(s, x) = 1..(Len(s) + 1)
      /\ \A i \in 1..Len(s) : Append(s, x)[i] = s[i]
      /\ Append(s, x)[Len(s) + 1] = x
  OBVIOUS
<1>2. ASSUME NEW i \in DOMAIN Append(s, x)
      PROVE  Needs(f, Append(s, x)[i]) \subseteq {Append(s, x)[j] : j \in 1..(i - 1)}
  <2>1. CASE i \in 1..Len(s)
    <3>1. \A j \in 1..(i - 1) : Append(s, x)[j] = s[j]
      BY <1>1, <2>1
    <3>2. Needs(f, s[i]) \subseteq {s[j] : j \in 1..(i - 1)}
      BY <1>1, <2>1 DEF InOrder
    <3>3. Append(s, x)[i] = s[i]
      BY <1>1, <2>1
    <3> QED BY <3>1, <3>2, <3>3
  <2>2. CASE i = Len(s) + 1
    <3>1. 1..(i - 1) = DOMAIN s
      BY <1>1, <2>2
    <3>2. ToSet(s) = {Append(s, x)[j] : j \in 1..(i - 1)}
      BY <1>1, <3>1 DEF ToSet
    <3> QED BY <1>1, <2>2, <3>2
  <2>3. i \in 1..Len(s) \/ i = Len(s) + 1
    BY <1>1
  <2> QED BY <2>1, <2>2, <2>3
<1> QED BY <1>2 DEF InOrder

(* A rule is read: its graph begins with all that needs nothing ready. *)
LEMMA ReadOrder == OrderInv /\ RulesInv /\ ReadRule => OrderInv' /\ RulesInv'
<1> SUFFICES ASSUME OrderInv, RulesInv, ReadRule PROVE OrderInv' /\ RulesInv'
  OBVIOUS
<1> DEFINE f == Head(ruleFiles)
           free == {q \in GraphNodes(f) : Needs(f, q) = {}}
<1>1. f \in Files /\ ruleFiles' \in Seq(Files) /\ stage' = "read" /\ validRules' = validRules
  BY DEF OrderInv, ReadRule
<1>2. ruleIDs' = ruleIDs \cup {Rule[f].id}
  BY DEF ReadRule
<1>3. RulesInv'
  BY <1>1, <1>2 DEF RulesInv
<1>4. CASE ~IsValid(f)
  <2>1. ruleGraph' = NoGraph
    BY <1>4 DEF ReadRule
  <2> QED BY <1>1, <1>3, <2>1 DEF OrderInv
<1>5. CASE IsValid(f)
  <2>1. /\ ruleGraph' = [nodes |-> GraphNodes(f), file |-> f] /\ queryOrder' = << >>
        /\ readyQueries' \in SetToSeqs(free)
    BY <1>5 DEF ReadRule
  <2>2. IsFiniteSet(free)
    BY <1>1, NodesAreFinite, FS_Subset
  <2>3. readyQueries' \in Seq(free) /\ IsInjective(readyQueries')
    BY <2>1, <2>2, Enumerated
  <2>4. \A i \in DOMAIN readyQueries' : readyQueries'[i] \in free
    BY <2>3
  <2>5. readyQueries' \in Seq(GraphNodes(f)) /\ \A i \in DOMAIN readyQueries' : Needs(f, readyQueries'[i]) \cap GraphNodes(f) = {}
    BY <2>3, <2>4
  <2>6. queryOrder' \in Seq(AllNodes) /\ ToSet(queryOrder') = {} /\ IsInjective(queryOrder') /\ InOrder(f, queryOrder')
    BY <2>1 DEF ToSet, IsInjective, InOrder
  <2>7. \A i \in DOMAIN validRules : Rule[validRules[i].file].id # Rule[f].id
    BY <1>5 DEF IsValid, RulesInv
  <2>8. ruleGraph'.nodes = GraphNodes(f) /\ ruleGraph'.file = f
    BY <2>1
  <2>9. queryOrder' \in Seq(AllNodes) /\ ToSet(queryOrder') = GraphNodes(f) \ GraphNodes(f)
    BY <2>6
  <2>10. GraphInv'
    BY <1>1, <1>2, <2>1, <2>3, <2>5, <2>6, <2>7, <2>8, <2>9 DEF GraphInv
  <2> QED BY <1>1, <1>3, <2>10 DEF OrderInv
<1> QED BY <1>3, <1>4, <1>5

(* The query that is visited was ready: its needs were visited before. *)
LEMMA VisitOrder == OrderInv /\ RulesInv /\ VisitQuery => OrderInv' /\ RulesInv'
<1> SUFFICES ASSUME OrderInv, RulesInv, VisitQuery PROVE OrderInv' /\ RulesInv'
  OBVIOUS
<1> DEFINE f == ruleGraph.file
           nodes == ruleGraph.nodes
           node == Head(readyQueries)
           left == nodes \ {node}
           freed == {q \in left : node \in Needs(f, q) /\ Needs(f, q) \cap left = {}}
<1>1. PICK s \in SetToSeqs(freed) : readyQueries' = Tail(readyQueries) \o s
  BY DEF VisitQuery
<1>2. /\ stage = "read" /\ f \in Files /\ ruleGraph = [nodes |-> nodes, file |-> f]
      /\ Rule[f].id \in ruleIDs /\ \A i \in DOMAIN validRules : Rule[validRules[i].file].id # Rule[f].id
      /\ nodes \subseteq GraphNodes(f)
      /\ readyQueries \in Seq(nodes) /\ IsInjective(readyQueries) /\ readyQueries # <<>>
      /\ \A i \in DOMAIN readyQueries : Needs(f, readyQueries[i]) \cap nodes = {}
      /\ queryOrder \in Seq(AllNodes) /\ ToSet(queryOrder) = GraphNodes(f) \ nodes
      /\ IsInjective(queryOrder) /\ InOrder(f, queryOrder)
  BY DEF OrderInv, GraphInv, VisitQuery
<1>3. /\ node \in nodes /\ node \in ToSet(readyQueries) /\ Tail(readyQueries) \in Seq(nodes) /\ IsInjective(Tail(readyQueries))
      /\ ToSet(readyQueries) = {node} \cup ToSet(Tail(readyQueries)) /\ node \notin ToSet(Tail(readyQueries))
  BY <1>2, HeadAndTail
<1>4. \A q \in ToSet(readyQueries) : Needs(f, q) \cap nodes = {}
  BY <1>2 DEF ToSet
<1>5. ruleGraph' = [nodes |-> left, file |-> f]
  BY <1>2 DEF VisitQuery
<1>6. ruleGraph'.nodes = left /\ ruleGraph'.file = f
  BY <1>5
<1>7. queryOrder' = Append(queryOrder, node) /\ UNCHANGED <<ruleFiles, ruleIDs, validRules, stage>>
  BY DEF VisitQuery, readVars
<1>8. IsFiniteSet(freed)
  BY <1>2, NodesAreFinite, FS_Subset
<1>9. s \in Seq(freed) /\ IsInjective(s)
  BY <1>1, <1>8, Enumerated
<1>10. ToSet(s) \subseteq freed
  BY <1>9 DEF ToSet
<1>11. Tail(readyQueries) \in Seq(left)
  <2>1. \A i \in DOMAIN Tail(readyQueries) : Tail(readyQueries)[i] \in left
    BY <1>3 DEF ToSet
  <2> QED BY <1>3, <2>1, Narrowed
<1>12. ToSet(Tail(readyQueries)) \cap ToSet(s) = {}
  BY <1>3, <1>4, <1>10
<1>13. s \in Seq(left)
  BY <1>9
<1>14. /\ readyQueries' \in Seq(left) /\ IsInjective(readyQueries')
       /\ ToSet(readyQueries') = ToSet(Tail(readyQueries)) \cup ToSet(s)
  BY <1>1, <1>3, <1>9, <1>11, <1>12, <1>13, JoinDisjoint
<1>15. \A i \in DOMAIN readyQueries' : Needs(f, readyQueries'[i]) \cap left = {}
  <2>1. \A q \in ToSet(readyQueries') : Needs(f, q) \cap left = {}
    BY <1>3, <1>4, <1>10, <1>14
  <2> QED BY <2>1 DEF ToSet
<1>16. node \in AllNodes /\ node \notin ToSet(queryOrder)
  BY <1>2, <1>3, NodesAreFinite
<1>17. /\ queryOrder' \in Seq(AllNodes) /\ IsInjective(queryOrder')
       /\ ToSet(queryOrder') = ToSet(queryOrder) \cup {node}
  BY <1>2, <1>7, <1>16, AppendNew
<1>18. ToSet(queryOrder') = GraphNodes(f) \ left
  BY <1>2, <1>3, <1>17
<1>19. Needs(f, node) \subseteq ToSet(queryOrder)
  BY <1>2, <1>3, <1>4, NodesAreFinite
<1>20. InOrder(f, queryOrder')
  BY <1>2, <1>7, <1>16, <1>19, AppendInOrder
<1>21. RulesInv'
  BY <1>7 DEF RulesInv
<1>22. left \subseteq GraphNodes(f)
  BY <1>2
<1> QED
  BY <1>2, <1>5, <1>6, <1>7, <1>14, <1>15, <1>17, <1>18, <1>20, <1>21, <1>22 DEF OrderInv, GraphInv

(* A rule is taken when all that it asks was visited. *)
LEMMA RuleOrdered == OrderInv /\ RulesInv /\ Ordered => OrderInv' /\ RulesInv'
<1> SUFFICES ASSUME OrderInv, RulesInv, Ordered PROVE OrderInv' /\ RulesInv'
  OBVIOUS
<1> DEFINE f == ruleGraph.file
           new == [file |-> f, order |-> queryOrder]
<1>1. /\ f \in Files /\ Rule[f].id \in ruleIDs /\ \A i \in DOMAIN validRules : Rule[validRules[i].file].id # Rule[f].id
      /\ queryOrder \in Seq(AllNodes) /\ IsInjective(queryOrder) /\ InOrder(f, queryOrder)
  BY DEF OrderInv, GraphInv, Ordered
<1>2. ruleGraph' = NoGraph /\ UNCHANGED <<ruleFiles, ruleIDs, stage>>
  BY DEF Ordered, readVars
<1>3. OrderInv'
  BY <1>2 DEF OrderInv
<1>4. CASE validRules' = validRules
  BY <1>2, <1>3, <1>4 DEF RulesInv
<1>5. CASE validRules' = Append(validRules, new) /\ Len(queryOrder) = Cardinality(Rule[f].queries)
  <2>1. /\ validRules \in Seq([file : Files, order : Seq(AllNodes)]) /\ new \in [file : Files, order : Seq(AllNodes)]
    BY <1>1 DEF RulesInv
  <2>2. /\ validRules' \in Seq([file : Files, order : Seq(AllNodes)]) /\ Len(validRules) \in Nat
        /\ DOMAIN validRules = 1..Len(validRules) /\ DOMAIN validRules' = 1..(Len(validRules) + 1)
        /\ \A i \in 1..Len(validRules) : validRules'[i] = validRules[i]
        /\ validRules'[Len(validRules) + 1] = new
    BY <1>5, <2>1
  <2>3. \A i \in DOMAIN validRules' : \/ i \in DOMAIN validRules /\ validRules'[i] = validRules[i]
                                      \/ i = Len(validRules) + 1 /\ validRules'[i] = new
    BY <2>2
  <2>4. new.file = f /\ new.order = queryOrder
    OBVIOUS
  <2>5. ASSUME NEW i \in DOMAIN validRules'
        PROVE  /\ IsInjective(validRules'[i].order) /\ InOrder(validRules'[i].file, validRules'[i].order)
               /\ Len(validRules'[i].order) = Cardinality(Rule[validRules'[i].file].queries)
               /\ Rule[validRules'[i].file].id \in ruleIDs
    <3>1. CASE i \in DOMAIN validRules /\ validRules'[i] = validRules[i]
      BY <3>1 DEF RulesInv
    <3>2. CASE validRules'[i] = new
      BY <1>1, <1>5, <2>4, <3>2
    <3> QED BY <2>3, <3>1, <3>2
  <2>6. ASSUME NEW i \in DOMAIN validRules', NEW j \in DOMAIN validRules',
               Rule[validRules'[j].file].id = Rule[validRules'[i].file].id
        PROVE  i = j
    <3>1. CASE i \in DOMAIN validRules /\ validRules'[i] = validRules[i] /\ j \in DOMAIN validRules /\ validRules'[j] = validRules[j]
      BY <2>6, <3>1 DEF RulesInv
    <3>2. ~(i \in DOMAIN validRules /\ validRules'[i] = validRules[i] /\ validRules'[j] = new)
      BY <1>1, <2>4, <2>6
    <3>3. ~(j \in DOMAIN validRules /\ validRules'[j] = validRules[j] /\ validRules'[i] = new)
      BY <1>1, <2>4, <2>6
    <3> QED BY <2>3, <3>1, <3>2, <3>3
  <2> QED BY <1>2, <1>3, <2>2, <2>5, <2>6 DEF RulesInv
<1> QED BY <1>4, <1>5 DEF Ordered
------------------------------------------------------------------------------
(* The steps of the rule engine. *)
Engine == StartEngine \/ RunQuery \/ RunNil \/ GlobalEnds \/ QueryFails \/ BuildInsights

(* The rules are as they were read. *)
LEMMA EngineKeepsOrder == OrderInv /\ RulesInv /\ Engine => OrderInv' /\ RulesInv'
<1> SUFFICES ASSUME OrderInv, RulesInv, Engine PROVE OrderInv' /\ RulesInv'
  OBVIOUS
<1>1. UNCHANGED <<ruleFiles, ruleIDs, ruleGraph, validRules>>
  BY DEF Engine, StartEngine, RunQuery, RunNil, GlobalEnds, QueryFails, BuildInsights, readVars, orderVars
<1>2. stage # "read" \/ ruleGraph = NoGraph
  BY DEF Engine, StartEngine, RunQuery, RunNil, GlobalEnds, QueryFails, BuildInsights, Asks
<1>3. ruleGraph = NoGraph
  BY <1>2 DEF OrderInv, GraphInv
<1>4. OrderInv'
  BY <1>1, <1>3 DEF OrderInv
<1>5. RulesInv'
  BY <1>1 DEF RulesInv
<1> QED BY <1>4, <1>5

(* While the rules are read nothing runs. *)
Reading == ReadRule \/ VisitQuery \/ Ordered

LEMMA ReadingRunsNothing ==
    OrderInv /\ KnowledgeInv /\ RanInv /\ AnsweredInv /\ Reading => KnowledgeInv' /\ RanInv' /\ AnsweredInv' /\ OwnGrounded'
<1> SUFFICES ASSUME OrderInv, KnowledgeInv, RanInv, AnsweredInv, Reading
             PROVE  KnowledgeInv' /\ RanInv' /\ AnsweredInv' /\ OwnGrounded'
  OBVIOUS
<1>1. stage' = stage /\ stage = "read"
  BY DEF Reading, ReadRule, VisitQuery, Ordered, OrderInv, GraphInv
<1>2. UNCHANGED <<gkb, answered, queriesRan, insights>>
  BY DEF Reading, ReadRule, VisitQuery, Ordered
<1>3. DOMAIN gkb = {} /\ DOMAIN queriesRan = {} /\ DOMAIN insights = {}
  BY <1>1 DEF KnowledgeInv, RanInv
<1>4. KnowledgeInv'
  BY <1>1, <1>2, <1>3 DEF KnowledgeInv
<1>5. RanInv'
  BY <1>1, <1>2, <1>3 DEF RanInv
<1>6. AnsweredInv'
  <2>1. answered' = <<>> /\ DOMAIN gkb' = {} /\ stage' = "read"
    BY <1>1, <1>2, <1>3 DEF AnsweredInv
  <2> QED BY <2>1 DEF AnsweredInv, GlobalsAreGrounded
<1> QED BY <1>2, <1>3, <1>4, <1>5, <1>6 DEF OwnGrounded

(* What one query adds to what is not there yet. *)
LEMMA RowsOfOneRun == \A n \in 0..MaxRows : 0 + n \in 0..OneRun /\ 0 + (IF n = 0 THEN 1 ELSE n) \in 0..OneRun
<1>1. MaxRows \in Nat
  BY HANAInsightsAssumption, Zenon
<1>2. ASSUME NEW m \in Nat, NEW n \in 0..m
      PROVE  0 + n \in 0..(IF m = 0 THEN 1 ELSE m) /\ 0 + (IF n = 0 THEN 1 ELSE n) \in 0..(IF m = 0 THEN 1 ELSE m)
  OBVIOUS
<1> QED BY <1>1, <1>2 DEF OneRun

(* An element of a sequence is of its set. *)
LEMMA ElementOf == ASSUME NEW S, NEW s \in Seq(S), NEW i \in DOMAIN s PROVE s[i] \in S
OBVIOUS

(* The order of a rule. *)
LEMMA OrderOfRule ==
    ASSUME RulesInv, NEW i \in DOMAIN validRules
    PROVE  /\ validRules[i].order \in Seq(AllNodes) /\ IsInjective(validRules[i].order) /\ validRules[i].file \in Files
           /\ InOrder(validRules[i].file, validRules[i].order)
           /\ Len(validRules[i].order) = Cardinality(Rule[validRules[i].file].queries)
<1>1. validRules[i] \in [file : Files, order : Seq(AllNodes)]
  <2> DEFINE S == [file : Files, order : Seq(AllNodes)]
  <2>1. validRules \in Seq(S)
    BY DEF RulesInv
  <2> HIDE DEF S
  <2> QED BY <2>1, ElementOf DEF S
<1> QED BY <1>1 DEF RulesInv

(* A rule of its own begins with the global values. *)
LEMMA NextRuleKnows ==
    ASSUME RulesInv, KnowledgeInv, stage = "rules", NextRule(ruleAt + 1), UNCHANGED <<gkb, validRules>>
    PROVE  KnowledgeInv' /\ stage' \in {"rules", "end"}
<1>1. \A q \in DOMAIN gkb : gkb[q] \in 0..OneRun
  BY DEF KnowledgeInv
<1>2. CASE stage' = "end"
  BY <1>1, <1>2 DEF KnowledgeInv
<1>3. CASE stage' = "rules" /\ ruleAt' = ruleAt + 1 /\ kb' = gkb /\ toRun' = validRules[ruleAt + 1].order /\ ~(ruleAt + 1 > Len(validRules))
  <2>1. ruleAt \in DOMAIN validRules /\ DOMAIN validRules = 1..Len(validRules) /\ Len(validRules) \in Nat
    BY DEF KnowledgeInv, RulesInv
  <2>2. ruleAt + 1 \in DOMAIN validRules
    BY <1>3, <2>1
  <2>3. toRun' \in Seq(AllNodes) /\ IsInjective(toRun')
    BY <1>3, <2>2, OrderOfRule
  <2>4. /\ DOMAIN kb' \subseteq DOMAIN gkb /\ \A q \in DOMAIN kb' : kb'[q] \in 0..OneRun
    BY <1>1, <1>3
  <2> QED BY <1>1, <1>3, <2>2, <2>3, <2>4 DEF KnowledgeInv
<1> QED BY <1>2, <1>3 DEF NextRule

(* The knowledge base of the global rule begins empty. *)
LEMMA StartKnows == RulesInv /\ KnowledgeInv /\ StartEngine => KnowledgeInv'
<1> SUFFICES ASSUME RulesInv, KnowledgeInv, StartEngine PROVE KnowledgeInv'
  OBVIOUS
<1>1. stage' = "global" /\ DOMAIN kb' = {} /\ UNCHANGED <<gkb, validRules>> /\ DOMAIN gkb = {} /\ validRules # <<>>
  BY DEF StartEngine, orderVars, NoValues, KnowledgeInv
<1>2. toRun' \in Seq(AllNodes) /\ IsInjective(toRun') /\ (toRun' # <<>> => ruleAt' \in DOMAIN validRules)
  <2>1. CASE toRun' = <<>>
    BY <2>1 DEF IsInjective
  <2>2. CASE \E i \in Globals : ruleAt' = i /\ toRun' = validRules[i].order
    <3>1. PICK i \in Globals : ruleAt' = i /\ toRun' = validRules[i].order
      BY <2>2
    <3>2. i \in DOMAIN validRules
      BY DEF Globals
    <3> QED BY <3>1, <3>2, OrderOfRule
  <2> QED BY <2>1, <2>2 DEF StartEngine
<1> QED BY <1>1, <1>2 DEF KnowledgeInv

(* The query that runs has no rows of this rule yet. *)
LEMMA QueryKnows == RulesInv /\ KnowledgeInv /\ RunQuery => KnowledgeInv'
<1> SUFFICES ASSUME RulesInv, KnowledgeInv, RunQuery PROVE KnowledgeInv'
  OBVIOUS
<1> DEFINE h == Head(toRun)
<1>1. PICK n \in 0..MaxRows : kb' = PutValue(kb, h, RowsOf(h) + (IF n = 0 THEN 1 ELSE n))
  BY DEF RunQuery
<1>2. /\ toRun # <<>> /\ h \in Rule[Current].queries /\ toRun' = Tail(toRun) /\ stage \in {"global", "rules"}
      /\ UNCHANGED <<validRules, stage, ruleAt, gkb>>
  BY DEF RunQuery, Asks, orderVars
<1>3. toRun \in Seq(AllNodes) /\ IsInjective(toRun)
  BY <1>2 DEF KnowledgeInv
<1>4. /\ Tail(toRun) \in Seq(AllNodes) /\ IsInjective(Tail(toRun))
      /\ ToSet(toRun) = {h} \cup ToSet(Tail(toRun)) /\ h \notin ToSet(Tail(toRun))
  BY <1>2, <1>3, HeadAndTail
<1>5. DOMAIN kb' = DOMAIN kb \cup {h} /\ \A q \in DOMAIN kb : q # h => kb'[q] = kb[q]
  <2> DEFINE v == RowsOf(h) + (IF n = 0 THEN 1 ELSE n)
  <2>1. kb' = PutValue(kb, h, v)
    BY <1>1
  <2> HIDE DEF v, h
  <2> QED BY <2>1 DEF PutValue
<1>6. h \notin DOMAIN kb => kb'[h] \in 0..OneRun
  <2> DEFINE v == RowsOf(h) + (IF n = 0 THEN 1 ELSE n)
  <2>1. h \notin DOMAIN kb => v = 0 + (IF n = 0 THEN 1 ELSE n)
    BY DEF RowsOf
  <2>2. h \notin DOMAIN kb => v \in 0..OneRun
    BY <2>1, RowsOfOneRun
  <2>3. kb' = PutValue(kb, h, v)
    BY <1>1
  <2> HIDE DEF v, h
  <2> QED BY <2>2, <2>3 DEF PutValue
<1>7. CASE stage = "global"
  <2>1. \A q \in DOMAIN kb : kb[q] \in 0..OneRun /\ q \notin ToSet(toRun)
    BY <1>7 DEF KnowledgeInv
  <2>2. \A q \in DOMAIN kb' : kb'[q] \in 0..OneRun /\ q \notin ToSet(toRun')
    BY <1>2, <1>4, <1>5, <1>6, <2>1
  <2> QED BY <1>2, <1>4, <1>7, <2>2 DEF KnowledgeInv
<1>8. CASE stage = "rules"
  <2>1. /\ DOMAIN kb \subseteq DOMAIN gkb \cup Rule[Current].queries
        /\ \A q \in DOMAIN kb : q \notin DOMAIN gkb \cap Rule[Current].queries => kb[q] \in 0..OneRun
        /\ \A q \in DOMAIN kb \ DOMAIN gkb : q \notin ToSet(toRun)
    BY <1>8 DEF KnowledgeInv
  <2>2. DOMAIN kb' \subseteq DOMAIN gkb \cup Rule[Current].queries
    BY <1>2, <1>5, <2>1
  <2>3. \A q \in DOMAIN kb' : q \notin DOMAIN gkb \cap Rule[Current].queries => kb'[q] \in 0..OneRun
    BY <1>2, <1>4, <1>5, <1>6, <2>1
  <2>4. \A q \in DOMAIN kb' \ DOMAIN gkb : q \notin ToSet(toRun')
    BY <1>2, <1>4, <1>5, <2>1
  <2>5. Current' = Current
    BY <1>2 DEF Current
  <2> QED BY <1>2, <1>4, <1>8, <2>2, <2>3, <2>4, <2>5 DEF KnowledgeInv
<1> QED BY <1>2, <1>7, <1>8

(* The query that fails has no rows of this rule yet: those read before are of one run. *)
LEMMA RowsOfFailure ==
    ASSUME KnowledgeInv, QueryFails, stage = "global"
    PROVE  /\ DOMAIN kb' \subseteq DOMAIN kb \cup {Head(toRun)}
           /\ \A q \in DOMAIN kb' : kb'[q] \in 0..OneRun
<1> DEFINE h == Head(toRun)
<1>1. PICK n \in 0..MaxRows : kb' = IF n = 0 THEN kb ELSE PutValue(kb, h, RowsOf(h) + n)
  BY DEF QueryFails
<1>2. toRun # <<>> /\ toRun \in Seq(AllNodes) /\ IsInjective(toRun)
      /\ \A q \in DOMAIN kb : kb[q] \in 0..OneRun /\ q \notin ToSet(toRun)
  BY DEF QueryFails, Asks, KnowledgeInv
<1>3. h \notin DOMAIN kb
  BY <1>2, HeadAndTail
<1>4. CASE n = 0
  BY <1>1, <1>2, <1>4
<1>5. CASE n # 0
  <2> DEFINE v == RowsOf(h) + n
  <2>1. v = 0 + n
    BY <1>3 DEF RowsOf
  <2>2. v \in 0..OneRun
    BY <1>5, <2>1, RowsOfOneRun
  <2>3. kb' = PutValue(kb, h, v)
    BY <1>1, <1>5
  <2> HIDE DEF v, h
  <2>4. DOMAIN kb' = DOMAIN kb \cup {h} /\ kb'[h] = v /\ \A q \in DOMAIN kb : q # h => kb'[q] = kb[q]
    BY <2>3 DEF PutValue
  <2>5. \A q \in DOMAIN kb' : kb'[q] \in 0..OneRun
    BY <1>2, <2>2, <2>4
  <2> QED BY <2>4, <2>5 DEF h
<1> QED BY <1>4, <1>5

(* What the global rule found is of one run. *)
LEMMA GlobalKnows == RulesInv /\ KnowledgeInv /\ GlobalEnds => KnowledgeInv'
<1> SUFFICES ASSUME RulesInv, KnowledgeInv, GlobalEnds PROVE KnowledgeInv'
  OBVIOUS
<1>1. /\ stage' = "rules" /\ ruleAt' = 1 /\ toRun' = validRules[1].order /\ gkb' = kb /\ kb' = kb /\ validRules' = validRules
      /\ validRules # <<>> /\ \A q \in DOMAIN kb : kb[q] \in 0..OneRun
  BY DEF GlobalEnds, KnowledgeInv, orderVars
<1>2. 1 \in DOMAIN validRules
  BY <1>1 DEF RulesInv
<1>3. toRun' \in Seq(AllNodes) /\ IsInjective(toRun')
  BY <1>1, <1>2, OrderOfRule
<1> QED BY <1>1, <1>2, <1>3 DEF KnowledgeInv

(* Every step of the engine keeps that. *)
LEMMA EngineKnows == RulesInv /\ KnowledgeInv /\ Engine => KnowledgeInv'
<1> SUFFICES ASSUME RulesInv, KnowledgeInv, Engine PROVE KnowledgeInv'
  OBVIOUS
<1>1. CASE StartEngine
  BY <1>1, StartKnows
<1>2. CASE RunQuery
  BY <1>2, QueryKnows
<1>3. CASE GlobalEnds
  BY <1>3, GlobalKnows
<1>4. CASE RunNil
  BY <1>4 DEF RunNil, KnowledgeInv
<1>5. CASE QueryFails
  <2>1. CASE stage = "global"
    <3>1. toRun' = <<>> /\ stage' = "global" /\ UNCHANGED <<gkb, validRules>>
      BY <1>5, <2>1 DEF QueryFails, orderVars
    <3>2. toRun' \in Seq(AllNodes) /\ IsInjective(toRun') /\ ToSet(toRun') = {}
      BY <3>1 DEF IsInjective, ToSet
    <3>3. \A q \in DOMAIN kb' : kb'[q] \in 0..OneRun
      BY <1>5, <2>1, RowsOfFailure
    <3> QED BY <2>1, <3>1, <3>2, <3>3 DEF KnowledgeInv
  <2>2. CASE stage = "rules"
    BY <1>5, <2>2, NextRuleKnows DEF QueryFails, orderVars
  <2> QED BY <1>5, <2>1, <2>2 DEF QueryFails, Asks
<1>6. CASE BuildInsights
  BY <1>6, NextRuleKnows DEF BuildInsights, orderVars
<1> QED BY <1>1, <1>2, <1>3, <1>4, <1>5, <1>6 DEF Engine
------------------------------------------------------------------------------
(* What of the global rule was answered. *)

(* The beginning of an order is one. *)
LEMMA OrderBegins ==
    ASSUME NEW S, NEW T, NEW s \in Seq(S), NEW t \in Seq(T), NEW f, InOrder(f, s \o t)
    PROVE  InOrder(f, s)
<1> DEFINE r == s \o t
<1>1. /\ Len(s) \in Nat /\ DOMAIN s = 1..Len(s) /\ Len(t) \in Nat /\ DOMAIN r = 1..(Len(s) + Len(t))
      /\ \A i \in 1..Len(s) : r[i] = s[i]
  OBVIOUS
<1>2. ASSUME NEW i \in DOMAIN s PROVE Needs(f, s[i]) \subseteq {s[j] : j \in 1..(i - 1)}
  <2>1. i \in DOMAIN r /\ r[i] = s[i] /\ \A j \in 1..(i - 1) : r[j] = s[j]
    BY <1>1
  <2>2. Needs(f, r[i]) \subseteq {r[j] : j \in 1..(i - 1)}
    BY <2>1 DEF InOrder
  <2> QED BY <2>1, <2>2
<1> QED BY <1>2 DEF InOrder

(* The rule of the global values is one. *)
LEMMA OneGlobal == ASSUME RulesInv, NEW g \in Globals, NEW h \in Globals PROVE g = h
BY DEF RulesInv, Globals

(* A global query is answered after those it depends on. *)
LEMMA QueryAnswered ==
    ASSUME RulesInv, KnowledgeInv, AnsweredInv, RunQuery, stage = "global"
    PROVE  AnsweredInv'
<1> DEFINE h == Head(toRun)
           f == Current
<1>1. /\ toRun # <<>> /\ toRun \in Seq(AllNodes) /\ h \in Rule[f].queries /\ toRun' = Tail(toRun) /\ stage' = "global"
      /\ UNCHANGED <<validRules, ruleAt, gkb>> /\ answered' = Append(answered, h) /\ DOMAIN gkb = {}
  BY DEF RunQuery, Asks, orderVars, KnowledgeInv
<1>2. /\ ruleAt \in Globals /\ answered \in Seq(Rule[f].queries) /\ answered \o toRun = validRules[ruleAt].order
      /\ DOMAIN kb \subseteq ToSet(answered) /\ ruleAt \in DOMAIN validRules /\ f = validRules[ruleAt].file
  BY <1>1 DEF AnsweredInv, Globals, Current
<1>3. answered' \in Seq(Rule[f].queries) /\ ToSet(answered') = ToSet(answered) \cup {h}
  <2> HIDE DEF h, f
  <2>1. answered' \in Seq(Rule[f].queries)
    BY <1>1, <1>2
  <2>2. /\ DOMAIN answered' = 1..(Len(answered) + 1) /\ DOMAIN answered = 1..Len(answered) /\ Len(answered) \in Nat
        /\ answered'[Len(answered) + 1] = h /\ \A i \in 1..Len(answered) : answered'[i] = answered[i]
    BY <1>1, <1>2
  <2> QED BY <2>1, <2>2 DEF ToSet
<1>4. answered' \o toRun' = validRules[ruleAt].order
  <2>1. answered \in Seq(Rule[f].queries \cup AllNodes) /\ toRun \in Seq(Rule[f].queries \cup AllNodes)
    BY <1>1, <1>2
  <2> QED BY <1>1, <1>2, <2>1, Regroup
<1>5. toRun' \in Seq(AllNodes)
  BY <1>1
<1>6. InOrder(f, answered')
  <2>1. InOrder(f, answered' \o toRun')
    BY <1>2, <1>4, OrderOfRule
  <2> HIDE DEF f
  <2> QED BY <1>3, <1>5, <2>1, OrderBegins
<1>7. \A i \in DOMAIN answered' : Rule[f].deps[answered'[i]] \subseteq {answered'[j] : j \in 1..(i - 1)}
  <2> HIDE DEF f
  <2>1. \A i \in DOMAIN answered' : answered'[i] \in Rule[f].queries
    BY <1>3
  <2> QED BY <1>6, <2>1 DEF InOrder, Needs
<1>8. GlobalsAreGrounded'
  <2>1. Globals' = Globals
    BY <1>1 DEF Globals
  <2>2. \A g \in Globals : validRules'[g].file = f
    BY <1>1, <1>2, OneGlobal
  <2> HIDE DEF f
  <2> QED BY <1>1, <1>7, <2>1, <2>2 DEF GlobalsAreGrounded
<1>9. DOMAIN kb' = DOMAIN kb \cup {h}
  BY DEF RunQuery, PutValue
<1>10. DOMAIN kb' \subseteq ToSet(answered')
  BY <1>2, <1>3, <1>9
<1>11. Current' = Current /\ Globals' = Globals
  BY <1>1 DEF Current, Globals
<1> QED BY <1>1, <1>2, <1>3, <1>4, <1>8, <1>10, <1>11 DEF AnsweredInv

(* Every step of the engine keeps that. *)
LEMMA EngineAnswered == RulesInv /\ KnowledgeInv /\ AnsweredInv /\ Engine => AnsweredInv'
<1> SUFFICES ASSUME RulesInv, KnowledgeInv, AnsweredInv, Engine PROVE AnsweredInv'
  OBVIOUS
<1>1. CASE StartEngine
  <2>1. /\ stage' = "global" /\ DOMAIN kb' = {} /\ answered' = <<>> /\ DOMAIN gkb' = {} /\ UNCHANGED validRules
    BY <1>1 DEF StartEngine, NoValues, orderVars, KnowledgeInv
  <2>2. GlobalsAreGrounded'
    BY <2>1 DEF GlobalsAreGrounded
  <2>3. CASE toRun' = <<>>
    BY <2>1, <2>2, <2>3 DEF AnsweredInv
  <2>4. CASE \E i \in Globals : ruleAt' = i /\ toRun' = validRules[i].order
    <3>1. PICK i \in Globals : ruleAt' = i /\ toRun' = validRules[i].order
      BY <2>4
    <3>2. i \in Globals' /\ i \in DOMAIN validRules
      BY <2>1 DEF Globals
    <3>3. validRules[i].order \in Seq(AllNodes)
      BY <3>2, OrderOfRule
    <3>4. answered' \in Seq(Rule[Current].queries)' /\ answered' \o toRun' = validRules'[ruleAt'].order
      BY <2>1, <3>1, <3>3
    <3> QED BY <2>1, <2>2, <3>1, <3>2, <3>4 DEF AnsweredInv
  <2> QED BY <1>1, <2>3, <2>4 DEF StartEngine
<1>2. CASE RunQuery
  <2>1. CASE stage = "global"
    BY <1>2, <2>1, QueryAnswered
  <2>2. CASE stage = "rules"
    <3>1. stage' = "rules" /\ UNCHANGED <<validRules, gkb, answered>>
      BY <1>2, <2>2 DEF RunQuery, orderVars
    <3> QED BY <3>1 DEF AnsweredInv, GlobalsAreGrounded, Globals
  <2> QED BY <1>2, <2>1, <2>2 DEF RunQuery, Asks
<1>3. CASE GlobalEnds
  <2>1. /\ stage = "global" /\ stage' = "rules" /\ gkb' = kb /\ UNCHANGED <<validRules, answered>>
    BY <1>3 DEF GlobalEnds, orderVars
  <2> QED BY <2>1 DEF AnsweredInv, GlobalsAreGrounded, Globals
<1>4. CASE RunNil
  <2>1. stage' = "panicked" /\ UNCHANGED <<validRules, gkb, answered>>
    BY <1>4 DEF RunNil, orderVars
  <2> QED BY <2>1 DEF AnsweredInv, GlobalsAreGrounded, Globals
<1>5. CASE QueryFails
  <2>1. UNCHANGED <<validRules, gkb, answered>> /\ toRun # <<>>
    BY <1>5 DEF QueryFails, orderVars, Asks
  <2>2. GlobalsAreGrounded'
    BY <2>1 DEF AnsweredInv, GlobalsAreGrounded, Globals
  <2>3. CASE stage = "global"
    <3>1. toRun' = <<>> /\ stage' = "global"
      BY <1>5, <2>3 DEF QueryFails
    <3>2. DOMAIN kb \subseteq ToSet(answered)
      BY <2>1, <2>3 DEF AnsweredInv
    <3>3. DOMAIN kb' \subseteq DOMAIN kb \cup {Head(toRun)}
      BY <1>5, <2>3, RowsOfFailure
    <3> QED BY <2>1, <2>2, <3>1, <3>2, <3>3 DEF AnsweredInv
  <2>4. CASE stage = "rules"
    <3>1. stage' \in {"rules", "end"}
      BY <1>5, <2>4 DEF QueryFails, NextRule
    <3> QED BY <2>2, <3>1 DEF AnsweredInv
  <2> QED BY <1>5, <2>3, <2>4 DEF QueryFails
<1>6. CASE BuildInsights
  <2>1. stage' \in {"rules", "end"} /\ UNCHANGED <<validRules, gkb, answered>>
    BY <1>6 DEF BuildInsights, NextRule, orderVars
  <2> QED BY <2>1 DEF AnsweredInv, GlobalsAreGrounded, Globals
<1> QED BY <1>1, <1>2, <1>3, <1>4, <1>5, <1>6 DEF Engine
------------------------------------------------------------------------------
(* What has run, and what was said of it. *)
(* The current rule has no insight yet. *)
LEMMA OthersRuleAt ==
    ASSUME RulesInv, RanInv, stage = "rules", ruleAt \in DOMAIN validRules, NEW f \in DOMAIN insights
    PROVE  f # Current
<1>1. PICK i \in DOMAIN validRules : validRules[i].file = f /\ i < ruleAt
  BY DEF RanInv
<1>2. ~(ruleAt < ruleAt)
  BY DEF RulesInv
<1>3. f = Current => Rule[validRules[i].file].id = Rule[validRules[ruleAt].file].id
  BY <1>1 DEF Current
<1>4. f = Current => i = ruleAt
  BY <1>3 DEF RulesInv
<1> QED BY <1>1, <1>2, <1>4

(* The step to the next rule, with the insight of this one or without. *)
LEMMA NextRuleRan ==
    ASSUME RulesInv, RanInv, stage = "rules", ruleAt \in DOMAIN validRules,
           NextRule(ruleAt + 1), UNCHANGED <<validRules, queriesRan>>,
           insights' = insights \/ DOMAIN insights' = DOMAIN insights \cup {Current}
    PROVE  RanInv'
<1>1. DOMAIN validRules = 1..Len(validRules) /\ Len(validRules) \in Nat
  BY DEF RulesInv
<1>2. ASSUME NEW f \in DOMAIN insights'
      PROVE  \E i \in DOMAIN validRules : validRules[i].file = f /\ i < ruleAt + 1
  <2>1. CASE f \in DOMAIN insights
    <3>1. PICK i \in DOMAIN validRules : validRules[i].file = f /\ i < ruleAt
      BY <2>1 DEF RanInv
    <3> QED BY <1>1, <3>1
  <2>2. CASE f = Current
    BY <1>1, <2>2 DEF Current
  <2> QED BY <2>1, <2>2
<1>3. CASE stage' = "end"
  BY <1>2, <1>3 DEF RanInv
<1>4. CASE /\ stage' = "rules" /\ ruleAt' = ruleAt + 1 /\ toRun' = validRules[ruleAt + 1].order
           /\ ~(ruleAt + 1 > Len(validRules))
  <2>1. ruleAt + 1 \in DOMAIN validRules /\ ruleAt + 1 > ruleAt
    BY <1>1, <1>4
  <2>2. validRules[ruleAt + 1].file \notin DOMAIN queriesRan
    BY <2>1 DEF RanInv
  <2>3. RanBefore' = <<>>
    BY <1>4, <2>2 DEF RanBefore, Current
  <2>4. validRules[ruleAt + 1].order \in Seq(AllNodes)
    BY <2>1, OrderOfRule
  <2>5. RanBefore' \in Seq(Rule[Current'].queries) /\ RanBefore' \o toRun' = validRules[ruleAt + 1].order
    BY <1>4, <2>3, <2>4
  <2>6. \A j \in DOMAIN validRules : j > ruleAt + 1 => validRules[j].file \notin DOMAIN queriesRan
    <3>1. \A j \in DOMAIN validRules : j > ruleAt + 1 => j > ruleAt
      BY <1>1
    <3> QED BY <3>1 DEF RanInv
  <2>7. (Rule[Current].queries)' = Rule[Current'].queries
    OBVIOUS
  <2> QED BY <1>2, <1>4, <2>5, <2>6, <2>7 DEF RanInv
<1> QED BY <1>3, <1>4 DEF NextRule

(* A query of the current rule ran; the insights of others do not change. *)
LEMMA QueryRan == RulesInv /\ KnowledgeInv /\ RanInv /\ OwnGrounded /\ RunQuery => RanInv' /\ OwnGrounded'
<1> SUFFICES ASSUME RulesInv, KnowledgeInv, RanInv, OwnGrounded, RunQuery PROVE RanInv' /\ OwnGrounded'
  OBVIOUS
<1> DEFINE h == Head(toRun)
<1>1. /\ toRun # <<>> /\ h \in Rule[Current].queries /\ toRun' = Tail(toRun) /\ stage \in {"global", "rules"}
      /\ UNCHANGED <<validRules, stage, ruleAt, gkb, insights>>
  BY DEF RunQuery, Asks, orderVars
<1>2. CASE stage = "global"
  <2>1. queriesRan' = queriesRan
    BY <1>2 DEF RunQuery
  <2>2. DOMAIN queriesRan = {} /\ DOMAIN insights = {}
    BY <1>2 DEF RanInv
  <2> QED BY <1>1, <1>2, <2>1, <2>2 DEF RanInv, OwnGrounded
<1>3. CASE stage = "rules"
  <2>1. queriesRan' = PutValue(queriesRan, Current, Append(RanBefore, h))
    BY <1>3 DEF RunQuery
  <2>2. /\ DOMAIN queriesRan' = DOMAIN queriesRan \cup {Current} /\ queriesRan'[Current] = Append(RanBefore, h)
        /\ \A x \in DOMAIN queriesRan : x # Current => queriesRan'[x] = queriesRan[x]
    <3> DEFINE ran == Append(RanBefore, h)
    <3>1. queriesRan' = PutValue(queriesRan, Current, ran)
      BY <2>1
    <3> HIDE DEF ran
    <3>2. /\ DOMAIN queriesRan' = DOMAIN queriesRan \cup {Current} /\ queriesRan'[Current] = ran
          /\ \A x \in DOMAIN queriesRan : x # Current => queriesRan'[x] = queriesRan[x]
      BY <3>1 DEF PutValue
    <3> QED BY <3>2 DEF ran
  <2>3. /\ RanBefore \in Seq(Rule[Current].queries) /\ RanBefore \o toRun = validRules[ruleAt].order
        /\ toRun \in Seq(AllNodes) /\ ruleAt \in DOMAIN validRules
    BY <1>3 DEF RanInv, KnowledgeInv
  <2>4. Current' = Current
    BY <1>1 DEF Current
  <2>5. RanBefore' = Append(RanBefore, h)
    BY <2>2, <2>4 DEF RanBefore
  <2>6. Append(RanBefore, h) \in Seq(Rule[Current].queries)
    <3> HIDE DEF h
    <3> QED BY <1>1, <2>3
  <2>7. Append(RanBefore, h) \o Tail(toRun) = RanBefore \o toRun
    <3>1. RanBefore \in Seq(Rule[Current].queries \cup AllNodes) /\ toRun \in Seq(Rule[Current].queries \cup AllNodes)
      BY <2>3
    <3> QED BY <1>1, <3>1, Regroup
  <2>8. \A j \in DOMAIN validRules : j > ruleAt => validRules[j].file \notin DOMAIN queriesRan'
    <3>1. ~(ruleAt > ruleAt)
      BY <2>3 DEF RulesInv
    <3>2. \A j \in DOMAIN validRules : j > ruleAt => validRules[j].file # Current
      BY <2>3, <3>1 DEF RulesInv, Current
    <3> QED BY <1>3, <2>2, <3>2 DEF RanInv
  <2>9. RanInv'
    BY <1>1, <1>3, <2>3, <2>4, <2>5, <2>6, <2>7, <2>8 DEF RanInv
  <2>10. \A f \in DOMAIN insights : f # Current
    BY <1>3, <2>3, OthersRuleAt
  <2>11. \A f \in DOMAIN insights : f \in DOMAIN queriesRan => f \in DOMAIN queriesRan' /\ queriesRan'[f] = queriesRan[f]
    BY <2>2, <2>10
  <2>12. ASSUME NEW f \in DOMAIN insights PROVE InsightIsGrounded(f)'
    <3>1. InsightIsGrounded(f)
      BY DEF OwnGrounded
    <3>2. Rule[f].queries # {} => f \in DOMAIN queriesRan' /\ queriesRan'[f] = queriesRan[f]
      BY <2>11, <3>1 DEF InsightIsGrounded
    <3>3. insights'[f] = insights[f] /\ gkb' = gkb
      BY <1>1
    <3>4. /\ insights'[f].result /\ ~Rule[f].force /\ Rule[f].cond = "AND" =>
              Rule[f].refs \subseteq Rule[f].queries \cup DOMAIN gkb'
          /\ Rule[f].queries \cap DOMAIN gkb' = {} =>
              \A q \in Rule[f].refs : insights'[f].rows[q] <= IF MaxRows = 0 THEN 1 ELSE MaxRows
      BY <3>1, <3>3, Zenon DEF InsightIsGrounded
    <3>5. Rule[f].queries # {} =>
            /\ f \in DOMAIN queriesRan' /\ ToSet(queriesRan'[f]) = Rule[f].queries
            /\ \A i \in DOMAIN queriesRan'[f] :
                 Rule[f].deps[queriesRan'[f][i]] \subseteq {queriesRan'[f][j] : j \in 1..(i - 1)}
      BY <3>1, <3>2 DEF InsightIsGrounded
    <3> QED BY <3>4, <3>5, Zenon DEF InsightIsGrounded
  <2> QED BY <1>1, <2>9, <2>12 DEF OwnGrounded
<1> QED BY <1>1, <1>2, <1>3

(* An insight is built when all queries of its rule have run. *)
LEMMA InsightBuilt ==
    ASSUME RulesInv, KnowledgeInv, RanInv, BuildInsights, NEW f, f = Current
    PROVE  InsightIsGrounded(f)' /\ DOMAIN insights' = DOMAIN insights \cup {f}
           /\ \A x \in DOMAIN insights : x # f => insights'[x] = insights[x]
<1> DEFINE order == validRules[ruleAt].order
<1>1. /\ stage = "rules" /\ toRun = <<>> /\ UNCHANGED <<validRules, gkb, queriesRan>> /\ ruleAt \in DOMAIN validRules
      /\ RanBefore \in Seq(Rule[f].queries) /\ RanBefore \o toRun = order
  BY DEF BuildInsights, orderVars, KnowledgeInv, RanInv
<1>2. f \in Files /\ IsInjective(order) /\ InOrder(f, order) /\ Len(order) = Cardinality(Rule[f].queries)
  BY <1>1, OrderOfRule DEF Current
<1>3. RanBefore = order
  BY <1>1
<1>4. IsFiniteSet(Rule[f].queries)
  BY <1>2, HANAInsightsAssumption, Zenon DEF Files
<1>5. ToSet(order) = Rule[f].queries
  BY <1>1, <1>2, <1>3, <1>4, FullRange
<1>6. ASSUME Rule[f].queries # {}
      PROVE  f \in DOMAIN queriesRan /\ queriesRan[f] = order
  <2>1. order # <<>>
    BY <1>5, <1>6 DEF ToSet
  <2> QED BY <1>3, <2>1 DEF RanBefore
<1>7. \A i \in DOMAIN order : Rule[f].deps[order[i]] \subseteq {order[j] : j \in 1..(i - 1)}
  <2>1. \A i \in DOMAIN order : order[i] \in Rule[f].queries
    BY <1>5 DEF ToSet
  <2> QED BY <1>2, <2>1 DEF InOrder, Needs
<1>8. PICK r \in (IF Rule[f].force THEN {TRUE} ELSE EvaluateTrigger(f)) :
        insights' = PutValue(insights, f, [result |-> r, rows |-> [q \in Rule[f].refs |-> RowsOf(q)]])
  BY DEF BuildInsights
<1>9. /\ DOMAIN insights' = DOMAIN insights \cup {f}
      /\ insights'[f] = [result |-> r, rows |-> [q \in Rule[f].refs |-> RowsOf(q)]]
      /\ \A x \in DOMAIN insights : x # f => insights'[x] = insights[x]
  <2> DEFINE new == [result |-> r, rows |-> [q \in Rule[f].refs |-> RowsOf(q)]]
  <2>1. insights' = PutValue(insights, f, new)
    BY <1>8
  <2> HIDE DEF new
  <2>2. /\ DOMAIN insights' = DOMAIN insights \cup {f} /\ insights'[f] = new
        /\ \A x \in DOMAIN insights : x # f => insights'[x] = insights[x]
    BY <2>1 DEF PutValue
  <2> QED BY <2>2 DEF new
<1>10. insights'[f].result = r /\ \A q \in Rule[f].refs : insights'[f].rows[q] = RowsOf(q)
  BY <1>9
<1>11. /\ DOMAIN kb \subseteq DOMAIN gkb \cup Rule[f].queries
       /\ \A q \in DOMAIN kb : q \notin DOMAIN gkb \cap Rule[f].queries => kb[q] \in 0..OneRun
  BY <1>1 DEF KnowledgeInv
<1>12. ASSUME r, ~Rule[f].force, Rule[f].cond = "AND"
       PROVE  Rule[f].refs \subseteq Rule[f].queries \cup DOMAIN gkb
  <2>1. PICK v \in [Rule[f].refs -> BOOLEAN] :
          (\A q \in Rule[f].refs : v[q] \in LeafResults(f, q)) /\ (r <=> \A q \in Rule[f].refs : v[q])
    BY <1>8, <1>12 DEF EvaluateTrigger
  <2>2. \A q \in Rule[f].refs : v[q] /\ v[q] \in LeafResults(f, q)
    BY <1>12, <2>1
  <2>3. \A q \in Rule[f].refs : q \in DOMAIN kb
    BY <2>2 DEF LeafResults
  <2> QED BY <1>11, <2>3
<1>13. ASSUME Rule[f].queries \cap DOMAIN gkb = {}, NEW q \in Rule[f].refs
       PROVE  insights'[f].rows[q] <= OneRun
  <2>1. OneRun \in Nat
    <3>1. MaxRows \in Nat
      BY HANAInsightsAssumption, Zenon
    <3> QED BY <3>1 DEF OneRun
  <2>2. RowsOf(q) \in 0..OneRun
    BY <1>11, <1>13, <2>1 DEF RowsOf
  <2> QED BY <1>10, <2>1, <2>2
<1>14. InsightIsGrounded(f)'
  <2>1. Rule[f].queries # {} =>
          /\ f \in DOMAIN queriesRan' /\ ToSet(queriesRan'[f]) = Rule[f].queries
          /\ \A i \in DOMAIN queriesRan'[f] :
               Rule[f].deps[queriesRan'[f][i]] \subseteq {queriesRan'[f][j] : j \in 1..(i - 1)}
    <3> HIDE DEF order
    <3>1. ASSUME Rule[f].queries # {}
          PROVE  f \in DOMAIN queriesRan' /\ queriesRan'[f] = order
      BY <1>1, <1>6, <3>1, Zenon
    <3> QED BY <1>5, <1>7, <3>1
  <2>2. insights'[f].result /\ ~Rule[f].force /\ Rule[f].cond = "AND" =>
          Rule[f].refs \subseteq Rule[f].queries \cup DOMAIN gkb'
    BY <1>1, <1>10, <1>12, Zenon
  <2>3. Rule[f].queries \cap DOMAIN gkb' = {} =>
          \A q \in Rule[f].refs : insights'[f].rows[q] <= IF MaxRows = 0 THEN 1 ELSE MaxRows
    BY <1>1, <1>13, Zenon DEF OneRun
  <2> QED BY <2>1, <2>2, <2>3, Zenon DEF InsightIsGrounded
<1> QED BY <1>9, <1>14

(* Every step of the engine keeps what ran and what was said. *)
LEMMA EngineRan == RulesInv /\ KnowledgeInv /\ RanInv /\ OwnGrounded /\ Engine => RanInv' /\ OwnGrounded'
<1> SUFFICES ASSUME RulesInv, KnowledgeInv, RanInv, OwnGrounded, Engine PROVE RanInv' /\ OwnGrounded'
  OBVIOUS
<1>1. CASE StartEngine
  <2>1. stage = "read" /\ stage' = "global" /\ UNCHANGED <<queriesRan, insights>>
    BY <1>1 DEF StartEngine
  <2> QED BY <2>1 DEF RanInv, OwnGrounded
<1>2. CASE RunQuery
  BY <1>2, QueryRan
<1>3. CASE RunNil
  <2>1. stage' = "panicked" /\ UNCHANGED <<queriesRan, insights, validRules, gkb>>
    BY <1>3 DEF RunNil, orderVars
  <2>2. \A f \in DOMAIN insights : \E i \in DOMAIN validRules : validRules[i].file = f
    BY DEF RanInv
  <2> QED BY <2>1, <2>2, SMTT(30) DEF RanInv, OwnGrounded, InsightIsGrounded
<1>4. CASE GlobalEnds
  <2>1. /\ stage = "global" /\ stage' = "rules" /\ ruleAt' = 1 /\ toRun' = validRules[1].order /\ validRules # <<>>
        /\ UNCHANGED <<queriesRan, insights, validRules>>
    BY <1>4 DEF GlobalEnds, orderVars, KnowledgeInv
  <2>2. DOMAIN queriesRan = {} /\ DOMAIN insights = {} /\ 1 \in DOMAIN validRules
    BY <2>1 DEF RanInv, RulesInv
  <2>3. RanBefore' = <<>> /\ RanBefore' \o toRun' = validRules[1].order
    <3>1. validRules[1].order \in Seq(AllNodes)
      BY <2>2, OrderOfRule
    <3> QED BY <2>1, <2>2, <3>1 DEF RanBefore
  <2> QED BY <2>1, <2>2, <2>3 DEF RanInv, OwnGrounded
<1>5. CASE QueryFails
  <2>1. UNCHANGED <<queriesRan, insights, validRules, gkb>> /\ stage \in {"global", "rules"}
    BY <1>5 DEF QueryFails, orderVars, Asks
  <2>2. OwnGrounded'
    BY <2>1 DEF OwnGrounded, InsightIsGrounded
  <2>3. CASE stage = "global"
    <3>1. stage' = "global"
      BY <1>5, <2>3 DEF QueryFails
    <3> QED BY <2>1, <2>2, <2>3, <3>1 DEF RanInv
  <2>4. CASE stage = "rules"
    <3>1. NextRule(ruleAt + 1) /\ ruleAt \in DOMAIN validRules
      BY <1>5, <2>4 DEF QueryFails, KnowledgeInv
    <3> QED BY <2>1, <2>2, <2>4, <3>1, NextRuleRan
  <2> QED BY <2>1, <2>3, <2>4
<1>6. CASE BuildInsights
  <2>1. /\ stage = "rules" /\ ruleAt \in DOMAIN validRules /\ NextRule(ruleAt + 1)
        /\ UNCHANGED <<validRules, gkb, queriesRan>>
    BY <1>6 DEF BuildInsights, orderVars, KnowledgeInv
  <2>2. PICK f : f = Current
    OBVIOUS
  <2>3. InsightIsGrounded(f)' /\ DOMAIN insights' = DOMAIN insights \cup {f}
        /\ \A x \in DOMAIN insights : x # f => insights'[x] = insights[x]
    BY <1>6, <2>2, InsightBuilt
  <2>4. RanInv'
    BY <2>1, <2>2, <2>3, NextRuleRan
  <2>5. ASSUME NEW x \in DOMAIN insights', x # f PROVE InsightIsGrounded(x)'
    <3>1. InsightIsGrounded(x) /\ insights'[x] = insights[x]
      BY <2>3, <2>5 DEF OwnGrounded
    <3> QED BY <2>1, <3>1 DEF InsightIsGrounded
  <2> QED BY <2>3, <2>4, <2>5 DEF OwnGrounded
<1> QED BY <1>1, <1>2, <1>3, <1>4, <1>5, <1>6 DEF Engine

(* The inductive invariant of the rule engine. *)
GroundedInv == OrderInv /\ RulesInv /\ KnowledgeInv /\ RanInv /\ AnsweredInv /\ OwnGrounded

(* An insight stands on what its own rule asked, in the order the rule needs, and on
   global values, of which those of one query at most are cut short, for any number of
   rules and queries (hanainsights/ruleengine and preprocessor). *)
THEOREM InsightsStandOnTheirQueries == InsightsSpec => []InsightsAreGrounded
<1>1. InsightsInit => GroundedInv
  <2> SUFFICES ASSUME InsightsInit PROVE GroundedInv
    OBVIOUS
  <2>1. ruleFiles \in Seq(Files)
    BY HANAInsightsAssumption DEF InsightsInit, Files
  <2>2. ruleGraph = NoGraph /\ validRules = <<>> /\ stage = "read"
        /\ answered = <<>> /\ DOMAIN gkb = {} /\ DOMAIN queriesRan = {} /\ DOMAIN insights = {}
    BY DEF InsightsInit, NoValues
  <2> QED BY <2>1, <2>2 DEF GroundedInv, OrderInv, RulesInv, KnowledgeInv, RanInv, AnsweredInv, GlobalsAreGrounded, OwnGrounded
<1>2. GroundedInv /\ [InsightsNext]_insVars => GroundedInv'
  <2> SUFFICES ASSUME GroundedInv, [InsightsNext]_insVars PROVE GroundedInv'
    OBVIOUS
  <2>1. CASE Reading
    <3>1. OrderInv' /\ RulesInv'
      BY <2>1, ReadOrder, VisitOrder, RuleOrdered DEF GroundedInv, Reading
    <3> QED BY <2>1, <3>1, ReadingRunsNothing DEF GroundedInv
  <2>2. CASE Engine
    BY <2>2, EngineKeepsOrder, EngineKnows, EngineAnswered, EngineRan DEF GroundedInv
  <2>3. CASE UNCHANGED insVars
    <3>1. UNCHANGED <<ruleFiles, ruleIDs, ruleGraph, readyQueries, queryOrder, validRules, stage, ruleAt,
                      kb, gkb, toRun, answered, queriesRan, insights>>
      BY <2>3 DEF insVars, readVars, orderVars
    <3>2. OrderInv' /\ RulesInv'
      BY <3>1 DEF GroundedInv, OrderInv, GraphInv, RulesInv
    <3>3. Current' = Current /\ RanBefore' = RanBefore
      BY <3>1 DEF Current, RanBefore
    <3>4. KnowledgeInv'
      BY <3>1, <3>3 DEF GroundedInv, KnowledgeInv
    <3>5. RanInv'
      BY <3>1, <3>3 DEF GroundedInv, RanInv
    <3>6. OwnGrounded'
      BY <3>1 DEF GroundedInv, OwnGrounded, InsightIsGrounded
    <3>7. AnsweredInv'
      BY <3>1, <3>3 DEF GroundedInv, AnsweredInv, GlobalsAreGrounded, Globals
    <3> QED BY <3>2, <3>4, <3>5, <3>6, <3>7 DEF GroundedInv
  <2> QED BY <2>1, <2>2, <2>3 DEF InsightsNext, Reading, Engine
<1>3. GroundedInv => InsightsAreGrounded
  BY DEF GroundedInv, AnsweredInv, OwnGrounded, InsightsAreGrounded
<1> QED BY <1>1, <1>2, <1>3, PTL DEF InsightsSpec
--------------------------------------------------------------------------------
(* CloudDiscovery: the cache and what was asked for. *)

IsSequence(s) == Len(s) \in Nat /\ s = [i \in 1..Len(s) |-> s[i]]
IsResource(r) == "old" \in DOMAIN r /\ "uri" \in DOMAIN r /\ "names" \in DOMAIN r
(* The resources as they were found, each with its age, URI and the names it mentions. *)
Described(objs) ==
    /\ IsSequence(objs)
    /\ \A n \in DOMAIN objs : IsResource(objs[n])
FreshIn(c, objs, n) == n \in DOMAIN c /\ c[n] \in DOMAIN objs /\ ~objs[c[n]].old
(* While a discovery goes on, what it has asked for is in the cache and young enough to
   be used. *)
AskedInv ==
    /\ Described(objects) /\ IsSequence(fetches)
    /\ \A n \in DOMAIN cache : cache[n] \in DOMAIN objects
    /\ queue # <<>> => \A i \in DOMAIN fetches : FreshIn(cache, objects, fetches[i])
    /\ AsksOnce

(* What is written of a resource leaves its age, what it is and what it mentions. *)
SameResource(r, s) == s.old = r.old /\ s.uri = r.uri /\ s.names = r.names
SameResources(objs, new) ==
    /\ Described(new) /\ Len(new) = Len(objs) /\ DOMAIN new = DOMAIN objs
    /\ \A n \in DOMAIN objs : SameResource(objs[n], new[n])

(* A host name is written. *)
LEMMA Hosted ==
    ASSUME NEW objs, Described(objs), NEW o, NEW v
    PROVE  SameResources(objs, [objs EXCEPT ![o].hostname = v])
<1> DEFINE new == [objs EXCEPT ![o].hostname = v]
<1>1. DOMAIN new = DOMAIN objs
  OBVIOUS
<1>2. Len(objs) \in Nat /\ DOMAIN objs = 1..Len(objs) /\ \A n \in DOMAIN objs : IsResource(objs[n])
  BY DEF Described, IsSequence
<1>3. \A n \in DOMAIN objs : new[n] = IF n = o THEN [objs[n] EXCEPT !.hostname = v] ELSE objs[n]
  OBVIOUS
<1>4. \A n \in DOMAIN objs : IsResource(new[n]) /\ SameResource(objs[n], new[n])
  BY <1>2, <1>3 DEF IsResource, SameResource
<1>5. new = [n \in 1..Len(objs) |-> new[n]]
  BY <1>2
<1>6. Len(new) = Len(objs)
  BY <1>2, <1>5
<1> HIDE DEF new
<1>7. SameResources(objs, new)
  BY <1>1, <1>2, <1>4, <1>5, <1>6 DEF Described, IsSequence, SameResource, SameResources
<1> QED BY <1>7 DEF new

(* A relation is written. *)
LEMMA Parented ==
    ASSUME NEW objs, Described(objs), NEW p, NEW u
    PROVE  SameResources(objs, IF p = 0 THEN objs ELSE [objs EXCEPT ![p].related = @ \cup {u}])
<1> DEFINE new == [objs EXCEPT ![p].related = @ \cup {u}]
<1>1. DOMAIN new = DOMAIN objs
  OBVIOUS
<1>2. Len(objs) \in Nat /\ DOMAIN objs = 1..Len(objs) /\ \A n \in DOMAIN objs : IsResource(objs[n])
  BY DEF Described, IsSequence
<1>3. \A n \in DOMAIN objs : new[n] = IF n = p THEN [objs[n] EXCEPT !.related = @ \cup {u}] ELSE objs[n]
  OBVIOUS
<1>4. \A n \in DOMAIN objs : IsResource(new[n]) /\ SameResource(objs[n], new[n])
  BY <1>2, <1>3 DEF IsResource, SameResource
<1>5. new = [n \in 1..Len(objs) |-> new[n]]
  BY <1>2
<1>6. Len(new) = Len(objs)
  BY <1>2, <1>5
<1> HIDE DEF new
<1>7. SameResources(objs, new)
  BY <1>1, <1>2, <1>4, <1>5, <1>6 DEF Described, IsSequence, SameResource, SameResources
<1>8. SameResources(objs, objs)
  BY DEF SameResource, SameResources
<1> QED BY <1>7, <1>8 DEF new

(* To accept a resource changes no age. *)
LEMMA AgesKept ==
    ASSUME NEW objs, Described(objs), NEW h, NEW o, Accept(h, o, objs)
    PROVE  SameResources(objs, objects')
<1> DEFINE p == h.parent
           moves == /\ p # 0 /\ Kind[objs[o].uri] = "instance"
                    /\ Kind[objs[p].uri] # "instance" /\ objs[p].hostname # ""
           named == [objs EXCEPT ![o].hostname = objs[p].hostname]
           unnamed == [named EXCEPT ![p].hostname = ""]
           moved == IF moves THEN unnamed ELSE objs
<1>1. SameResources(objs, named)
  BY Hosted, Zenon
<1>2. SameResources(named, unnamed)
  <2>1. Described(named)
    BY <1>1 DEF SameResource, SameResources
  <2> HIDE DEF named
  <2> QED BY <2>1, Hosted, Zenon
<1>3. SameResources(objs, moved)
  <2>1. SameResources(objs, objs)
    BY DEF SameResource, SameResources
  <2> HIDE DEF named, unnamed, moves
  <2> QED BY <1>1, <1>2, <2>1 DEF SameResource, SameResources
<1>4. objects' = IF h.name \in Hosts THEN [moved EXCEPT ![o].hostname = h.name] ELSE moved
  BY DEF Accept
<1> HIDE DEF moved
<1>5. CASE h.name \in Hosts
  <2>1. SameResources(moved, [moved EXCEPT ![o].hostname = h.name])
    <3>1. Described(moved)
      BY <1>3 DEF SameResource, SameResources
    <3> QED BY <3>1, Hosted, Zenon
  <2>2. objects' = [moved EXCEPT ![o].hostname = h.name]
    BY <1>4, <1>5
  <2>3. SameResources(moved, objects')
    BY <2>1, <2>2, Zenon
  <2> QED BY <1>3, <2>3 DEF SameResource, SameResources
<1>6. CASE h.name \notin Hosts
  BY <1>3, <1>4, <1>6
<1> QED BY <1>5, <1>6

(* What is appended comes last. *)
LEMMA Added ==
    ASSUME NEW s, IsSequence(s), NEW x
    PROVE  /\ IsSequence(Append(s, x)) /\ DOMAIN Append(s, x) = DOMAIN s \cup {Len(s) + 1} /\ DOMAIN s = 1..Len(s)
           /\ Append(s, x)[Len(s) + 1] = x /\ \A i \in DOMAIN s : Append(s, x)[i] = s[i]
<1> DEFINE S == {s[i] : i \in DOMAIN s} \cup {x}
<1>1. Len(s) \in Nat /\ s = [i \in 1..Len(s) |-> s[i]]
  BY DEF IsSequence
<1>2. \A i \in 1..Len(s) : s[i] \in S
  BY <1>1
<1>3. x \in S
  OBVIOUS
<1> HIDE DEF S
<1>4. s \in [1..Len(s) -> S]
  BY <1>1, <1>2
<1>5. s \in Seq(S)
  BY <1>1, <1>4
<1>6. /\ Append(s, x) \in Seq(S) /\ Len(Append(s, x)) = Len(s) + 1 /\ DOMAIN Append(s, x) = 1..(Len(s) + 1)
      /\ Append(s, x)[Len(s) + 1] = x /\ \A i \in 1..Len(s) : Append(s, x)[i] = s[i]
  BY <1>3, <1>5
<1>7. Append(s, x) = [i \in 1..Len(Append(s, x)) |-> Append(s, x)[i]]
  <2> DEFINE t == Append(s, x)
  <2>1. t \in Seq(S)
    BY <1>6
  <2> HIDE DEF t
  <2>2. t = [i \in 1..Len(t) |-> t[i]]
    BY <2>1
  <2> QED BY <2>2 DEF t
<1>8. 1..(Len(s) + 1) = 1..Len(s) \cup {Len(s) + 1}
  BY <1>1
<1>9. DOMAIN s = 1..Len(s)
  BY <1>1
<1>10. Len(Append(s, x)) \in Nat
  BY <1>1, <1>6
<1> QED BY <1>6, <1>7, <1>8, <1>9, <1>10 DEF IsSequence

(* A finding of the cache is accepted. *)
LEMMA Cached ==
    ASSUME AskedInv, NEW h, NEW o, o \in DOMAIN objects, NEW c, Accept(h, o, objects), fetches' = fetches, cache' = c,
           \A n \in DOMAIN c : c[n] \in DOMAIN objects,
           \A i \in DOMAIN fetches : FreshIn(c, objects, fetches[i])
    PROVE  AskedInv'
<1>1. SameResources(objects, objects')
  BY AgesKept DEF AskedInv
<1>2. \A i \in DOMAIN fetches : FreshIn(cache', objects', fetches[i])
  BY <1>1 DEF SameResource, SameResources, FreshIn
<1> QED BY <1>1, <1>2 DEF AskedInv, SameResource, SameResources, AsksOnce

(* A name is passed over. *)
LEMMA PassedOver ==
    ASSUME AskedInv, fetches' = fetches, objects' = objects,
           \A n \in DOMAIN cache' : cache'[n] \in DOMAIN objects,
           \A i \in DOMAIN fetches : FreshIn(cache', objects, fetches[i])
    PROVE  AskedInv'
BY DEF AskedInv, AsksOnce

(* What is asked for has not been before, and is in the cache from then on. *)
LEMMA Asked ==
    ASSUME AskedInv, NEW h, NEW uri, NEW names, NEW c, Fetch(h, uri, names, c),
           \A n \in DOMAIN c : c[n] \in DOMAIN objects,
           \A i \in DOMAIN fetches : FreshIn(c, objects, fetches[i]),
           \A i \in DOMAIN fetches : fetches[i] # uri
    PROVE  AskedInv'
<1>1. CASE RequestFails /\ cache' = c
  BY <1>1, PassedOver DEF RequestFails, Pass
<1>2. CASE ~(RequestFails /\ cache' = c)
  <2> DEFINE o == Len(objects) + 1
             object == [uri |-> uri, names |-> Names(uri), old |-> FALSE,
                   hostname |-> IF uri # h.name /\ Kind[uri] = "instance" THEN h.name ELSE "",
                   related |-> (IF Kind[uri] = "group" THEN {Names(uri)[i] : i \in DOMAIN Names(uri)} ELSE {})
                                 \cup (IF h.parent # 0 THEN {objects[h.parent].uri} ELSE {})]
             parents == IF h.parent = 0 THEN objects ELSE [objects EXCEPT ![h.parent].related = @ \cup {uri}]
             objs == Append(parents, object)
  <2>1. fetches' = Append(fetches, uri) /\ cache' = Remember(c, names \cup {uri}, o) /\ Accept(h, o, objs)
    BY <1>2 DEF Fetch
  <2>2. SameResources(objects, parents)
    BY Parented, Zenon DEF AskedInv
  <2>3. IsResource(object) /\ ~object.old
    BY DEF IsResource
  <2>4. Described(parents) /\ DOMAIN parents = DOMAIN objects /\ DOMAIN objects = 1..Len(objects) /\ Len(parents) = Len(objects)
    <3> HIDE DEF parents
    <3> QED BY <2>2 DEF SameResource, SameResources, Described, IsSequence, AskedInv
  <2> HIDE DEF parents, object
  <2>5. /\ Described(objs) /\ DOMAIN objs = DOMAIN objects \cup {o} /\ ~objs[o].old
        /\ \A n \in DOMAIN objects : objs[n].old = objects[n].old
    BY <2>2, <2>3, <2>4, Added DEF Described, SameResource, SameResources
  <2> HIDE DEF objs
  <2>6. SameResources(objs, objects')
    BY <2>1, <2>5, AgesKept
  <2>7. o \in DOMAIN objs
    BY <2>5
  <2> HIDE DEF o
  <2>8. \A n \in DOMAIN cache' : cache'[n] \in DOMAIN objects'
    BY <2>1, <2>5, <2>6, <2>7 DEF Remember, SameResource, SameResources
  <2>9. FreshIn(cache', objects', uri)
    BY <2>1, <2>5, <2>6, <2>7 DEF Remember, SameResource, SameResources, FreshIn
  <2>10. \A i \in DOMAIN fetches : FreshIn(cache', objects', fetches[i])
    BY <2>1, <2>5, <2>6, <2>7 DEF Remember, SameResource, SameResources, FreshIn
  <2>11. /\ IsSequence(fetches') /\ DOMAIN fetches' = DOMAIN fetches \cup {Len(fetches) + 1} /\ DOMAIN fetches = 1..Len(fetches)
         /\ fetches'[Len(fetches) + 1] = uri /\ \A i \in DOMAIN fetches : fetches'[i] = fetches[i]
    BY <2>1, Added DEF AskedInv
  <2>12. AsksOnce'
    BY <2>11 DEF AskedInv, AsksOnce
  <2>13. \A i \in DOMAIN fetches' : FreshIn(cache', objects', fetches'[i])
    BY <2>9, <2>10, <2>11
  <2> QED BY <2>6, <2>8, <2>11, <2>12, <2>13 DEF AskedInv, SameResource, SameResources
<1> QED BY <1>1, <1>2

(* One name, under which the cache may know a resource, or under its address, or under
   its URI. *)
LEMMA Resourced ==
    ASSUME AskedInv, queue # <<>>, NEW h, DiscoverResource(h)
    PROVE  AskedInv'
<1> DEFINE addr == IF h.name \in Hosts THEN Resolved[h.name] ELSE h.name
           byAddr == IF addr \in DOMAIN cache THEN Remember(cache, {h.name}, cache[addr]) ELSE cache
           uri == IF addr \in IPs THEN Owner[addr] ELSE h.name
           byURI == IF uri \in DOMAIN cache THEN Remember(byAddr, {h.name, addr}, cache[uri]) ELSE byAddr
<1>1. /\ \A n \in DOMAIN cache : cache[n] \in DOMAIN objects
      /\ \A i \in DOMAIN fetches : FreshIn(cache, objects, fetches[i])
  BY DEF AskedInv
<1>2. \A n : Fresh(n) <=> FreshIn(cache, objects, n)
  BY <1>1 DEF Fresh, FreshIn
<1>3. CASE Fresh(h.name)
  <2>1. cache[h.name] \in DOMAIN objects
    BY <1>2, <1>3 DEF FreshIn
  <2>2. Accept(h, cache[h.name], objects) /\ fetches' = fetches /\ cache' = cache
    BY <1>3 DEF DiscoverResource
  <2> QED BY <1>1, <2>1, <2>2, Cached
<1>4. CASE ~Fresh(h.name) /\ addr \notin IPs
  <2>1. Fetch(h, h.name, {h.name}, cache)
    BY <1>4 DEF DiscoverResource
  <2>2. \A i \in DOMAIN fetches : fetches[i] # h.name
    BY <1>1, <1>2, <1>4
  <2> QED BY <1>1, <2>1, <2>2, Asked
<1>5. CASE ~Fresh(h.name) /\ addr \in IPs
  <2>1. \A i \in DOMAIN fetches : fetches[i] # h.name
    BY <1>1, <1>2, <1>5
  <2>2. \A n \in DOMAIN byAddr : byAddr[n] \in DOMAIN objects
    BY <1>1 DEF Remember
  <2>3. \A n : n # h.name => (n \in DOMAIN byAddr <=> n \in DOMAIN cache) /\ (n \in DOMAIN cache => byAddr[n] = cache[n])
    BY DEF Remember
  <2>4. \A i \in DOMAIN fetches : FreshIn(byAddr, objects, fetches[i])
    <3> HIDE DEF byAddr
    <3> QED BY <1>1, <2>1, <2>3 DEF FreshIn
  <2>5. CASE Fresh(addr)
    <3>1. Accept(h, cache[addr], objects) /\ cache' = byAddr /\ fetches' = fetches
      BY <1>5, <2>5 DEF DiscoverResource
    <3>2. cache[addr] \in DOMAIN objects
      BY <1>2, <2>5 DEF FreshIn
    <3> HIDE DEF byAddr
    <3> QED BY <2>2, <2>4, <3>1, <3>2, Cached
  <2>6. CASE RequestFails /\ cache' = byAddr
    <3>1. fetches' = fetches /\ objects' = objects
      BY <2>6 DEF RequestFails, Pass
    <3> QED BY <2>2, <2>4, <2>6, <3>1, PassedOver
  <2>7. CASE Fresh(uri) /\ Accept(h, cache[uri], objects) /\ cache' = byURI /\ fetches' = fetches
    <3>1. uri \in DOMAIN cache /\ cache[uri] \in DOMAIN objects /\ ~objects[cache[uri]].old
      BY <1>2, <2>7 DEF FreshIn
    <3>2. byURI = Remember(byAddr, {h.name, addr}, cache[uri])
      BY <3>1
    <3> HIDE DEF byAddr, byURI, uri, addr
    <3>3. \A n \in DOMAIN byURI : byURI[n] \in DOMAIN objects
      BY <2>2, <3>1, <3>2 DEF Remember
    <3>4. \A i \in DOMAIN fetches : FreshIn(byURI, objects, fetches[i])
      BY <2>4, <3>1, <3>2 DEF Remember, FreshIn
    <3> QED BY <2>7, <3>1, <3>3, <3>4, Cached
  <2>8. CASE ~Fresh(addr) /\ ~Fresh(uri) /\ Fetch(h, uri, {h.name, addr}, byURI)
    <3>1. \A i \in DOMAIN fetches : fetches[i] # uri /\ fetches[i] # addr
      BY <1>1, <1>2, <2>8
    <3>2. byURI = IF uri \in DOMAIN cache THEN Remember(byAddr, {h.name, addr}, cache[uri]) ELSE byAddr
      OBVIOUS
    <3> HIDE DEF byAddr, byURI, uri, addr
    <3>3. \A n \in DOMAIN byURI : byURI[n] \in DOMAIN objects
      BY <1>1, <2>2, <3>2 DEF Remember
    <3>4. \A i \in DOMAIN fetches : FreshIn(byURI, objects, fetches[i])
      BY <2>1, <2>4, <3>1, <3>2 DEF Remember, FreshIn
    <3> QED BY <2>8, <3>1, <3>3, <3>4, Asked
  <2>9. CASE ~Fresh(addr)
    <3>1. \/ RequestFails /\ cache' = byAddr
          \/ Fresh(uri) /\ Works /\ Accept(h, cache[uri], objects) /\ cache' = byURI /\ UNCHANGED fetches
          \/ ~Fresh(uri) /\ Fetch(h, uri, {h.name, addr}, byURI)
      BY <1>5, <2>9 DEF DiscoverResource
    <3> QED BY <2>6, <2>7, <2>8, <2>9, <3>1
  <2> QED BY <2>5, <2>9
<1> QED BY <1>3, <1>4, <1>5

(* Every step of a discovery keeps it. *)
LEMMA StillAsked == AskedInv /\ [CloudNext]_cdVars => AskedInv'
<1> SUFFICES ASSUME AskedInv, [CloudNext]_cdVars PROVE AskedInv'
  OBVIOUS
<1>1. CASE DiscoverComputeResources
  <2>1. fetches' = <<>> /\ objects' = objects /\ cache' = cache
    BY <1>1 DEF DiscoverComputeResources
  <2>2. IsSequence(fetches') /\ AsksOnce' /\ DOMAIN fetches' = {}
    BY <2>1 DEF IsSequence, AsksOnce
  <2> QED BY <2>1, <2>2 DEF AskedInv
<1>2. CASE DiscoverNext
  <2>1. CASE Head(queue).name \in seen
    <3>1. UNCHANGED <<objects, cache, fetches>> /\ queue # <<>>
      BY <1>2, <2>1 DEF DiscoverNext, Pass
    <3> QED BY <3>1 DEF AskedInv, AsksOnce
  <2>2. CASE Head(queue).name \notin seen
    <3>1. queue # <<>> /\ DiscoverResource(Head(queue))
      BY <1>2, <2>2 DEF DiscoverNext
    <3> QED BY <3>1, Resourced
  <2> QED BY <2>1, <2>2
<1>3. CASE Age
  <2>1. queue' = <<>> /\ UNCHANGED <<cache, fetches>>
    BY <1>3 DEF Age
  <2>2. PICK m \in DOMAIN objects :
          objects' = [i \in DOMAIN objects |-> [objects[i] EXCEPT !.old = @ \/ i <= m]]
    BY <1>3 DEF Age
  <2>3. Len(objects) \in Nat /\ DOMAIN objects = 1..Len(objects) /\ \A i \in DOMAIN objects : IsResource(objects[i])
    BY DEF AskedInv, Described, IsSequence
  <2>4. DOMAIN objects' = DOMAIN objects /\ \A i \in DOMAIN objects : IsResource(objects'[i])
    BY <2>2, <2>3 DEF IsResource
  <2>5. IsSequence(objects')
    <3>1. objects' = [i \in 1..Len(objects) |-> objects'[i]]
      BY <2>2, <2>3
    <3>2. Len(objects') = Len(objects)
      BY <2>3, <3>1
    <3> QED BY <2>3, <3>1, <3>2 DEF IsSequence
  <2> QED BY <2>1, <2>4, <2>5 DEF AskedInv, Described, AsksOnce
<1>4. CASE FailOver
  BY <1>4 DEF FailOver, AskedInv, AsksOnce
<1>5. CASE UNCHANGED cdVars
  BY <1>5 DEF cdVars, AskedInv, AsksOnce
<1> QED BY <1>1, <1>2, <1>3, <1>4, <1>5 DEF CloudNext

(* A resource whose description a discovery has got is not asked for again, for any
   resources, names, failing requests and changes meanwhile (cloud_discovery.go,
   discoverResource). *)
THEOREM NothingIsAskedTwice == CloudSpec => []AsksOnce
<1>1. CloudInit => AskedInv
  BY DEF CloudInit, AskedInv, Described, IsSequence, AsksOnce
<1>2. AskedInv => AsksOnce
  BY DEF AskedInv
<1> QED BY <1>1, <1>2, StillAsked, PTL DEF CloudSpec

(* CloudDiscovery: what a discovery finds. *)

(* The names that lead to what is of this discovery, and those with what is to come. *)
FoundNames == {n \in CloudNames : \E i \in DOMAIN found : objects[found[i]].uri = URIOf(n)}
Covered == FoundNames \cup {queue[k].name : k \in DOMAIN queue}
UpToDate(r) == r.names = Names(r.uri)

CloudTypes ==
    /\ user \in Backends /\ hosts \in Seq(CloudNames) /\ seen \subseteq CloudNames
    /\ queue \in Seq([name : CloudNames, parent : Nat]) /\ found \in Seq(Nat)
    /\ \A i \in DOMAIN found : found[i] \in DOMAIN objects
    /\ \A n \in DOMAIN objects : objects[n].uri \in URIs /\ objects[n].names \in Seq(CloudNames)
(* Whatever name the cache knows leads to its own resource. *)
CacheInv ==
    \A n \in DOMAIN cache : n \in CloudNames /\ cache[n] \in DOMAIN objects /\ objects[cache[n]].uri = URIOf(n)
CurrentInv ==
    ~since =>
      /\ \A n \in DOMAIN objects : ~objects[n].old => UpToDate(objects[n])
      /\ \A i \in DOMAIN found : UpToDate(objects[found[i]])
SeenInv == seen \subseteq FoundNames
CoverInv ==
    ~missed =>
      /\ \A i \in DOMAIN hosts : hosts[i] \in Covered
      /\ \A i \in DOMAIN found : \A j \in DOMAIN objects[found[i]].names : objects[found[i]].names[j] \in Covered
ReachInv ==
    ~since =>
      /\ \A k \in DOMAIN queue : URIOf(queue[k].name) \in Reachable
      /\ \A i \in DOMAIN found : objects[found[i]].uri \in Reachable
(* What a discovery has found, has still to discover and may be led astray by. *)
DiscoveryInv == CloudTypes /\ CacheInv /\ CurrentInv /\ SeenInv /\ CoverInv /\ ReachInv

(* What is taken from the front of a queue, and what is left. *)
LEMMA Dequeued ==
    ASSUME NEW Q, NEW q \in Seq(Q), q # <<>>
    PROVE  /\ Tail(q) \in Seq(Q) /\ Head(q) = q[1] /\ 1 \in DOMAIN q
           /\ \A k \in DOMAIN Tail(q) : k + 1 \in DOMAIN q /\ Tail(q)[k] = q[k + 1]
           /\ \A m \in DOMAIN q : m = 1 \/ (m - 1 \in DOMAIN Tail(q) /\ Tail(q)[m - 1] = q[m])
<1>1. Len(q) \in Nat /\ Len(q) > 0 /\ DOMAIN q = 1..Len(q) /\ Tail(q) \in Seq(Q) /\ Len(Tail(q)) = Len(q) - 1
  OBVIOUS
<1>2. DOMAIN Tail(q) = 1..(Len(q) - 1)
  BY <1>1
<1>3. \A k \in 1..(Len(q) - 1) : Tail(q)[k] = q[k + 1]
  BY <1>1
<1>4. Head(q) = q[1]
  BY <1>1
<1>5. \A m \in DOMAIN q : m = 1 \/ m - 1 \in DOMAIN Tail(q)
  BY <1>1, <1>2
<1>6. \A m \in DOMAIN q : m = 1 \/ Tail(q)[m - 1] = q[(m - 1) + 1]
  BY <1>1, <1>2, <1>3, <1>5
<1>7. \A m \in DOMAIN q : (m - 1) + 1 = m
  BY <1>1
<1>8. \A k \in DOMAIN Tail(q) : k + 1 \in DOMAIN q
  BY <1>1, <1>2
<1> QED BY <1>1, <1>2, <1>3, <1>4, <1>5, <1>6, <1>7, <1>8

(* What is added at the end of a queue. *)
LEMMA Enqueued ==
    ASSUME NEW Q, NEW q \in Seq(Q), NEW s \in Seq(Q)
    PROVE  /\ q \o s \in Seq(Q)
           /\ \A k \in DOMAIN (q \o s) :
                (k \in DOMAIN q /\ (q \o s)[k] = q[k]) \/ (k - Len(q) \in DOMAIN s /\ (q \o s)[k] = s[k - Len(q)])
           /\ \A k \in DOMAIN q : k \in DOMAIN (q \o s) /\ (q \o s)[k] = q[k]
           /\ \A i \in DOMAIN s : Len(q) + i \in DOMAIN (q \o s) /\ (q \o s)[Len(q) + i] = s[i]
<1>1. /\ Len(q) \in Nat /\ Len(s) \in Nat /\ DOMAIN q = 1..Len(q) /\ DOMAIN s = 1..Len(s)
      /\ q \o s \in Seq(Q) /\ Len(q \o s) = Len(q) + Len(s)
  OBVIOUS
<1>2. DOMAIN (q \o s) = 1..(Len(q) + Len(s))
  BY <1>1
<1>3. \A k \in 1..(Len(q) + Len(s)) : (q \o s)[k] = IF k <= Len(q) THEN q[k] ELSE s[k - Len(q)]
  BY <1>1
<1>4. \A i \in DOMAIN s : Len(q) + i \in 1..(Len(q) + Len(s)) /\ ~(Len(q) + i <= Len(q)) /\ (Len(q) + i) - Len(q) = i
  BY <1>1
<1>5. \A i \in DOMAIN s : (q \o s)[Len(q) + i] = s[i]
  BY <1>3, <1>4
<1>6. \A k \in DOMAIN (q \o s) : (k \in DOMAIN q /\ k <= Len(q)) \/ (k - Len(q) \in DOMAIN s /\ ~(k <= Len(q)))
  BY <1>1, <1>2
<1>7. \A k \in DOMAIN q : k \in 1..(Len(q) + Len(s)) /\ k <= Len(q)
  BY <1>1
<1> QED BY <1>1, <1>2, <1>3, <1>4, <1>5, <1>6, <1>7

(* What names lead to. *)
LEMMA NamesLead ==
    /\ \A n \in CloudNames : URIOf(n) \in URIs
    /\ \A u \in URIs : u \in CloudNames /\ u \notin Hosts /\ u \notin IPs /\ URIOf(u) = u
    /\ \A a \in IPs : a \in CloudNames /\ a \notin Hosts /\ URIOf(a) = Owner[a]
    /\ \A n \in Hosts : Resolved[n] \in IPs /\ URIOf(n) = Owner[Resolved[n]]
BY CloudAssumption DEF URIOf, CloudNames

LEMMA NamesKnown ==
    ASSUME user \in Backends, NEW u \in URIs
    PROVE  Names(u) \in Seq(CloudNames)
<1>1. Related[u] \in Seq(CloudNames)
  BY CloudAssumption
<1>2. user \in CloudNames
  BY CloudAssumption DEF CloudNames
<1> QED BY <1>1, <1>2 DEF Names

(* What a reachable resource mentions is reachable. *)
LEMMA ReachableOn ==
    ASSUME user \in Backends, NEW u \in Reachable, NEW i \in DOMAIN Names(u)
    PROVE  URIOf(Names(u)[i]) \in Reachable
<1>1. u \in URIs
  BY DEF Reachable
<1>2. Names(u)[i] \in CloudNames
  BY <1>1, NamesKnown
<1>3. URIOf(Names(u)[i]) \in URIs
  BY <1>2, NamesLead
<1>4. \A S \in SUBSET URIs : Closed(S) => URIOf(Names(u)[i]) \in S
  BY DEF Reachable, Closed
<1> QED BY <1>3, <1>4 DEF Reachable

(* A cache whose names lead to their own resources. *)
CacheOf(c) == \A n \in DOMAIN c : n \in CloudNames /\ c[n] \in DOMAIN objects /\ objects[c[n]].uri = URIOf(n)

LEMMA Remembered ==
    ASSUME NEW c, CacheOf(c), NEW names, names \subseteq CloudNames, NEW o \in DOMAIN objects,
           \A n \in names : URIOf(n) = objects[o].uri
    PROVE  CacheOf(Remember(c, names, o))
BY DEF CacheOf, Remember

(* A name is passed over. *)
LEMMA StillFound ==
    ASSUME AskedInv, DiscoveryInv, queue # <<>>, Pass, UNCHANGED <<user, hosts, since>>,
           missed => missed', ~missed' => Head(queue).name \in FoundNames,
           CacheOf(cache')
    PROVE  DiscoveryInv'
<1> DEFINE entries == [name : CloudNames, parent : Nat]
<1>1. queue' = Tail(queue) /\ UNCHANGED <<objects, found, seen, user, hosts, since>>
  BY DEF Pass
<1>2. queue \in Seq(entries)
  BY DEF DiscoveryInv, CloudTypes
<1> HIDE DEF entries
<1>3. /\ queue' \in Seq(entries) /\ Head(queue) = queue[1]
      /\ \A k \in DOMAIN queue' : k + 1 \in DOMAIN queue /\ queue'[k] = queue[k + 1]
      /\ \A m \in DOMAIN queue : m = 1 \/ (m - 1 \in DOMAIN queue' /\ queue'[m - 1] = queue[m])
  BY <1>1, <1>2, Dequeued
<1>4. \A k \in DOMAIN queue' : \E m \in DOMAIN queue : queue'[k] = queue[m]
  BY <1>3, Zenon
<1>5. \A m \in DOMAIN queue : queue[m] = Head(queue) \/ \E k \in DOMAIN queue' : queue'[k] = queue[m]
  BY <1>3, Zenon
<1>6. CloudTypes'
  BY <1>1, <1>3 DEF entries, DiscoveryInv, CloudTypes
<1>7. CacheInv'
  BY <1>1 DEF CacheInv, CacheOf
<1>8. CurrentInv'
  <2>1. ~since => /\ \A n \in DOMAIN objects : ~objects[n].old => objects[n].names = Names(objects[n].uri)
                  /\ \A i \in DOMAIN found : objects[found[i]].names = Names(objects[found[i]].uri)
    BY DEF DiscoveryInv, CurrentInv, UpToDate
  <2>2. \A u : Names(u)' = Names(u)
    BY <1>1 DEF Names
  <2>3. (~since => /\ \A n \in DOMAIN objects : ~objects[n].old => objects[n].names = Names(objects[n].uri)
                   /\ \A i \in DOMAIN found : objects[found[i]].names = Names(objects[found[i]].uri))'
    BY <1>1, <2>1, <2>2
  <2> QED BY <2>3 DEF CurrentInv, UpToDate
<1>9. FoundNames' = FoundNames
  BY <1>1 DEF FoundNames
<1>10. SeenInv'
  BY <1>1, <1>9 DEF DiscoveryInv, SeenInv
<1>11. ~missed' => Covered \subseteq Covered'
  BY <1>5, <1>9 DEF Covered
<1>12. CoverInv'
  BY <1>1, <1>11 DEF DiscoveryInv, CoverInv
<1>13. Reachable' = Reachable
  BY <1>1 DEF Reachable, Closed, Names
<1>14. ReachInv'
  BY <1>1, <1>4, <1>13 DEF DiscoveryInv, ReachInv
<1> QED BY <1>6, <1>7, <1>8, <1>10, <1>12, <1>14 DEF DiscoveryInv

(* What there is to know of the resources while one of them is accepted. *)
Prepared(objs, c) ==
    /\ Described(objs) /\ DOMAIN objects \subseteq DOMAIN objs
    /\ \A n \in DOMAIN objects : SameResource(objects[n], objs[n])
    /\ \A n \in DOMAIN objs : objs[n].uri \in URIs /\ objs[n].names \in Seq(CloudNames)
    /\ ~since => \A n \in DOMAIN objs : ~objs[n].old => UpToDate(objs[n])
    /\ \A n \in DOMAIN c : n \in CloudNames /\ c[n] \in DOMAIN objs /\ objs[c[n]].uri = URIOf(n)

(* A resource is accepted: the name leads to it, and what it mentions is queued. *)
LEMMA NewlyFound ==
    ASSUME AskedInv, DiscoveryInv, queue # <<>>, NEW objs, Prepared(objs, cache'),
           NEW o \in DOMAIN objs, ~objs[o].old, objs[o].uri = URIOf(Head(queue).name),
           Accept(Head(queue), o, objs), UNCHANGED <<user, hosts, since, missed>>
    PROVE  DiscoveryInv'
<1> DEFINE entries == [name : CloudNames, parent : Nat]
           h == Head(queue)
           news == [i \in DOMAIN objs[o].names |-> [name |-> objs[o].names[i], parent |-> o]]
<1>1. SameResources(objs, objects')
  BY AgesKept DEF Prepared
<1>2. /\ queue' = Tail(queue) \o news /\ found' = Append(found, o)
      /\ seen' = seen \cup {h.name, objs[o].uri}
  BY Zenon DEF Accept
<1>3. queue \in Seq(entries)
  BY DEF DiscoveryInv, CloudTypes
<1>4. o \in Nat
  BY DEF Prepared, Described, IsSequence
<1>5. objs[o].names \in Seq(CloudNames) /\ objs[o].uri \in URIs
  BY DEF Prepared
<1>6. news \in Seq(entries) /\ DOMAIN news = DOMAIN objs[o].names /\ \A i \in DOMAIN news : news[i].name = objs[o].names[i]
  <2> DEFINE names == objs[o].names
  <2>1. names \in Seq(CloudNames)
    BY <1>5
  <2> HIDE DEF names
  <2>2. [i \in DOMAIN names |-> [name |-> names[i], parent |-> o]] \in Seq(entries)
    <3>1. Len(names) \in Nat /\ DOMAIN names = 1..Len(names) /\ \A i \in DOMAIN names : names[i] \in CloudNames
      BY <2>1
    <3>2. \A i \in 1..Len(names) : [name |-> names[i], parent |-> o] \in entries
      BY <3>1, <1>4
    <3> HIDE DEF entries
    <3>3. [i \in 1..Len(names) |-> [name |-> names[i], parent |-> o]] \in [1..Len(names) -> entries]
      BY <3>2
    <3>4. [i \in 1..Len(names) |-> [name |-> names[i], parent |-> o]] \in Seq(entries)
      BY <3>1, <3>3
    <3> QED BY <3>1, <3>4
  <2> QED BY <2>2 DEF names
<1>7. h \in entries /\ h = queue[1]
  <2>1. queue # <<>> /\ h = Head(queue)
    OBVIOUS
  <2>2. queue[1] = Head(queue) /\ 1 \in DOMAIN queue
    BY <1>3, <2>1, Dequeued
  <2>3. queue[1] \in entries
    <3> HIDE DEF entries
    <3> QED BY <1>3, <2>2
  <2> QED BY <2>2, <2>3
<1>8. h.name \in CloudNames
  BY <1>7
<1> HIDE DEF news, entries
<1>9. /\ Tail(queue) \in Seq(entries)
      /\ \A k \in DOMAIN Tail(queue) : k + 1 \in DOMAIN queue /\ Tail(queue)[k] = queue[k + 1]
      /\ \A m \in DOMAIN queue : m = 1 \/ (m - 1 \in DOMAIN Tail(queue) /\ Tail(queue)[m - 1] = queue[m])
  BY <1>3, Dequeued
<1> DEFINE left == Tail(queue)
<1>10. left \in Seq(entries)
  BY <1>9
<1>11. /\ \A k \in DOMAIN left : \E m \in DOMAIN queue : left[k] = queue[m]
       /\ \A m \in DOMAIN queue : queue[m] = h \/ \E k \in DOMAIN left : left[k] = queue[m]
  BY <1>7, <1>9, Zenon
<1>12. queue' = left \o news
  BY <1>2
<1> HIDE DEF left
<1>13. /\ queue' \in Seq(entries)
       /\ \A k \in DOMAIN queue' :
            (k \in DOMAIN left /\ queue'[k] = left[k]) \/ (k - Len(left) \in DOMAIN news /\ queue'[k] = news[k - Len(left)])
       /\ \A k \in DOMAIN left : k \in DOMAIN queue' /\ queue'[k] = left[k]
       /\ \A i \in DOMAIN news : Len(left) + i \in DOMAIN queue' /\ queue'[Len(left) + i] = news[i]
  BY <1>6, <1>10, <1>12, Enqueued
<1> HIDE DEF h
<1>14. \A k \in DOMAIN queue' : (\E m \in DOMAIN queue : queue'[k] = queue[m]) \/ (\E i \in DOMAIN news : queue'[k] = news[i])
  <2> SUFFICES ASSUME NEW k \in DOMAIN queue'
               PROVE  (\E m \in DOMAIN queue : queue'[k] = queue[m]) \/ (\E i \in DOMAIN news : queue'[k] = news[i])
    OBVIOUS
  <2>1. CASE k \in DOMAIN left /\ queue'[k] = left[k]
    BY <1>11, <2>1
  <2>2. CASE k - Len(left) \in DOMAIN news /\ queue'[k] = news[k - Len(left)]
    BY <2>2
  <2> QED BY <1>13, <2>1, <2>2
<1>15. \A m \in DOMAIN queue : queue[m] = h \/ \E k \in DOMAIN queue' : queue'[k] = queue[m]
  BY <1>11, <1>13, ZenonT(60)
<1>16. \A i \in DOMAIN news : \E k \in DOMAIN queue' : queue'[k] = news[i]
  BY <1>13, Zenon
<1>17. found \in Seq(Nat)
  BY DEF DiscoveryInv, CloudTypes
<1>18. /\ found' \in Seq(Nat) /\ DOMAIN found' = DOMAIN found \cup {Len(found) + 1}
       /\ found'[Len(found) + 1] = o /\ \A i \in DOMAIN found : found'[i] = found[i]
  <2>1. IsSequence(found)
    BY <1>17 DEF IsSequence
  <2>2. found' \in Seq(Nat)
    BY <1>2, <1>4, <1>17
  <2> QED BY <1>2, <2>1, <2>2, Added
<1>19. /\ DOMAIN objects' = DOMAIN objs
       /\ \A n \in DOMAIN objs : objects'[n].uri = objs[n].uri /\ objects'[n].names = objs[n].names /\ objects'[n].old = objs[n].old
  BY <1>1 DEF SameResources, SameResource
<1>20. \A i \in DOMAIN found : found[i] \in DOMAIN objects
  BY DEF DiscoveryInv, CloudTypes
<1>21. \A n \in DOMAIN objects : n \in DOMAIN objs /\ objects'[n].uri = objects[n].uri /\ objects'[n].names = objects[n].names
  BY <1>19 DEF Prepared, SameResource
<1>22. \A n \in DOMAIN objs : objs[n].uri \in URIs /\ objs[n].names \in Seq(CloudNames)
  BY DEF Prepared
<1>23. CloudTypes'
  <2>1. UNCHANGED <<user, hosts>> /\ user \in Backends /\ hosts \in Seq(CloudNames) /\ seen \subseteq CloudNames
    BY DEF DiscoveryInv, CloudTypes
  <2>2. seen' \subseteq CloudNames
    BY <1>2, <1>5, <1>8, <2>1 DEF CloudNames
  <2>3. queue' \in Seq([name : CloudNames, parent : Nat])
    BY <1>13 DEF entries
  <2>4. \A i \in DOMAIN found' : found'[i] \in DOMAIN objects'
    BY <1>18, <1>19, <1>20, <1>21
  <2>5. \A n \in DOMAIN objects' : objects'[n].uri \in URIs /\ objects'[n].names \in Seq(CloudNames)
    BY <1>19, <1>22
  <2> QED BY <1>18, <2>1, <2>2, <2>3, <2>4, <2>5 DEF CloudTypes
<1>24. CacheInv'
  BY <1>19 DEF Prepared, CacheInv
<1>25. UNCHANGED <<user, since>>
  OBVIOUS
<1>26. CurrentInv'
  <2> SUFFICES ASSUME ~since' PROVE (/\ \A n \in DOMAIN objects : ~objects[n].old => UpToDate(objects[n])
                                    /\ \A i \in DOMAIN found : UpToDate(objects[found[i]]))'
    BY DEF CurrentInv
  <2>1. \A n \in DOMAIN objs : ~objs[n].old => objs[n].names = Names(objs[n].uri)
    BY <1>25 DEF Prepared, UpToDate
  <2>2. \A i \in DOMAIN found : objects[found[i]].names = Names(objects[found[i]].uri)
    BY <1>25 DEF DiscoveryInv, CurrentInv, UpToDate
  <2>3. \A u : Names(u)' = Names(u)
    BY <1>25 DEF Names
  <2>4. \A n \in DOMAIN objects' : ~objects'[n].old => objects'[n].names = Names(objects'[n].uri)
    BY <1>19, <2>1
  <2>5. \A i \in DOMAIN found' : objects'[found'[i]].names = Names(objects'[found'[i]].uri)
    <3>1. objects'[o].names = Names(objects'[o].uri)
      BY <1>19, <2>1
    <3> QED BY <1>18, <1>20, <1>21, <2>2, <3>1
  <2>6. (\A n \in DOMAIN objects : ~objects[n].old => UpToDate(objects[n]))'
    BY <1>25, <2>4, Zenon DEF UpToDate, Names
  <2>7. (\A i \in DOMAIN found : UpToDate(objects[found[i]]))'
    BY <1>25, <2>5, Zenon DEF UpToDate, Names
  <2> QED BY <2>6, <2>7
<1>27. FoundNames \subseteq FoundNames'
  <2> SUFFICES ASSUME NEW n \in FoundNames PROVE n \in FoundNames'
    OBVIOUS
  <2>1. PICK i \in DOMAIN found : objects[found[i]].uri = URIOf(n)
    BY DEF FoundNames
  <2>2. i \in DOMAIN found' /\ objects'[found'[i]].uri = URIOf(n)
    BY <1>18, <1>20, <1>21, <2>1
  <2> QED BY <2>2 DEF FoundNames
<1>28. objects'[found'[Len(found) + 1]].uri = objs[o].uri /\ Len(found) + 1 \in DOMAIN found'
  BY <1>18, <1>19
<1>29. h.name \in FoundNames' /\ objs[o].uri \in FoundNames'
  <2>1. URIOf(objs[o].uri) = objs[o].uri /\ objs[o].uri \in CloudNames
    BY <1>5, NamesLead
  <2>2. URIOf(h.name) = objs[o].uri
    BY DEF h
  <2> QED BY <1>8, <1>28, <2>1, <2>2 DEF FoundNames
<1>30. SeenInv'
  BY <1>2, <1>27, <1>29 DEF DiscoveryInv, SeenInv
<1>31. Covered \subseteq Covered'
  BY <1>15, <1>27, <1>29 DEF Covered
<1>32. \A j \in DOMAIN objs[o].names : objs[o].names[j] \in Covered'
  BY <1>6, <1>16 DEF Covered
<1>33. CoverInv'
  <2> SUFFICES ASSUME ~missed' PROVE (/\ \A i \in DOMAIN hosts : hosts[i] \in Covered
        /\ \A i \in DOMAIN found : \A j \in DOMAIN objects[found[i]].names : objects[found[i]].names[j] \in Covered)'
    BY DEF CoverInv
  <2>1. /\ \A i \in DOMAIN hosts : hosts[i] \in Covered
        /\ \A i \in DOMAIN found : \A j \in DOMAIN objects[found[i]].names : objects[found[i]].names[j] \in Covered
    BY DEF DiscoveryInv, CoverInv
  <2>2. \A i \in DOMAIN found : \A j \in DOMAIN objects'[found'[i]].names : objects'[found'[i]].names[j] \in Covered'
    BY <1>18, <1>20, <1>21, <1>31, <2>1
  <2>3. \A j \in DOMAIN objects'[o].names : objects'[o].names[j] \in Covered'
    BY <1>19, <1>32
  <2>4. \A i \in DOMAIN found' : \A j \in DOMAIN objects'[found'[i]].names : objects'[found'[i]].names[j] \in Covered'
    BY <1>18, <2>2, <2>3
  <2> QED BY <1>31, <2>1, <2>4
<1>34. Reachable' = Reachable
  BY DEF Reachable, Closed, Names
<1>35. ReachInv'
  <2> SUFFICES ASSUME ~since PROVE /\ \A k \in DOMAIN queue' : URIOf(queue'[k].name) \in Reachable
                                   /\ \A i \in DOMAIN found' : objects'[found'[i]].uri \in Reachable
    BY <1>34 DEF ReachInv
  <2>1. /\ \A k \in DOMAIN queue : URIOf(queue[k].name) \in Reachable
        /\ \A i \in DOMAIN found : objects[found[i]].uri \in Reachable
    BY DEF DiscoveryInv, ReachInv
  <2>2. objs[o].uri \in Reachable
    <3>1. 1 \in DOMAIN queue
      BY <1>3, Dequeued
    <3> QED BY <1>7, <2>1, <3>1 DEF h
  <2>3. objs[o].names = Names(objs[o].uri)
    BY DEF Prepared, UpToDate
  <2>4. \A i \in DOMAIN news : URIOf(news[i].name) \in Reachable
    BY <1>6, <2>2, <2>3, ReachableOn DEF DiscoveryInv, CloudTypes
  <2>5. \A k \in DOMAIN queue' : URIOf(queue'[k].name) \in Reachable
    BY <1>14, <2>1, <2>4
  <2>6. \A i \in DOMAIN found' : objects'[found'[i]].uri \in Reachable
    BY <1>18, <1>19, <1>20, <1>21, <2>1, <2>2
  <2> QED BY <2>5, <2>6
<1> QED BY <1>23, <1>24, <1>26, <1>30, <1>33, <1>35 DEF DiscoveryInv

(* A finding of the cache is accepted. *)
LEMMA CachedFound ==
    ASSUME AskedInv, DiscoveryInv, queue # <<>>, NEW n, Fresh(n), URIOf(n) = URIOf(Head(queue).name),
           Accept(Head(queue), cache[n], objects), CacheOf(cache'), UNCHANGED <<user, hosts, since, missed>>
    PROVE  DiscoveryInv'
<1> DEFINE o == cache[n]
<1>1. o \in DOMAIN objects /\ ~objects[o].old /\ objects[o].uri = URIOf(Head(queue).name)
  BY DEF DiscoveryInv, CacheInv, Fresh
<1>2. Prepared(objects, cache')
  BY DEF AskedInv, Described, DiscoveryInv, CloudTypes, CurrentInv, CacheOf, Prepared, SameResource, IsResource
<1>3. Accept(Head(queue), o, objects)
  OBVIOUS
<1> HIDE DEF o
<1> QED BY <1>1, <1>2, <1>3, NewlyFound

(* Compute Engine is asked. *)
LEMMA ResourceFetched ==
    ASSUME AskedInv, DiscoveryInv, queue # <<>>, NEW names, names \subseteq CloudNames,
           NEW uri \in URIs, \A n \in names : URIOf(n) = uri, uri = URIOf(Head(queue).name),
           NEW c, CacheOf(c), Fetch(Head(queue), uri, names, c), UNCHANGED <<user, hosts, since>>
    PROVE  DiscoveryInv'
<1> DEFINE h == Head(queue)
           o == Len(objects) + 1
           object == [uri |-> uri, names |-> Names(uri), old |-> FALSE,
                   hostname |-> IF uri # h.name /\ Kind[uri] = "instance" THEN h.name ELSE "",
                   related |-> (IF Kind[uri] = "group" THEN {Names(uri)[i] : i \in DOMAIN Names(uri)} ELSE {})
                                 \cup (IF h.parent # 0 THEN {objects[h.parent].uri} ELSE {})]
           parents == IF h.parent = 0 THEN objects ELSE [objects EXCEPT ![h.parent].related = @ \cup {uri}]
           objs == Append(parents, object)
<1>1. CASE RequestFails /\ cache' = c
  <2>1. Pass /\ missed'
    BY <1>1 DEF RequestFails
  <2> QED BY <1>1, <2>1, StillFound
<1>2. CASE ~(RequestFails /\ cache' = c)
  <2>1. missed' = missed /\ cache' = Remember(c, names \cup {uri}, o) /\ Accept(h, o, objs)
    BY <1>2 DEF Fetch, Works
  <2>2. Described(objects)
    BY DEF AskedInv
  <2>3. SameResources(objects, parents)
    BY <2>2, Parented, Zenon
  <2>4. object.uri = uri /\ object.names = Names(uri) /\ ~object.old /\ IsResource(object)
    BY DEF IsResource
  <2> HIDE DEF object, parents
  <2>5. /\ Described(parents) /\ DOMAIN parents = DOMAIN objects /\ DOMAIN objects = 1..Len(objects) /\ Len(parents) = Len(objects)
        /\ \A n \in DOMAIN objects : SameResource(objects[n], parents[n])
    BY <2>2, <2>3 DEF SameResources, Described, IsSequence
  <2>6. /\ IsSequence(objs) /\ DOMAIN objs = DOMAIN objects \cup {o} /\ objs[o] = object
        /\ \A n \in DOMAIN objects : objs[n] = parents[n]
    BY <2>5, Added DEF Described
  <2>7. o \notin DOMAIN objects
    BY <2>2, <2>5 DEF Described, IsSequence
  <2> HIDE DEF objs, o, h
  <2>8. Described(objs)
    BY <2>4, <2>5, <2>6 DEF Described, SameResource
  <2>9. \A n \in DOMAIN objects : SameResource(objects[n], objs[n])
    BY <2>5, <2>6
  <2>10. \A n \in DOMAIN objs : objs[n].uri \in URIs /\ objs[n].names \in Seq(CloudNames)
    <3>1. Names(uri) \in Seq(CloudNames)
      BY NamesKnown DEF DiscoveryInv, CloudTypes
    <3>2. \A n \in DOMAIN objects : objects[n].uri \in URIs /\ objects[n].names \in Seq(CloudNames)
      BY DEF DiscoveryInv, CloudTypes
    <3>3. \A n \in DOMAIN objects : objs[n].uri \in URIs /\ objs[n].names \in Seq(CloudNames)
      BY <2>9, <3>2 DEF SameResource
    <3> QED BY <2>4, <2>6, <3>1, <3>3
  <2>11. ~since => \A n \in DOMAIN objs : ~objs[n].old => UpToDate(objs[n])
    BY <2>4, <2>6, <2>9 DEF DiscoveryInv, CurrentInv, UpToDate, SameResource
  <2>12. \A n \in DOMAIN cache' : n \in CloudNames /\ cache'[n] \in DOMAIN objs /\ objs[cache'[n]].uri = URIOf(n)
    <3>1. uri \in CloudNames /\ URIOf(uri) = uri
      BY NamesLead
    <3>2. \A n \in DOMAIN c : n \in CloudNames /\ c[n] \in DOMAIN objs /\ objs[c[n]].uri = URIOf(n)
      BY <2>6, <2>9 DEF CacheOf, SameResource
    <3>3. \A n \in names \cup {uri} : n \in CloudNames /\ URIOf(n) = objs[o].uri
      BY <2>4, <2>6, <3>1
    <3> QED BY <2>1, <2>6, <3>2, <3>3 DEF Remember
  <2>13. Prepared(objs, cache')
    BY <2>6, <2>8, <2>9, <2>10, <2>11, <2>12 DEF Prepared
  <2>14. o \in DOMAIN objs /\ ~objs[o].old /\ objs[o].uri = URIOf(Head(queue).name) /\ Accept(Head(queue), o, objs)
    BY <2>1, <2>4, <2>6 DEF h
  <2> QED BY <2>1, <2>13, <2>14, NewlyFound
<1> QED BY <1>1, <1>2

(* One name, under which the cache may know a resource, or under its address, or under
   its URI. *)
LEMMA ResourceFound ==
    ASSUME AskedInv, DiscoveryInv, queue # <<>>, DiscoverResource(Head(queue)), UNCHANGED <<user, hosts, since>>
    PROVE  DiscoveryInv'
<1> DEFINE h == Head(queue)
           addr == IF h.name \in Hosts THEN Resolved[h.name] ELSE h.name
           byAddr == IF addr \in DOMAIN cache THEN Remember(cache, {h.name}, cache[addr]) ELSE cache
           uri == IF addr \in IPs THEN Owner[addr] ELSE h.name
           byURI == IF uri \in DOMAIN cache THEN Remember(byAddr, {h.name, addr}, cache[uri]) ELSE byAddr
<1>1. h.name \in CloudNames
  <2> DEFINE entries == [name : CloudNames, parent : Nat]
  <2>1. queue \in Seq(entries)
    BY DEF DiscoveryInv, CloudTypes
  <2>2. Head(queue) \in entries
    <3> HIDE DEF entries
    <3>1. Head(queue) = queue[1] /\ 1 \in DOMAIN queue
      BY <2>1, Dequeued
    <3> QED BY <2>1, <3>1
  <2> QED BY <2>2
<1>2. addr \in CloudNames /\ uri \in URIs /\ URIOf(h.name) = uri /\ URIOf(addr) = uri
  BY <1>1, NamesLead DEF CloudNames
<1>3. addr \notin IPs => uri = h.name
  OBVIOUS
<1>4. CacheOf(cache)
  BY DEF DiscoveryInv, CacheInv, CacheOf
<1>5. CacheOf(byAddr)
  BY <1>1, <1>2, <1>4, Remembered DEF CacheOf
<1>6. CacheOf(byURI)
  <2>1. URIOf(uri) = uri
    BY <1>2, NamesLead
  <2> HIDE DEF byAddr, uri, addr, h
  <2>2. CASE uri \in DOMAIN cache
    <3>1. cache[uri] \in DOMAIN objects /\ objects[cache[uri]].uri = uri
      BY <1>4, <2>1, <2>2 DEF CacheOf
    <3> QED BY <1>1, <1>2, <1>5, <2>2, <3>1, Remembered
  <2> QED BY <1>5, <2>2
<1>7. \/ Fresh(h.name) /\ Works /\ Accept(h, cache[h.name], objects) /\ cache' = cache
      \/ addr \notin IPs /\ Fetch(h, uri, {h.name}, cache)
      \/ Fresh(addr) /\ Works /\ Accept(h, cache[addr], objects) /\ cache' = byAddr
      \/ RequestFails /\ cache' = byAddr
      \/ Fresh(uri) /\ Works /\ Accept(h, cache[uri], objects) /\ cache' = byURI
      \/ Fetch(h, uri, {h.name, addr}, byURI)
  BY Zenon DEF DiscoverResource
<1>8. URIOf(uri) = URIOf(h.name) /\ URIOf(addr) = URIOf(h.name)
  BY <1>2, NamesLead
<1> HIDE DEF byAddr, byURI, addr, uri
<1>9. CASE Fresh(h.name) /\ Works /\ Accept(h, cache[h.name], objects) /\ cache' = cache
  BY <1>4, <1>9, CachedFound DEF Works
<1>10. CASE addr \notin IPs /\ Fetch(h, uri, {h.name}, cache)
  BY <1>1, <1>2, <1>4, <1>10, ResourceFetched
<1>11. CASE Fresh(addr) /\ Works /\ Accept(h, cache[addr], objects) /\ cache' = byAddr
  BY <1>5, <1>8, <1>11, CachedFound DEF Works
<1>12. CASE RequestFails /\ cache' = byAddr
  BY <1>5, <1>12, StillFound DEF RequestFails
<1>13. CASE Fresh(uri) /\ Works /\ Accept(h, cache[uri], objects) /\ cache' = byURI
  BY <1>6, <1>8, <1>13, CachedFound DEF Works
<1>14. CASE Fetch(h, uri, {h.name, addr}, byURI)
  BY <1>1, <1>2, <1>6, <1>14, ResourceFetched
<1> QED BY <1>7, <1>9, <1>10, <1>11, <1>12, <1>13, <1>14

(* At the end of a discovery it has what is reachable. *)
LEMMA FoundWhatIsReachable ==
    ASSUME DiscoveryInv, queue = <<>>, ~missed, ~since
    PROVE  {objects[found[i]].uri : i \in DOMAIN found} = Reachable
<1> DEFINE F == {objects[found[i]].uri : i \in DOMAIN found}
<1>1. F \subseteq Reachable
  BY DEF DiscoveryInv, ReachInv
<1>2. F \in SUBSET URIs
  BY DEF DiscoveryInv, CloudTypes
<1>3. \A n \in Covered : URIOf(n) \in F
  <2>1. Covered = FoundNames
    BY DEF Covered
  <2> QED BY <2>1 DEF FoundNames
<1>4. Closed(F)
  <2>1. \A i \in DOMAIN hosts : URIOf(hosts[i]) \in F
    BY <1>3 DEF DiscoveryInv, CoverInv
  <2>2. ASSUME NEW u \in F, NEW j \in DOMAIN Names(u) PROVE URIOf(Names(u)[j]) \in F
    <3>1. PICK i \in DOMAIN found : u = objects[found[i]].uri
      OBVIOUS
    <3>2. objects[found[i]].names = Names(u)
      BY <3>1 DEF DiscoveryInv, CurrentInv, UpToDate
    <3>3. Names(u)[j] \in Covered
      BY <3>2 DEF DiscoveryInv, CoverInv
    <3> QED BY <1>3, <3>3
  <2> HIDE DEF F
  <2> QED BY <2>1, <2>2 DEF Closed
<1>5. Reachable \subseteq F
  BY <1>2, <1>4 DEF Reachable
<1> QED BY <1>1, <1>5

(* A discovery finds everything that is related to its hosts and nothing else, for any
   resources, names, lists of hosts, cached findings, failing requests and changes
   (cloud_discovery.go, DiscoverComputeResources and discoverResource). *)
THEOREM DiscoveriesAreComplete == CloudSpec => []DiscoveryIsComplete
<1>1. CloudInit => AskedInv /\ DiscoveryInv
  <2>1. CloudInit => AskedInv
    BY DEF CloudInit, AskedInv, Described, IsSequence, AsksOnce
  <2>2. CloudInit => CloudTypes /\ CacheInv /\ CurrentInv /\ SeenInv /\ CoverInv /\ ReachInv
    BY DEF CloudInit, CloudTypes, CacheInv, CurrentInv, SeenInv, CoverInv, ReachInv
  <2> QED BY <2>1, <2>2 DEF DiscoveryInv
<1>2. AskedInv /\ DiscoveryInv /\ [CloudNext]_cdVars => AskedInv' /\ DiscoveryInv'
  <2> SUFFICES ASSUME AskedInv, DiscoveryInv, [CloudNext]_cdVars PROVE DiscoveryInv'
    BY StillAsked
  <2>1. CASE DiscoverComputeResources
    <3>1. /\ hosts' \in HostLists /\ found' = <<>> /\ seen' = {} /\ UNCHANGED <<user, objects, cache>>
          /\ queue' = [i \in DOMAIN hosts' |-> [name |-> hosts'[i], parent |-> 0]]
          /\ since' = (since /\ \E i \in DOMAIN objects : ~objects[i].old /\ objects[i].names # Names(objects[i].uri))
      BY <2>1 DEF DiscoverComputeResources
    <3>2. PICK hs \in Seq(CloudNames) : hosts' = hs
      BY <3>1, CloudAssumption
    <3>3. /\ Len(hs) \in Nat /\ DOMAIN hs = 1..Len(hs) /\ \A i \in DOMAIN hs : hs[i] \in CloudNames
      BY <3>2
    <3>4. queue' \in Seq([name : CloudNames, parent : Nat])
      <4> DEFINE entries == [name : CloudNames, parent : Nat]
      <4>1. \A i \in 1..Len(hs) : [name |-> hs[i], parent |-> 0] \in entries
        BY <3>3
      <4> HIDE DEF entries
      <4>2. queue' \in [1..Len(hs) -> entries]
        BY <3>1, <3>2, <3>3, <4>1
      <4>3. queue' \in Seq(entries)
        BY <3>3, <4>2
      <4> QED BY <4>3 DEF entries
    <3>5. DOMAIN queue' = DOMAIN hosts' /\ \A i \in DOMAIN hosts' : queue'[i].name = hosts'[i]
      BY <3>1
    <3>6. CloudTypes'
      BY <3>1, <3>2, <3>4 DEF DiscoveryInv, CloudTypes
    <3>7. CacheInv'
      BY <3>1 DEF DiscoveryInv, CacheInv
    <3>8. DOMAIN found' = {}
      BY <3>1
    <3>9. CurrentInv'
      <4>1. ~since' => \A n \in DOMAIN objects : ~objects[n].old => objects[n].names = Names(objects[n].uri)
        BY <3>1 DEF DiscoveryInv, CurrentInv, UpToDate
      <4>2. \A u : Names(u)' = Names(u)
        BY <3>1 DEF Names
      <4>3. (~since => \A n \in DOMAIN objects : ~objects[n].old => objects[n].names = Names(objects[n].uri))'
        BY <3>1, <4>1, <4>2
      <4> QED BY <3>8, <4>3 DEF CurrentInv, UpToDate
    <3>10. SeenInv'
      BY <3>1 DEF SeenInv
    <3>11. CoverInv'
      BY <3>5, <3>8 DEF CoverInv, Covered
    <3>12. \A i \in DOMAIN hosts' : URIOf(hosts'[i]) \in Reachable'
      <4>1. \A i \in DOMAIN hosts' : URIOf(hosts'[i]) \in URIs
        BY <3>2, <3>3, NamesLead
      <4> QED BY <4>1 DEF Reachable, Closed
    <3>13. ReachInv'
      BY <3>5, <3>8, <3>12 DEF ReachInv
    <3> QED BY <3>6, <3>7, <3>9, <3>10, <3>11, <3>13 DEF DiscoveryInv
  <2>2. CASE DiscoverNext
    <3>1. queue # <<>> /\ UNCHANGED <<user, hosts, since>>
      BY <2>2 DEF DiscoverNext
    <3>2. CASE Head(queue).name \in seen
      <4>1. Pass /\ missed' = missed /\ cache' = cache
        BY <2>2, <3>2 DEF DiscoverNext, Works
      <4>2. Head(queue).name \in FoundNames /\ CacheOf(cache')
        BY <3>2, <4>1 DEF DiscoveryInv, SeenInv, CacheInv, CacheOf
      <4> QED BY <3>1, <4>1, <4>2, StillFound
    <3>3. CASE Head(queue).name \notin seen
      <4>1. DiscoverResource(Head(queue))
        BY <2>2, <3>3 DEF DiscoverNext
      <4> QED BY <3>1, <4>1, ResourceFound
    <3> QED BY <3>2, <3>3
  <2>3. CASE Age
    <3>1. UNCHANGED <<user, cache, queue, found, seen, hosts, since, missed>>
      BY <2>3 DEF Age
    <3>2. PICK m \in DOMAIN objects :
            objects' = [i \in DOMAIN objects |-> [objects[i] EXCEPT !.old = @ \/ i <= m]]
      BY <2>3 DEF Age
    <3>3. /\ DOMAIN objects' = DOMAIN objects
          /\ \A i \in DOMAIN objects : objects'[i].uri = objects[i].uri /\ objects'[i].names = objects[i].names
          /\ \A i \in DOMAIN objects : ~objects'[i].old => ~objects[i].old
      <4>1. \A i \in DOMAIN objects : IsResource(objects[i])
        BY DEF AskedInv, Described
      <4> QED BY <3>2, <4>1 DEF IsResource
    <3>4. \A i \in DOMAIN found : found[i] \in DOMAIN objects
      BY DEF DiscoveryInv, CloudTypes
    <3>5. CloudTypes'
      BY <3>1, <3>3 DEF DiscoveryInv, CloudTypes
    <3>6. CacheInv'
      BY <3>1, <3>3 DEF DiscoveryInv, CacheInv
    <3>7. CurrentInv'
      <4>1. ~since => /\ \A n \in DOMAIN objects : ~objects[n].old => objects[n].names = Names(objects[n].uri)
                      /\ \A i \in DOMAIN found : objects[found[i]].names = Names(objects[found[i]].uri)
        BY DEF DiscoveryInv, CurrentInv, UpToDate
      <4>2. \A u : Names(u)' = Names(u)
        BY <3>1 DEF Names
      <4>3. (~since => /\ \A n \in DOMAIN objects : ~objects[n].old => objects[n].names = Names(objects[n].uri)
                       /\ \A i \in DOMAIN found : objects[found[i]].names = Names(objects[found[i]].uri))'
        BY <3>1, <3>3, <3>4, <4>1, <4>2
      <4> QED BY <4>3 DEF CurrentInv, UpToDate
    <3>8. FoundNames' = FoundNames
      BY <3>1, <3>3, <3>4 DEF FoundNames
    <3>9. SeenInv'
      BY <3>1, <3>8 DEF DiscoveryInv, SeenInv
    <3>10. CoverInv'
      BY <3>1, <3>3, <3>4, <3>8 DEF DiscoveryInv, CoverInv, Covered
    <3>11. Reachable' = Reachable
      BY <3>1 DEF Reachable, Closed, Names
    <3>12. ReachInv'
      BY <3>1, <3>3, <3>4, <3>11 DEF DiscoveryInv, ReachInv
    <3> QED BY <3>5, <3>6, <3>7, <3>9, <3>10, <3>12 DEF DiscoveryInv
  <2>4. CASE FailOver
    <3>1. user' \in Backends /\ since' /\ UNCHANGED <<objects, cache, queue, found, seen, hosts, missed>>
      BY <2>4 DEF FailOver
    <3>2. CloudTypes' /\ CacheInv' /\ SeenInv' /\ CoverInv'
      BY <3>1 DEF DiscoveryInv, CloudTypes, CacheInv, SeenInv, CoverInv, Covered, FoundNames
    <3> QED BY <3>1, <3>2 DEF DiscoveryInv, CurrentInv, ReachInv
  <2>5. CASE UNCHANGED cdVars
    <3>1. UNCHANGED <<user, objects, cache, queue, found, seen, hosts, since, missed>>
      BY <2>5 DEF cdVars
    <3>2. CloudTypes' /\ CacheInv' /\ SeenInv' /\ CoverInv'
      BY <3>1 DEF DiscoveryInv, CloudTypes, CacheInv, SeenInv, CoverInv, Covered, FoundNames
    <3>3. CurrentInv'
      BY <3>1, Zenon DEF DiscoveryInv, CurrentInv, UpToDate, Names
    <3>4. ReachInv'
      BY <3>1 DEF DiscoveryInv, ReachInv, Reachable, Closed, Names
    <3> QED BY <3>2, <3>3, <3>4 DEF DiscoveryInv
  <2> QED BY <2>1, <2>2, <2>3, <2>4, <2>5 DEF CloudNext
<1>3. AskedInv /\ DiscoveryInv => DiscoveryIsComplete
  BY FoundWhatIsReachable DEF AskedInv, DiscoveryIsComplete
<1> QED BY <1>1, <1>2, <1>3, PTL DEF CloudSpec

--------------------------------------------------------------------------------
(* WorkloadSections: the backups that are reported. *)

(* Of lines that have come by a time, one is the newest. *)
LEMMA NewestLines ==
    ASSUME NEW S, S # {}, NEW n \in Nat, \A x \in S : x.time \in 1..n
    PROVE  /\ \E x \in S : \A y \in S : y.time <= x.time
           /\ \E x \in S : NewestLine(S) = x.time /\ \A y \in S : y.time <= NewestLine(S)
<1> DEFINE T == {k \in Nat : \E x \in S : x.time = n - k}
<1>1. T \in SUBSET Nat /\ T # {}
  <2>1. PICK x \in S : TRUE
    OBVIOUS
  <2>2. n - x.time \in Nat /\ x.time = n - (n - x.time)
    OBVIOUS
  <2>3. n - x.time \in T
    BY <2>2
  <2> QED BY <2>3
<1>2. PICK m \in T : \A k \in T : m <= k
  BY <1>1, LeastElement
<1>3. PICK x \in S : x.time = n - m
  BY <1>2
<1>4. ASSUME NEW y \in S PROVE y.time <= x.time
  <2>1. n - y.time \in Nat /\ y.time = n - (n - y.time)
    OBVIOUS
  <2>2. n - y.time \in T
    BY <2>1
  <2>3. m <= n - y.time
    BY <1>2, <2>2
  <2> QED BY <1>3, <2>3
<1>5. \E z \in S : \A y \in S : y.time <= z.time
  BY <1>4
<1> DEFINE newest == CHOOSE z \in S : \A y \in S : y.time <= z.time
<1>6. newest \in S /\ \A y \in S : y.time <= newest.time
  BY <1>5
<1>7. NewestLine(S) = newest.time
  BY DEF NewestLine
<1> HIDE DEF newest
<1> QED BY <1>5, <1>6, <1>7

(* A log whose lines have come by a time, and in which what has succeeded has begun. *)
WellLogged(l, n) ==
    /\ Len(l) \in Nat /\ l = [i \in 1..Len(l) |-> l[i]]
    /\ \A x \in ToSet(l) : x.time \in 1..n
    /\ \A x \in Lines(l, "finished") : \E c \in Lines(l, "command") : c.thread = x.thread /\ c.time < x.time
(* Every thread runs one backup only. *)
Once(l) == \A x, y \in Lines(l, "command") : x.thread = y.thread => x = y

(* The type of the newest of these commands. *)
NewestType(of) == IF of = {} THEN "" ELSE (CHOOSE x \in of : \A y \in of : y.time <= x.time).type

(* The type of a success is that of the thread then. *)
LEMMA OneType ==
    ASSUME NEW l, NEW n \in Nat, WellLogged(l, n), n < Infinite, Once(l), NEW x \in Lines(l, "finished")
    PROVE  TypeOf(l, x.thread, Infinite) = TypeOf(l, x.thread, x.time)
<1>1. PICK c \in Lines(l, "command") : c.thread = x.thread /\ c.time < x.time
  BY DEF WellLogged
<1>2. c.time \in 1..n /\ x.time \in 1..n /\ Infinite \in Nat
  BY FirstLogAssumption DEF WellLogged, Lines, Infinite
<1>3. {y \in Lines(l, "command") : y.thread = x.thread /\ y.time < x.time} = {c}
  BY <1>1 DEF Once
<1>4. c.time < Infinite
  BY <1>2
<1>5. {y \in Lines(l, "command") : y.thread = x.thread /\ y.time < Infinite} = {c}
  BY <1>1, <1>4 DEF Once
<1>6. \A before : TypeOf(l, x.thread, before)
                    = NewestType({y \in Lines(l, "command") : y.thread = x.thread /\ y.time < before})
  BY Zenon DEF TypeOf, NewestType
<1> QED BY <1>3, <1>5, <1>6, Zenon

(* What is fetched is no newer than the last success, and is a success. *)
LEMMA FetchedIsASuccess ==
    ASSUME NEW l, NEW n \in Nat, WellLogged(l, n), n < Infinite, Once(l),
           NEW successes, successes \subseteq Lines(l, "finished"), NEW type
    PROVE  /\ Fetched(successes, l, type) \in Nat /\ Fetched(successes, l, type) <= Latest(l, type)
           /\ Fetched(successes, l, type) > 0 =>
                \E x \in Lines(l, "finished") : x.time = Fetched(successes, l, type) /\ TypeOf(l, x.thread, x.time) = type
<1> DEFINE S == {x \in successes : TypeOf(l, x.thread, Infinite) = type}
           U == {x \in Lines(l, "finished") : TypeOf(l, x.thread, x.time) = type}
<1>1. S \subseteq U
  BY OneType
<1>2. \A x \in U : x.time \in 1..n
  BY DEF WellLogged, Lines
<1>3. Fetched(successes, l, type) = NewestLine(S) /\ Latest(l, type) = NewestLine(U)
  BY DEF Fetched, Latest
<1>4. \A x \in U : x \in Lines(l, "finished") /\ TypeOf(l, x.thread, x.time) = type
  OBVIOUS
<1> HIDE DEF S, U
<1>5. NewestLine(U) \in Nat
  <2>1. CASE U = {}
    BY <2>1 DEF NewestLine
  <2>2. CASE U # {}
    <3>1. PICK x \in U : NewestLine(U) = x.time
      BY <1>2, <2>2, NewestLines
    <3> QED BY <1>2, <3>1
  <2> QED BY <2>1, <2>2
<1>6. CASE S = {}
  <2>1. NewestLine(S) = 0
    BY <1>6 DEF NewestLine
  <2> QED BY <1>3, <1>5, <2>1
<1>7. CASE S # {}
  <2>1. PICK x \in S : NewestLine(S) = x.time
    BY <1>1, <1>2, <1>7, NewestLines
  <2>2. U # {}
    BY <1>1, <1>7
  <2>3. x.time <= NewestLine(U)
    BY <1>1, <1>2, <2>2, NewestLines
  <2>4. x \in U /\ x.time \in Nat
    BY <1>1, <1>2
  <2> QED BY <1>3, <1>4, <2>1, <2>3, <2>4
<1> QED BY <1>6, <1>7

(* What a longer log says of the successes before. *)
Keeps(l, m) ==
    /\ Lines(l, "finished") \subseteq Lines(m, "finished") /\ Lines(l, "command") \subseteq Lines(m, "command")
    /\ \A x \in Lines(l, "finished") : TypeOf(m, x.thread, x.time) = TypeOf(l, x.thread, x.time)

LEMMA LaterLine ==
    ASSUME NEW l, NEW n \in Nat, WellLogged(l, n), NEW x, x.time = n + 1,
           x.what = "finished" => \E c \in Lines(l, "command") : c.thread = x.thread
    PROVE  WellLogged(Append(l, x), n + 1) /\ Keeps(l, Append(l, x)) /\ ToSet(Append(l, x)) = ToSet(l) \cup {x}
<1> DEFINE m == Append(l, x)
           S == ToSet(l) \cup {x}
<1>1. Len(l) \in Nat /\ l = [i \in 1..Len(l) |-> l[i]] /\ DOMAIN l = 1..Len(l)
  BY DEF WellLogged
<1>2. \A i \in 1..Len(l) : l[i] \in S
  BY <1>1 DEF ToSet
<1>3. l \in Seq(S)
  <2> HIDE DEF S
  <2>1. l \in [1..Len(l) -> S]
    BY <1>1, <1>2
  <2> QED BY <1>1, <2>1
<1>4. x \in S
  OBVIOUS
<1>5. /\ m \in Seq(S) /\ Len(m) = Len(l) + 1 /\ DOMAIN m = 1..(Len(l) + 1)
      /\ m[Len(l) + 1] = x /\ \A i \in 1..Len(l) : m[i] = l[i]
  <2> HIDE DEF S
  <2> QED BY <1>3, <1>4
<1>6. 1..(Len(l) + 1) = 1..Len(l) \cup {Len(l) + 1}
  BY <1>1
<1>7. ToSet(m) = S
  <2> HIDE DEF m
  <2>1. ToSet(m) \subseteq S
    <3> HIDE DEF S
    <3>1. \A i \in DOMAIN m : m[i] \in S
      BY <1>2, <1>4, <1>5, <1>6
    <3> QED BY <3>1 DEF ToSet
  <2>2. x \in ToSet(m)
    BY <1>5, <1>6 DEF ToSet
  <2>3. \A y \in ToSet(l) : y \in ToSet(m)
    BY <1>1, <1>5, <1>6 DEF ToSet
  <2> QED BY <2>1, <2>2, <2>3
<1> HIDE DEF m
<1>8. /\ \A y \in Lines(m, "finished") : y \in Lines(l, "finished") \/ (y = x /\ x.what = "finished")
      /\ \A y \in Lines(m, "command") : y \in Lines(l, "command") \/ y = x
      /\ Lines(l, "finished") \subseteq Lines(m, "finished") /\ Lines(l, "command") \subseteq Lines(m, "command")
  BY <1>7, Zenon DEF Lines
<1>9. \A y \in Lines(l, "finished") \cup Lines(l, "command") : y.time \in 1..n
  BY DEF WellLogged, Lines
<1>10. \A y \in Lines(m, "finished") : \E c \in Lines(m, "command") : c.thread = y.thread /\ c.time < y.time
  <2> SUFFICES ASSUME NEW y \in Lines(m, "finished")
               PROVE  \E c \in Lines(m, "command") : c.thread = y.thread /\ c.time < y.time
    OBVIOUS
  <2>1. CASE y \in Lines(l, "finished")
    BY <1>8, <2>1 DEF WellLogged
  <2>2. CASE y = x /\ x.what = "finished"
    <3>1. PICK c \in Lines(l, "command") : c.thread = x.thread
      BY <2>2
    <3>2. c.time < x.time
      BY <1>9
    <3> QED BY <1>8, <2>2, <3>1, <3>2
  <2> QED BY <1>8, <2>1, <2>2
<1>11. \A y \in ToSet(m) : y.time \in 1..(n + 1)
  <2>1. \A y \in ToSet(l) : y.time \in 1..n
    BY DEF WellLogged
  <2>2. \A y \in ToSet(l) : y.time \in 1..(n + 1)
    BY <2>1
  <2>3. x.time \in 1..(n + 1)
    OBVIOUS
  <2> QED BY <1>7, <2>2, <2>3
<1>12. WellLogged(m, n + 1)
  <2>1. Len(m) \in Nat /\ m = [i \in 1..Len(m) |-> m[i]]
    <3> HIDE DEF S
    <3> QED BY <1>5
  <2> QED BY <1>10, <1>11, <2>1 DEF WellLogged
<1>13. ASSUME NEW y \in Lines(l, "finished") PROVE TypeOf(m, y.thread, y.time) = TypeOf(l, y.thread, y.time)
  <2>1. ~(x.time < y.time)
    BY <1>9
  <2>2. \A c : c \in Lines(m, "command") /\ c.time < y.time <=> c \in Lines(l, "command") /\ c.time < y.time
    BY <1>8, <2>1
  <2>3. {c \in Lines(m, "command") : c.thread = y.thread /\ c.time < y.time}
          = {c \in Lines(l, "command") : c.thread = y.thread /\ c.time < y.time}
    BY <2>2
  <2>4. \A log : TypeOf(log, y.thread, y.time)
                  = NewestType({c \in Lines(log, "command") : c.thread = y.thread /\ c.time < y.time})
    BY Zenon DEF TypeOf, NewestType
  <2> QED BY <2>3, <2>4, Zenon
<1> QED BY <1>7, <1>8, <1>12, <1>13 DEF Keeps, m

LEMMA LatestGrows ==
    ASSUME NEW l, NEW m, NEW n \in Nat, WellLogged(m, n), Keeps(l, m), NEW type
    PROVE  Latest(l, type) \in Nat /\ Latest(m, type) \in Nat /\ Latest(l, type) <= Latest(m, type)
<1> DEFINE S == {x \in Lines(l, "finished") : TypeOf(l, x.thread, x.time) = type}
           U == {x \in Lines(m, "finished") : TypeOf(m, x.thread, x.time) = type}
<1>1. S \subseteq U
  BY DEF Keeps
<1>2. \A x \in U : x.time \in 1..n
  BY DEF WellLogged, Lines
<1>3. Latest(l, type) = NewestLine(S) /\ Latest(m, type) = NewestLine(U)
  BY DEF Latest
<1> HIDE DEF S, U
<1>4. NewestLine(U) \in Nat
  <2>1. CASE U = {}
    BY <2>1 DEF NewestLine
  <2>2. CASE U # {}
    <3>1. PICK x \in U : NewestLine(U) = x.time
      BY <1>2, <2>2, NewestLines
    <3> QED BY <1>2, <3>1
  <2> QED BY <2>1, <2>2
<1>5. CASE S = {}
  <2>1. NewestLine(S) = 0
    BY <1>5 DEF NewestLine
  <2> QED BY <1>3, <1>4, <2>1
<1>6. CASE S # {}
  <2>1. PICK x \in S : NewestLine(S) = x.time
    BY <1>1, <1>2, <1>6, NewestLines
  <2>2. U # {}
    BY <1>1, <1>6
  <2>3. x.time <= NewestLine(U) /\ x.time \in Nat
    BY <1>1, <1>2, <2>2, NewestLines
  <2> QED BY <1>3, <1>4, <2>1, <2>3
<1> QED BY <1>5, <1>6

(* The tenants in some order. *)
LEMMA TenantsInOrder ==
    /\ SetToSeq(Tenants) \in Seq(Tenants) /\ ToSet(SetToSeq(Tenants)) = Tenants /\ SetToSeq(Tenants) # <<>>
<1> DEFINE n == Cardinality(Tenants)
<1>1. n \in Nat /\ ExistsBijection(1..n, Tenants)
  BY SectionsAssumption, FS_CardinalityType
<1>2. PICK g \in Bijection(1..n, Tenants) : TRUE
  BY <1>1 DEF ExistsBijection
<1>3. g \in [1..n -> Tenants] /\ IsInjective(g)
  BY <1>2 DEF Bijection, Injection
<1> DEFINE f == SetToSeq(Tenants)
<1>4. f \in [1..n -> Tenants] /\ IsInjective(f)
  BY <1>3 DEF SetToSeq
<1>5. f \in Injection(1..n, Tenants)
  BY <1>4 DEF Injection
<1>6. IsFiniteSet(1..n) /\ Cardinality(1..n) = n
  BY <1>1, PlacesAreFinite
<1> HIDE DEF f, n
<1>7. Cardinality(Tenants) = n
  BY DEF n
<1>8. f \in Surjection(1..n, Tenants)
  BY <1>5, <1>6, <1>7, SectionsAssumption, FS_Injection
<1>9. f \in Seq(Tenants) /\ DOMAIN f = 1..n
  BY <1>1, <1>4
<1>10. ToSet(f) = Tenants
  BY <1>4, <1>8 DEF Surjection, ToSet
<1>11. n # 0
  BY <1>7, SectionsAssumption, FS_EmptySet
<1>12. f # <<>>
  BY <1>1, <1>9, <1>11
<1> QED BY <1>9, <1>10, <1>12 DEF f

(* What the next tenant leaves. *)
LEMMA NextTenant ==
    ASSUME NEW left \in Seq(Tenants), left # <<>>
    PROVE  /\ Head(left) \in Tenants /\ Tail(left) \in Seq(Tenants)
           /\ ToSet(left) \subseteq ToSet(Tail(left)) \cup {Head(left)}
<1>1. Len(left) \in Nat /\ Len(left) > 0 /\ DOMAIN left = 1..Len(left) /\ Head(left) = left[1]
      /\ Tail(left) \in Seq(Tenants) /\ DOMAIN Tail(left) = 1..(Len(left) - 1)
      /\ \A i \in 1..(Len(left) - 1) : Tail(left)[i] = left[i + 1]
  OBVIOUS
<1>2. ASSUME NEW i \in DOMAIN left PROVE left[i] \in ToSet(Tail(left)) \cup {Head(left)}
  <2>1. CASE i = 1
    BY <1>1, <2>1
  <2>2. CASE i # 1
    <3>1. i - 1 \in DOMAIN Tail(left) /\ Tail(left)[i - 1] = left[(i - 1) + 1] /\ (i - 1) + 1 = i
      BY <1>1, <2>2
    <3> QED BY <3>1 DEF ToSet
  <2> QED BY <2>1, <2>2
<1>3. Head(left) \in Tenants
  BY <1>1
<1> QED BY <1>1, <1>2, <1>3 DEF ToSet

AllLines == UNION {ToSet(backupLog[t]) : t \in Tenants}
LogInv ==
    /\ IsFiniteSet(AllLines) /\ Clock \in Nat /\ Clock < Infinite /\ DOMAIN backupLog = Tenants
    /\ \A t \in Tenants : WellLogged(backupLog[t], Clock)
OnceEach == \A t \in Tenants : Once(backupLog[t])
(* The time of a type overstates nothing about these tenants. *)
Reliable(tenant, time, type, tenants) ==
    /\ time \in Nat /\ \A t \in tenants : time <= Latest(backupLog[t], type)
    /\ tenant # "" /\ time > 0 =>
         /\ tenant \in Tenants
         /\ \E x \in Lines(backupLog[tenant], "finished") : x.time = time /\ TypeOf(backupLog[tenant], x.thread, x.time) = type
(* The log of the tenant whose turn it is is being read; what is known so far is of
   those that had theirs. *)
ReadingInv ==
    /\ wlStep["hana"] \in {"successes", "commands"} =>
         /\ "left" \in DOMAIN backupRead /\ "successes" \in DOMAIN backupRead
         /\ "oldest" \in DOMAIN backupRead /\ "tenant" \in DOMAIN backupRead
         /\ backupRead.left \in Seq(Tenants) /\ backupRead.left # <<>>
         /\ OnceEach => \A type \in BackupTypes :
              Reliable(backupRead.tenant[type], backupRead.oldest[type], type, Tenants \ ToSet(backupRead.left))
    /\ wlStep["hana"] = "commands" => backupRead.successes \subseteq Lines(backupLog[Head(backupRead.left)], "finished")
ReportInv ==
    wlStep["hana"] = "done" /\ section["hana"].value = 1 /\ OnceEach =>
      \A type \in BackupTypes :
        LET d == section["hana"].labels[type] IN d.known => Reliable(d.tenant, d.time, type, Tenants)
StepInv ==
    /\ DOMAIN wlStep = Routines /\ DOMAIN section = ToSet(SectionNames)
    /\ "value" \in DOMAIN section["hana"] /\ "labels" \in DOMAIN section["hana"]
    /\ wlStep["collection"] = "idle" => wlStep["hana"] = ""
    /\ wlStep["hana"] # "done" => section["hana"].value # 1
BackupsInv == LogInv /\ StepInv /\ ReadingInv /\ ReportInv

(* A line is added to the log of a tenant. *)
LogGrows(t, x) ==
    /\ backupLog' = [backupLog EXCEPT ![t] = Append(@, x)] /\ x.time = Clock + 1
    /\ x.what = "finished" => \E c \in Lines(backupLog[t], "command") : c.thread = x.thread

LEMMA BackupIsLogged ==
    ASSUME LogInv, NEW t \in Tenants, HANABackup(t)
    PROVE  \E x : LogGrows(t, x)
<1>1. CASE \E thread \in Threads, type \in BackupTypes : backupLog' = [backupLog EXCEPT ![t] = Append(@, CommandLine(thread, type, Clock + 1))]
  <2>1. PICK thread, type : backupLog' = [backupLog EXCEPT ![t] = Append(@, CommandLine(thread, type, Clock + 1))]
    BY <1>1
  <2> DEFINE x == CommandLine(thread, type, Clock + 1)
  <2>2. x.time = Clock + 1 /\ x.what = "command"
    BY DEF CommandLine
  <2>3. "command" # "finished"
    OBVIOUS
  <2> HIDE DEF x
  <2>4. LogGrows(t, x)
    BY <2>1, <2>2, <2>3, Zenon DEF LogGrows, x
  <2> QED BY <2>4
<1>2. CASE \E thread \in Running(t) : backupLog' = [backupLog EXCEPT ![t] = Append(@, Finished(thread, Clock + 1))]
  <2>1. PICK thread \in Running(t) : backupLog' = [backupLog EXCEPT ![t] = Append(@, Finished(thread, Clock + 1))]
    BY <1>2
  <2> DEFINE x == Finished(thread, Clock + 1)
             of == {y \in ToSet(backupLog[t]) : y.thread = thread}
             c == CHOOSE y \in of : \A z \in of : z.time <= y.time
  <2>2. of # {} /\ c.what = "command"
    BY DEF Running
  <2>3. \A y \in of : y.time \in 1..Clock
    BY DEF LogInv, WellLogged
  <2>4. Clock \in Nat
    BY DEF LogInv
  <2>5. \E y \in of : \A z \in of : z.time <= y.time
    <3> HIDE DEF of
    <3> QED BY <2>2, <2>3, <2>4, NewestLines
  <2>6. c \in of
    BY <2>5
  <2> HIDE DEF c
  <2>7. c \in Lines(backupLog[t], "command") /\ c.thread = thread
    BY <2>2, <2>6 DEF Lines
  <2>8. x.time = Clock + 1 /\ x.thread = thread
    BY DEF Finished
  <2> HIDE DEF x, of
  <2>9. LogGrows(t, x)
    BY <2>1, <2>7, <2>8, Zenon DEF LogGrows, x
  <2> QED BY <2>9
<1> QED BY <1>1, <1>2, Zenon DEF HANABackup

(* A log that grows keeps what is known. *)
LEMMA LogKept ==
    ASSUME LogInv, NEW t \in Tenants, NEW x, LogGrows(t, x), Clock < MaxBackupLines
    PROVE  LogInv' /\ \A u \in Tenants : WellLogged(backupLog'[u], Clock + 1) /\ Keeps(backupLog[u], backupLog'[u])
<1>1. /\ DOMAIN backupLog' = Tenants /\ backupLog'[t] = Append(backupLog[t], x)
      /\ \A u \in Tenants : u # t => backupLog'[u] = backupLog[u]
  BY DEF LogInv, LogGrows
<1>2. Clock \in Nat /\ WellLogged(backupLog[t], Clock)
  BY DEF LogInv
<1>3. /\ WellLogged(backupLog'[t], Clock + 1) /\ Keeps(backupLog[t], backupLog'[t])
      /\ ToSet(backupLog'[t]) = ToSet(backupLog[t]) \cup {x}
  BY <1>1, <1>2, LaterLine DEF LogGrows
<1>4. ASSUME NEW u \in Tenants, u # t PROVE WellLogged(backupLog'[u], Clock + 1) /\ Keeps(backupLog[u], backupLog'[u])
  <2>1. WellLogged(backupLog[u], Clock) /\ backupLog'[u] = backupLog[u]
    BY <1>1, <1>4 DEF LogInv
  <2>2. \A l : \A n \in Nat : WellLogged(l, n) => WellLogged(l, n + 1)
    BY DEF WellLogged
  <2> QED BY <1>2, <2>1, <2>2 DEF Keeps
<1>5. \A u \in Tenants : WellLogged(backupLog'[u], Clock + 1) /\ Keeps(backupLog[u], backupLog'[u])
  BY <1>3, <1>4
<1>6. AllLines' = AllLines \cup {x}
  BY <1>1, <1>3 DEF AllLines
<1>7. x \notin AllLines
  <2>1. \A y \in AllLines : y.time \in 1..Clock
    BY DEF LogInv, WellLogged, AllLines
  <2>2. x.time \notin 1..Clock
    BY <1>2 DEF LogGrows
  <2> QED BY <2>1, <2>2
<1>8. Clock = Cardinality(AllLines) /\ Clock' = Cardinality(AllLines')
  BY DEF Clock, AllLines
<1>9. IsFiniteSet(AllLines') /\ Clock' = Clock + 1
  BY <1>6, <1>7, <1>8, FS_AddElement DEF LogInv
<1>10. Clock' \in Nat /\ Clock' < Infinite
  BY <1>2, <1>9, FirstLogAssumption DEF Infinite
<1>11. LogInv'
  BY <1>1, <1>5, <1>9, <1>10 DEF LogInv
<1> QED BY <1>5, <1>11

LEMMA ReliableKept ==
    ASSUME NEW n \in Nat, \A u \in Tenants : WellLogged(backupLog'[u], n) /\ Keeps(backupLog[u], backupLog'[u]),
           NEW tenant, NEW time, NEW type, NEW tenants \in SUBSET Tenants, Reliable(tenant, time, type, tenants)
    PROVE  Reliable(tenant, time, type, tenants)'
<1>1. \A u \in tenants : time <= Latest(backupLog'[u], type)
  <2> SUFFICES ASSUME NEW u \in tenants PROVE time <= Latest(backupLog'[u], type)
    OBVIOUS
  <2>1. /\ Latest(backupLog[u], type) \in Nat /\ Latest(backupLog'[u], type) \in Nat
        /\ Latest(backupLog[u], type) <= Latest(backupLog'[u], type)
    BY LatestGrows
  <2>2. time <= Latest(backupLog[u], type) /\ time \in Nat
    BY DEF Reliable
  <2> QED BY <2>1, <2>2
<1>2. ASSUME tenant # "", time > 0
      PROVE  /\ tenant \in Tenants
             /\ \E x \in Lines(backupLog'[tenant], "finished") :
                  x.time = time /\ TypeOf(backupLog'[tenant], x.thread, x.time) = type
  BY <1>2 DEF Reliable, Keeps
<1> QED BY <1>1, <1>2 DEF Reliable

LEMMA OnceBefore ==
    ASSUME \A u \in Tenants : Keeps(backupLog[u], backupLog'[u]), OnceEach'
    PROVE  OnceEach
BY DEF OnceEach, Once, Keeps

LEMMA SectionIsHANA == "hana" \in ToSet(SectionNames) /\ "hana" \in Routines /\ "collection" \in Routines
<1>1. SectionNames[3] = "hana" /\ 3 \in DOMAIN SectionNames
  BY DEF SectionNames
<1> QED BY <1>1 DEF ToSet, Routines

(* A step of a routine. *)
LEMMA RoutineSteps ==
    ASSUME StepInv, NEW r \in Routines, NEW absorb, NEW next, WlAt(r, absorb, next)
    PROVE  wlStep[r] = absorb /\ wlStep'[r] = next /\ DOMAIN wlStep' = Routines /\ \A q \in Routines : q # r => wlStep'[q] = wlStep[q]
BY DEF StepInv, WlAt

LEMMA LabelsWritten ==
    ASSUME StepInv, NEW s \in ToSet(SectionNames), NEW new, Label(s, new)
    PROVE  /\ DOMAIN section' = ToSet(SectionNames) /\ \A q \in ToSet(SectionNames) : q # s => section'[q] = section[q]
           /\ s = "hana" => /\ section'[s].value = section[s].value /\ section'[s].labels = WrittenOver(new, section[s].labels)
                            /\ "value" \in DOMAIN section'[s] /\ "labels" \in DOMAIN section'[s]
<1> DEFINE over == [section EXCEPT ![s].labels = WrittenOver(new, @)]
<1>1. section' = over /\ DOMAIN section = ToSet(SectionNames)
  BY DEF Label, StepInv
<1>2. DOMAIN over = ToSet(SectionNames) /\ over[s] = [section[s] EXCEPT !.labels = WrittenOver(new, section[s].labels)]
      /\ \A q \in ToSet(SectionNames) : q # s => over[q] = section[q]
  BY <1>1
<1>3. s = "hana" => "value" \in DOMAIN section[s] /\ "labels" \in DOMAIN section[s]
  BY DEF StepInv
<1> HIDE DEF over
<1> QED BY <1>1, <1>2, <1>3

LEMMA SectionClosed ==
    ASSUME StepInv, NEW s \in ToSet(SectionNames), NEW value, NEW new, Close(s, value, new)
    PROVE  /\ DOMAIN section' = ToSet(SectionNames) /\ \A q \in ToSet(SectionNames) : q # s => section'[q] = section[q]
           /\ section'[s].value = value /\ section'[s].labels = WrittenOver(new, section[s].labels)
           /\ "value" \in DOMAIN section'[s] /\ "labels" \in DOMAIN section'[s]
BY DEF Close, StepInv

(* What does not concern HANA's section. *)
LEMMA HANAUntouched ==
    ASSUME BackupsInv, UNCHANGED <<backupLog, backupRead>>, wlStep'["hana"] = wlStep["hana"], section'["hana"] = section["hana"],
           DOMAIN wlStep' = Routines, DOMAIN section' = ToSet(SectionNames),
           wlStep'["collection"] = "idle" => wlStep["collection"] = "idle"
    PROVE  BackupsInv'
<1>1. LogInv' /\ (OnceEach' <=> OnceEach)
  BY DEF BackupsInv, LogInv, AllLines, Clock, OnceEach
<1>2. StepInv'
  BY Zenon DEF BackupsInv, StepInv
<1>3. \A tenant, time, type, tenants : Reliable(tenant, time, type, tenants) => Reliable(tenant, time, type, tenants)'
  BY Zenon DEF Reliable
<1>4. ReadingInv'
  BY <1>1, Zenon DEF BackupsInv, ReadingInv, Reliable
<1>5. ReportInv'
  BY <1>1, Zenon DEF BackupsInv, ReportInv, Reliable
<1> QED BY <1>1, <1>2, <1>4, <1>5 DEF BackupsInv

(* HANA's routine before it reads the logs, or when it gives up. *)
LEMMA HANAOnTheWay ==
    ASSUME BackupsInv, UNCHANGED backupLog, DOMAIN wlStep' = Routines, DOMAIN section' = ToSet(SectionNames),
           wlStep'["collection"] = wlStep["collection"], wlStep["hana"] # "",
           wlStep'["hana"] # "successes", wlStep'["hana"] # "commands", section'["hana"].value # 1,
           "value" \in DOMAIN section'["hana"], "labels" \in DOMAIN section'["hana"]
    PROVE  BackupsInv'
<1>1. LogInv'
  BY DEF BackupsInv, LogInv, AllLines, Clock
<1>2. StepInv'
  BY Zenon DEF BackupsInv, StepInv
<1>3. ReadingInv' /\ ReportInv'
  BY Zenon DEF ReadingInv, ReportInv
<1> QED BY <1>1, <1>2, <1>3 DEF BackupsInv

(* What has been fetched of the tenant whose turn it is. *)
FetchedOf(fetched) ==
    OnceEach => \A type \in BackupTypes :
      /\ fetched[type] \in Nat /\ fetched[type] <= Latest(backupLog[Head(backupRead.left)], type)
      /\ fetched[type] > 0 => \E x \in Lines(backupLog[Head(backupRead.left)], "finished") :
           x.time = fetched[type] /\ TypeOf(backupLog[Head(backupRead.left)], x.thread, x.time) = type

(* The older of the two is reliable for both. *)
LEMMA OlderIsReliable ==
    ASSUME BackupsInv, wlStep["hana"] \in {"successes", "commands"}, NEW fetched, FetchedOf(fetched), backupRead' = Reported(fetched)
    PROVE  /\ "left" \in DOMAIN backupRead' /\ "successes" \in DOMAIN backupRead'
           /\ "oldest" \in DOMAIN backupRead' /\ "tenant" \in DOMAIN backupRead'
           /\ backupRead'.left = Tail(backupRead.left)
           /\ OnceEach => \A type \in BackupTypes :
                Reliable(backupRead'.tenant[type], backupRead'.oldest[type], type, Tenants \ ToSet(Tail(backupRead.left)))
<1> DEFINE read == backupRead
           t == Head(read.left)
           older(type) == fetched[type] < read.oldest[type]
<1>1. /\ "left" \in DOMAIN read /\ "successes" \in DOMAIN read /\ "oldest" \in DOMAIN read /\ "tenant" \in DOMAIN read
      /\ read.left \in Seq(Tenants) /\ read.left # <<>>
      /\ OnceEach => \A type \in BackupTypes : Reliable(read.tenant[type], read.oldest[type], type, Tenants \ ToSet(read.left))
  BY Zenon DEF BackupsInv, ReadingInv
<1>2. /\ DOMAIN backupRead' = DOMAIN read /\ backupRead'.left = Tail(read.left)
      /\ backupRead'.oldest = [type \in BackupTypes |-> IF older(type) THEN fetched[type] ELSE read.oldest[type]]
      /\ backupRead'.tenant = [type \in BackupTypes |-> IF older(type) THEN t ELSE read.tenant[type]]
  BY <1>1 DEF Reported
<1>3. t \in Tenants /\ Tenants \ ToSet(Tail(read.left)) \subseteq (Tenants \ ToSet(read.left)) \cup {t}
  BY <1>1, NextTenant
<1> HIDE DEF t, read
<1>4. ASSUME OnceEach, NEW type \in BackupTypes
      PROVE  Reliable(backupRead'.tenant[type], backupRead'.oldest[type], type, Tenants \ ToSet(Tail(read.left)))
  <2> DEFINE tenant == read.tenant[type]
             time == read.oldest[type]
             fetch == fetched[type]
  <2>1. Reliable(tenant, time, type, Tenants \ ToSet(read.left))
    BY <1>1, <1>4
  <2>2. /\ fetch \in Nat /\ fetch <= Latest(backupLog[t], type)
        /\ fetch > 0 => \E x \in Lines(backupLog[t], "finished") : x.time = fetch /\ TypeOf(backupLog[t], x.thread, x.time) = type
    BY <1>4, Zenon DEF FetchedOf, t, read
  <2>3. /\ backupRead'.tenant[type] = IF older(type) THEN t ELSE tenant
        /\ backupRead'.oldest[type] = IF older(type) THEN fetch ELSE time
    BY <1>2
  <2>4. \A u \in Tenants : Latest(backupLog[u], type) \in Nat
    <3> SUFFICES ASSUME NEW u \in Tenants PROVE Latest(backupLog[u], type) \in Nat
      OBVIOUS
    <3>1. WellLogged(backupLog[u], Clock) /\ Keeps(backupLog[u], backupLog[u]) /\ Clock \in Nat
      BY DEF BackupsInv, LogInv, Keeps
    <3> QED BY <3>1, LatestGrows
  <2>5. older(type) <=> fetch < time
    OBVIOUS
  <2> HIDE DEF older, tenant, time, fetch
  <2>6. CASE older(type)
    <3>1. \A u \in Tenants \ ToSet(Tail(read.left)) : fetch <= Latest(backupLog[u], type)
      <4> SUFFICES ASSUME NEW u \in Tenants \ ToSet(Tail(read.left)) PROVE fetch <= Latest(backupLog[u], type)
        OBVIOUS
      <4>1. CASE u = t
        BY <2>2, <4>1
      <4>2. CASE u \in Tenants \ ToSet(read.left)
        <5>1. time <= Latest(backupLog[u], type) /\ time \in Nat
          BY <2>1, <4>2 DEF Reliable
        <5> QED BY <2>2, <2>4, <2>5, <2>6, <5>1
      <4> QED BY <1>3, <4>1, <4>2
    <3>2. Reliable(t, fetch, type, Tenants \ ToSet(Tail(read.left)))
      BY <1>3, <2>2, <3>1, Zenon DEF Reliable
    <3> QED BY <2>3, <2>6, <3>2
  <2>7. CASE ~older(type)
    <3>1. \A u \in Tenants \ ToSet(Tail(read.left)) : time <= Latest(backupLog[u], type)
      <4> SUFFICES ASSUME NEW u \in Tenants \ ToSet(Tail(read.left)) PROVE time <= Latest(backupLog[u], type)
        OBVIOUS
      <4>0. time \in Nat
        BY <2>1 DEF Reliable
      <4>1. CASE u = t
        BY <1>3, <2>2, <2>4, <2>5, <2>7, <4>0, <4>1
      <4>2. CASE u \in Tenants \ ToSet(read.left)
        BY <2>1, <4>2 DEF Reliable
      <4> QED BY <1>3, <4>1, <4>2
    <3>2. Reliable(tenant, time, type, Tenants \ ToSet(Tail(read.left)))
      BY <2>1, <3>1, Zenon DEF Reliable
    <3> QED BY <2>3, <2>7, <3>2
  <2> QED BY <2>6, <2>7
<1> QED BY <1>1, <1>2, <1>4 DEF read

(* A tenant has had its turn. *)
LEMMA TenantReported ==
    ASSUME BackupsInv, wlStep["hana"] \in {"successes", "commands"}, NEW fetched, FetchedOf(fetched),
           backupRead' = Reported(fetched), Closing(backupRead'), UNCHANGED backupLog
    PROVE  BackupsInv'
<1>1. /\ "left" \in DOMAIN backupRead' /\ "successes" \in DOMAIN backupRead'
      /\ "oldest" \in DOMAIN backupRead' /\ "tenant" \in DOMAIN backupRead'
      /\ backupRead'.left = Tail(backupRead.left)
      /\ OnceEach => \A type \in BackupTypes :
           Reliable(backupRead'.tenant[type], backupRead'.oldest[type], type, Tenants \ ToSet(backupRead'.left))
  BY OlderIsReliable
<1>2. backupRead'.left \in Seq(Tenants)
  BY <1>1, NextTenant, Zenon DEF BackupsInv, ReadingInv
<1>3. LogInv' /\ (OnceEach' <=> OnceEach)
  BY DEF BackupsInv, LogInv, AllLines, Clock, OnceEach
<1>4. StepInv /\ wlStep["hana"] # "" /\ wlStep["hana"] # "done"
  BY Zenon DEF BackupsInv
<1>5. CASE backupRead'.left # <<>>
  <2>1. wlStep' = [wlStep EXCEPT !["hana"] = "successes"] /\ section' = section
    BY <1>5, Zenon DEF Closing
  <2>2. DOMAIN wlStep' = Routines /\ wlStep'["hana"] = "successes" /\ wlStep'["collection"] = wlStep["collection"]
    BY <1>4, <2>1, SectionIsHANA DEF StepInv
  <2>3. StepInv'
    BY <1>4, <2>1, <2>2, Zenon DEF StepInv
  <2>4. (\A type \in BackupTypes : Reliable(backupRead.tenant[type], backupRead.oldest[type], type, Tenants \ ToSet(backupRead.left)))'
          <=> \A type \in BackupTypes : Reliable(backupRead'.tenant[type], backupRead'.oldest[type], type, Tenants \ ToSet(backupRead'.left))
    BY Zenon DEF Reliable
  <2>5. ReadingInv'
    BY <1>1, <1>2, <1>3, <1>5, <2>2, <2>4, Zenon DEF ReadingInv
  <2>6. ReportInv'
    BY <2>2, Zenon DEF ReportInv
  <2> QED BY <1>3, <2>3, <2>5, <2>6 DEF BackupsInv
<1>6. CASE backupRead'.left = <<>>
  <2> DEFINE new == [type \in BackupTypes |-> [tenant |-> backupRead'.tenant[type], time |-> backupRead'.oldest[type], known |-> TRUE]]
  <2>1. wlStep' = [wlStep EXCEPT !["hana"] = "done"] /\ Close("hana", 1, new)
    BY <1>6, Zenon DEF Closing
  <2>2. DOMAIN wlStep' = Routines /\ wlStep'["hana"] = "done" /\ wlStep'["collection"] = wlStep["collection"]
    BY <1>4, <2>1, SectionIsHANA DEF StepInv
  <2>3. \A type \in BackupTypes : new[type].tenant = backupRead'.tenant[type] /\ new[type].time = backupRead'.oldest[type]
    OBVIOUS
  <2>4. DOMAIN new = BackupTypes
    OBVIOUS
  <2> HIDE DEF new
  <2>5. /\ DOMAIN section' = ToSet(SectionNames) /\ section'["hana"].labels = WrittenOver(new, section["hana"].labels)
        /\ "value" \in DOMAIN section'["hana"] /\ "labels" \in DOMAIN section'["hana"]
    BY <1>4, <2>1, SectionIsHANA, SectionClosed
  <2>6. \A type \in BackupTypes : section'["hana"].labels[type] = new[type]
    BY <2>4, <2>5 DEF WrittenOver
  <2>7. StepInv'
    BY <1>4, <2>2, <2>5, Zenon DEF StepInv
  <2>8. Tenants \ ToSet(backupRead'.left) = Tenants
    BY <1>6 DEF ToSet
  <2>9. OnceEach => \A type \in BackupTypes :
          Reliable(section'["hana"].labels[type].tenant, section'["hana"].labels[type].time, type, Tenants)
    BY <1>1, <2>3, <2>6, <2>8, Zenon
  <2>10. (\A type \in BackupTypes : Reliable(section["hana"].labels[type].tenant, section["hana"].labels[type].time, type, Tenants))'
          <=> \A type \in BackupTypes : Reliable(section'["hana"].labels[type].tenant, section'["hana"].labels[type].time, type, Tenants)
    BY Zenon DEF Reliable
  <2>11. ReportInv'
    BY <1>3, <2>9, <2>10, Zenon DEF ReportInv
  <2>12. ReadingInv'
    BY <2>2, Zenon DEF ReadingInv
  <2> QED BY <1>3, <2>7, <2>11, <2>12 DEF BackupsInv
<1> QED BY <1>5, <1>6

(* A log that cannot be read, and a collection that cannot be begun, say nothing. *)
LEMMA NothingKnown ==
    ASSUME BackupsInv, UNCHANGED backupLog, DOMAIN wlStep' = Routines, wlStep'["hana"] = "done", wlStep["hana"] # "",
           wlStep'["collection"] = wlStep["collection"],
           NEW new, DOMAIN new = BackupTypes, \A type \in BackupTypes : ~new[type].known, Close("hana", 1, new)
    PROVE  BackupsInv'
<1>1. StepInv
  BY DEF BackupsInv
<1>2. /\ DOMAIN section' = ToSet(SectionNames) /\ section'["hana"].labels = WrittenOver(new, section["hana"].labels)
      /\ "value" \in DOMAIN section'["hana"] /\ "labels" \in DOMAIN section'["hana"]
  BY <1>1, SectionIsHANA, SectionClosed
<1>3. \A type \in BackupTypes : section'["hana"].labels[type] = new[type]
  BY <1>2 DEF WrittenOver
<1>4. ReportInv'
  BY <1>3, Zenon DEF ReportInv
<1>5. StepInv'
  BY <1>1, <1>2, Zenon DEF StepInv
<1>6. LogInv'
  BY DEF BackupsInv, LogInv, AllLines, Clock
<1>7. ReadingInv'
  BY Zenon DEF ReadingInv
<1> QED BY <1>4, <1>5, <1>6, <1>7 DEF BackupsInv

(* HANA's routine. *)
LEMMA HANAReports ==
    ASSUME BackupsInv, HANAStart \/ HANAVolumes \/ HANAZones \/ HANARole \/ HANARegions \/ HANATenants \/ HANASuccesses \/ HANACommands
    PROVE  BackupsInv'
<1>1. StepInv /\ UNCHANGED backupLog
  <2>1. StepInv
    BY DEF BackupsInv
  <2>2. UNCHANGED backupLog
    BY Zenon DEF HANAStart, HANAVolumes, HANAZones, HANARole, HANARegions, HANATenants, HANASuccesses, HANACommands, Rest, wlEnv
  <2> QED BY <2>1, <2>2
<1>2. ASSUME NEW absorb, NEW next, WlAt("hana", absorb, next), absorb # "", absorb # "done",
             next # "successes", next # "commands", section' = section \/ \E new : Label("hana", new)
      PROVE  BackupsInv'
  <2>1. /\ wlStep["hana"] = absorb /\ wlStep'["hana"] = next /\ DOMAIN wlStep' = Routines
        /\ wlStep'["collection"] = wlStep["collection"]
    <3>1. "collection" # "hana"
      OBVIOUS
    <3> QED BY <1>1, <1>2, <3>1, SectionIsHANA, RoutineSteps, Zenon
  <2>2. section["hana"].value # 1
    BY <1>1, <1>2, <2>1, Zenon DEF StepInv
  <2>3. /\ DOMAIN section' = ToSet(SectionNames) /\ section'["hana"].value = section["hana"].value
        /\ "value" \in DOMAIN section'["hana"] /\ "labels" \in DOMAIN section'["hana"]
    <3>1. CASE section' = section
      BY <1>1, <3>1, Zenon DEF StepInv
    <3>2. CASE \E new : Label("hana", new)
      BY <1>1, <3>2, SectionIsHANA, LabelsWritten
    <3> QED BY <1>2, <3>1, <3>2
  <2> QED BY <1>1, <1>2, <2>1, <2>2, <2>3, HANAOnTheWay, Zenon
<1>3. CASE HANAStart
  <2>1. \E next \in {"volumes", "done"} : WlAt("hana", "start", next)
    BY <1>3, Zenon DEF HANAStart
  <2>2. section' = section \/ \E new : Label("hana", new)
    BY <1>3, Zenon DEF HANAStart
  <2> QED BY <1>2, <2>1, <2>2, Zenon
<1>4. CASE HANAVolumes
  <2>1. WlAt("hana", "volumes", "zones") /\ \E new : Label("hana", new)
    BY <1>4, Zenon DEF HANAVolumes
  <2> QED BY <1>2, <2>1, Zenon
<1>5. CASE HANAZones
  <2>1. WlAt("hana", "zones", "role") /\ \E new : Label("hana", new)
    BY <1>5, Zenon DEF HANAZones
  <2> QED BY <1>2, <2>1, Zenon
<1>6. CASE HANARole
  <2>1. \E next \in {"regions", "tenants"} : WlAt("hana", "role", next)
    BY <1>6, Zenon DEF HANARole
  <2>2. section' = section \/ \E new : Label("hana", new)
    BY <1>6, Zenon DEF HANARole
  <2> QED BY <1>2, <2>1, <2>2, Zenon
<1>7. CASE HANARegions
  <2>1. WlAt("hana", "regions", "tenants") /\ \E new : Label("hana", new)
    BY <1>7, Zenon DEF HANARegions
  <2> QED BY <1>2, <2>1, Zenon
<1>8. CASE HANATenants
  <2>1. CASE /\ WlAt("hana", "tenants", "successes") /\ section' = section
             /\ backupRead' = [now |-> Clock + 1, left |-> SetToSeq(Tenants), successes |-> {},
                      oldest |-> [type \in BackupTypes |-> Clock + 1], tenant |-> [type \in BackupTypes |-> ""]]
    <3>1. /\ wlStep["hana"] = "tenants" /\ wlStep'["hana"] = "successes" /\ DOMAIN wlStep' = Routines
          /\ wlStep'["collection"] = wlStep["collection"]
      <4>1. "collection" # "hana"
        OBVIOUS
      <4> QED BY <1>1, <2>1, <4>1, SectionIsHANA, RoutineSteps, Zenon
    <3> DEFINE left == SetToSeq(Tenants)
               late == Clock + 1
    <3>2. /\ "left" \in DOMAIN backupRead' /\ "successes" \in DOMAIN backupRead'
          /\ "oldest" \in DOMAIN backupRead' /\ "tenant" \in DOMAIN backupRead' /\ backupRead'.left = left
          /\ \A type \in BackupTypes : backupRead'.oldest[type] = late /\ backupRead'.tenant[type] = ""
      BY <2>1
    <3>3. late \in Nat
      BY DEF BackupsInv, LogInv
    <3>4. left \in Seq(Tenants) /\ left # <<>> /\ Tenants \ ToSet(left) = {}
      BY TenantsInOrder
    <3> HIDE DEF left, late
    <3>5. \A type \in BackupTypes :
            Reliable(backupRead'.tenant[type], backupRead'.oldest[type], type, Tenants \ ToSet(backupRead'.left))
      BY <3>2, <3>3, <3>4, Zenon DEF Reliable
    <3>6. (\A type \in BackupTypes : Reliable(backupRead.tenant[type], backupRead.oldest[type], type, Tenants \ ToSet(backupRead.left)))'
            <=> \A type \in BackupTypes : Reliable(backupRead'.tenant[type], backupRead'.oldest[type], type, Tenants \ ToSet(backupRead'.left))
      BY <1>1, Zenon DEF Reliable
    <3>7. ReadingInv'
      BY <3>1, <3>2, <3>4, <3>5, <3>6, Zenon DEF ReadingInv
    <3>8. LogInv'
      BY <1>1 DEF BackupsInv, LogInv, AllLines, Clock
    <3>9. StepInv'
      BY <1>1, <2>1, <3>1, Zenon DEF StepInv
    <3>10. ReportInv'
      BY <3>1, Zenon DEF ReportInv
    <3> QED BY <3>7, <3>8, <3>9, <3>10 DEF BackupsInv
  <2>2. CASE /\ WlAt("hana", "tenants", "done")
             /\ Close("hana", 1, [type \in BackupTypes |-> [tenant |-> "", time |-> 0, known |-> FALSE]])
    <3>1. /\ wlStep["hana"] = "tenants" /\ wlStep'["hana"] = "done" /\ DOMAIN wlStep' = Routines
          /\ wlStep'["collection"] = wlStep["collection"]
      <4>1. "collection" # "hana"
        OBVIOUS
      <4> QED BY <1>1, <2>2, <4>1, SectionIsHANA, RoutineSteps, Zenon
    <3> DEFINE new == [type \in BackupTypes |-> [tenant |-> "", time |-> 0, known |-> FALSE]]
    <3>2. DOMAIN new = BackupTypes /\ \A type \in BackupTypes : ~new[type].known
      OBVIOUS
    <3>3. Close("hana", 1, new)
      BY <2>2
    <3> HIDE DEF new
    <3> QED BY <1>1, <3>1, <3>2, <3>3, NothingKnown, Zenon
  <2> QED BY <1>8, <2>1, <2>2, Zenon DEF HANATenants
<1>9. ASSUME Unread, wlStep["hana"] \in {"successes", "commands"} PROVE BackupsInv'
  <2> DEFINE new == [type \in BackupTypes |-> [tenant |-> Head(backupRead.left), time |-> 0, known |-> FALSE]]
  <2>1. wlStep' = [wlStep EXCEPT !["hana"] = "done"] /\ Close("hana", 1, new)
    BY <1>9, Zenon DEF Unread
  <2>2. DOMAIN new = BackupTypes /\ \A type \in BackupTypes : ~new[type].known
    OBVIOUS
  <2> HIDE DEF new
  <2>3. DOMAIN wlStep' = Routines /\ wlStep'["hana"] = "done" /\ wlStep'["collection"] = wlStep["collection"]
    BY <1>1, <2>1, SectionIsHANA DEF StepInv
  <2>4. wlStep["hana"] # ""
    BY <1>9
  <2> QED BY <1>1, <2>1, <2>2, <2>3, <2>4, NothingKnown, Zenon
<1>10. CASE HANASuccesses
  <2> DEFINE l == backupLog[Head(backupRead.left)]
             successes == Lines(l, "finished")
  <2>1. wlStep["hana"] = "successes"
    BY <1>10 DEF HANASuccesses
  <2>2. \/ /\ successes = {}
           /\ backupRead' = Reported([type \in BackupTypes |-> 0]) /\ Closing(backupRead')
        \/ /\ successes # {}
           /\ backupRead' = [backupRead EXCEPT !.successes = successes]
           /\ wlStep' = [wlStep EXCEPT !["hana"] = "commands"] /\ UNCHANGED section
        \/ Unread
    BY <1>10, Zenon DEF HANASuccesses
  <2>3. /\ "left" \in DOMAIN backupRead /\ "successes" \in DOMAIN backupRead
        /\ "oldest" \in DOMAIN backupRead /\ "tenant" \in DOMAIN backupRead
        /\ backupRead.left \in Seq(Tenants) /\ backupRead.left # <<>>
    BY <2>1, Zenon DEF BackupsInv, ReadingInv
  <2>4. CASE backupRead' = Reported([type \in BackupTypes |-> 0]) /\ Closing(backupRead')
    <3> DEFINE none == [type \in BackupTypes |-> 0]
    <3>1. Head(backupRead.left) \in Tenants
      BY <2>3, NextTenant
    <3>2. WellLogged(l, Clock) /\ Keeps(l, l) /\ Clock \in Nat
      BY <3>1 DEF BackupsInv, LogInv, Keeps
    <3> HIDE DEF l
    <3>3. \A type \in BackupTypes : none[type] \in Nat /\ none[type] <= Latest(l, type) /\ ~(none[type] > 0)
      <4>1. \A type : Latest(l, type) \in Nat
        BY <3>2, LatestGrows
      <4> QED BY <4>1
    <3> HIDE DEF none
    <3>4. FetchedOf(none)
      BY <3>3, Zenon DEF FetchedOf, l
    <3>5. backupRead' = Reported(none) /\ wlStep["hana"] \in {"successes", "commands"}
      BY <2>1, <2>4 DEF none
    <3> QED BY <1>1, <2>4, <3>4, <3>5, TenantReported
  <2>5. CASE /\ backupRead' = [backupRead EXCEPT !.successes = successes]
             /\ wlStep' = [wlStep EXCEPT !["hana"] = "commands"] /\ UNCHANGED section
    <3>1. DOMAIN wlStep' = Routines /\ wlStep'["hana"] = "commands" /\ wlStep'["collection"] = wlStep["collection"]
      BY <1>1, <2>5, SectionIsHANA DEF StepInv
    <3>2. /\ DOMAIN backupRead' = DOMAIN backupRead /\ backupRead'.successes = Lines(l, "finished")
          /\ backupRead'.left = backupRead.left /\ backupRead'.oldest = backupRead.oldest /\ backupRead'.tenant = backupRead.tenant
      BY <2>3, <2>5
    <3>3. OnceEach' <=> OnceEach
      BY <1>1 DEF OnceEach
    <3>4. OnceEach => \A type \in BackupTypes :
              Reliable(backupRead.tenant[type], backupRead.oldest[type], type, Tenants \ ToSet(backupRead.left))
      BY <2>1, Zenon DEF BackupsInv, ReadingInv
    <3>5. (\A type \in BackupTypes : Reliable(backupRead.tenant[type], backupRead.oldest[type], type, Tenants \ ToSet(backupRead.left)))'
            <=> \A type \in BackupTypes : Reliable(backupRead.tenant[type], backupRead.oldest[type], type, Tenants \ ToSet(backupRead.left))
      <4>1. (\A type \in BackupTypes : Reliable(backupRead.tenant[type], backupRead.oldest[type], type, Tenants \ ToSet(backupRead.left)))'
              <=> \A type \in BackupTypes : Reliable(backupRead'.tenant[type], backupRead'.oldest[type], type, Tenants \ ToSet(backupRead'.left))
        BY <1>1, Zenon DEF Reliable
      <4> QED BY <3>2, <4>1, Zenon
    <3>6. backupRead'.successes \subseteq Lines(backupLog'[Head(backupRead'.left)], "finished")
      <4>1. backupRead'.successes = Lines(backupLog'[Head(backupRead'.left)], "finished")
        BY <1>1, <3>2, Zenon
      <4> QED BY <4>1
    <3>7. ReadingInv'
      BY <2>3, <3>2, <3>3, <3>4, <3>5, <3>6, Zenon DEF ReadingInv
    <3>8. LogInv'
      BY <1>1 DEF BackupsInv, LogInv, AllLines, Clock
    <3>9. StepInv'
      BY <1>1, <2>1, <2>5, <3>1, Zenon DEF StepInv
    <3>10. ReportInv'
      BY <3>1, Zenon DEF ReportInv
    <3> QED BY <3>7, <3>8, <3>9, <3>10 DEF BackupsInv
  <2> QED BY <1>9, <2>1, <2>2, <2>4, <2>5
<1>11. CASE HANACommands
  <2> DEFINE l == backupLog[Head(backupRead.left)]
             fetched == [type \in BackupTypes |-> Fetched(backupRead.successes, l, type)]
  <2>1. wlStep["hana"] = "commands"
    BY <1>11 DEF HANACommands
  <2>2. (backupRead' = Reported(fetched) /\ Closing(backupRead')) \/ Unread
    BY <1>11, Zenon DEF HANACommands
  <2>3. /\ backupRead.left \in Seq(Tenants) /\ backupRead.left # <<>>
        /\ backupRead.successes \subseteq Lines(l, "finished")
    BY <2>1, Zenon DEF BackupsInv, ReadingInv
  <2>4. CASE backupRead' = Reported(fetched) /\ Closing(backupRead')
    <3>1. Head(backupRead.left) \in Tenants
      BY <2>3, NextTenant
    <3>2. WellLogged(l, Clock) /\ Clock \in Nat /\ Clock < Infinite
      BY <3>1 DEF BackupsInv, LogInv
    <3>3. OnceEach => Once(l)
      BY <3>1 DEF OnceEach
    <3> DEFINE successes == backupRead.successes
    <3>4. successes \subseteq Lines(l, "finished")
      BY <2>3
    <3>5. \A type \in BackupTypes : fetched[type] = Fetched(successes, l, type)
      OBVIOUS
    <3> HIDE DEF l, fetched, successes
    <3>6. OnceEach => \A type : /\ Fetched(successes, l, type) \in Nat /\ Fetched(successes, l, type) <= Latest(l, type)
                                /\ Fetched(successes, l, type) > 0 => \E x \in Lines(l, "finished") :
                                     x.time = Fetched(successes, l, type) /\ TypeOf(l, x.thread, x.time) = type
      BY <3>2, <3>3, <3>4, FetchedIsASuccess
    <3>7. FetchedOf(fetched)
      BY <3>5, <3>6, Zenon DEF FetchedOf, l
    <3>8. wlStep["hana"] \in {"successes", "commands"}
      BY <2>1
    <3> QED BY <1>1, <2>4, <3>7, <3>8, TenantReported
  <2> QED BY <1>9, <2>1, <2>2, <2>4
<1> QED BY <1>3, <1>4, <1>5, <1>6, <1>7, <1>8, <1>10, <1>11

--------------------------------------------------------------------------------
(* Another section is written. *)
LEMMA OtherSections ==
    ASSUME BackupsInv, UNCHANGED <<backupLog, backupRead>>, NEW r \in Routines \ {"hana", "collection"}, NEW next,
           wlStep' = [wlStep EXCEPT ![r] = next], DOMAIN section' = ToSet(SectionNames), section'["hana"] = section["hana"]
    PROVE  BackupsInv'
<1>1. wlStep'["hana"] = wlStep["hana"] /\ wlStep'["collection"] = wlStep["collection"] /\ DOMAIN wlStep' = Routines
  BY SectionIsHANA DEF BackupsInv, StepInv
<1>2. wlStep'["collection"] = "idle" => wlStep["collection"] = "idle"
  BY <1>1, Zenon
<1> QED BY <1>1, <1>2, HANAUntouched

LEMMA BackupsBegin == SectionsInit => BackupsInv
<1> SUFFICES ASSUME SectionsInit PROVE BackupsInv
  OBVIOUS
<1>1. /\ backupLog = FirstLog /\ wlStep = [r \in Routines |-> IF r = "collection" THEN "idle" ELSE ""]
      /\ section = [s \in ToSet(SectionNames) |-> NoSection]
  BY DEF SectionsInit
<1>2. wlStep["hana"] = "" /\ wlStep["collection"] = "idle" /\ DOMAIN wlStep = Routines
  BY <1>1, SectionIsHANA
<1>3. DOMAIN section = ToSet(SectionNames) /\ section["hana"] = NoSection
  BY <1>1, SectionIsHANA
<1>4. \A t \in Tenants : IsFiniteSet(ToSet(FirstLog[t]))
  <2> TAKE t \in Tenants
  <2>1. FirstLog[t] \in Seq(ToSet(FirstLog[t]))
    BY FirstLogAssumption
  <2>2. IsFiniteSet(1..Len(FirstLog[t]))
    BY <2>1, FS_Interval
  <2> DEFINE l == FirstLog[t]
  <2>3. l \in Surjection(1..Len(l), ToSet(l))
    BY <2>1 DEF ToSet, Surjection
  <2> QED BY <2>2, <2>3, FS_Surjection
<1>5. IsFiniteSet(AllLines)
  <2>1. IsFiniteSet({ToSet(FirstLog[t]) : t \in Tenants})
    <3> DEFINE lines == [t \in Tenants |-> ToSet(FirstLog[t])]
    <3>1. lines \in Surjection(Tenants, {ToSet(FirstLog[t]) : t \in Tenants})
      BY DEF Surjection
    <3> HIDE DEF lines
    <3> QED BY <3>1, FS_Surjection, SectionsAssumption
  <2>2. \A X \in {ToSet(FirstLog[t]) : t \in Tenants} : IsFiniteSet(X)
    BY <1>4
  <2>3. IsFiniteSet(UNION {ToSet(FirstLog[t]) : t \in Tenants})
    BY <2>1, <2>2, FS_UNION
  <2> QED BY <1>1, <2>3 DEF AllLines
<1>6. Clock = Cardinality(AllLines) /\ Clock \in Nat /\ Clock <= MaxBackupLines /\ Clock < Infinite
  <2>1. Clock = Cardinality(AllLines)
    BY DEF Clock, AllLines
  <2>2. Clock \in Nat
    BY <1>5, <2>1, FS_CardinalityType
  <2>3. Clock <= MaxBackupLines /\ MaxBackupLines \in Nat
    BY <1>1, FirstLogAssumption DEF Clock
  <2> QED BY <2>1, <2>2, <2>3 DEF Infinite
<1>7. ASSUME NEW t \in Tenants PROVE WellLogged(backupLog[t], Clock)
  <2>1. /\ FirstLog[t] \in Seq(ToSet(FirstLog[t])) /\ \A x \in ToSet(FirstLog[t]) : x.time \in 1..Clock
        /\ \A x \in Lines(FirstLog[t], "finished") :
             \E c \in Lines(FirstLog[t], "command") : c.thread = x.thread /\ c.time < x.time
    BY <1>1, FirstLogAssumption DEF Clock
  <2>2. Len(FirstLog[t]) \in Nat /\ FirstLog[t] = [i \in 1..Len(FirstLog[t]) |-> FirstLog[t][i]]
    BY <2>1
  <2> QED BY <1>1, <2>1, <2>2, Zenon DEF WellLogged
<1>8. LogInv
  BY <1>1, <1>5, <1>6, <1>7, FirstLogAssumption DEF LogInv
<1>9. StepInv
  <2>1. "value" \in DOMAIN NoSection /\ "labels" \in DOMAIN NoSection /\ NoSection.value # 1
    BY DEF NoSection
  <2> QED BY <1>2, <1>3, <2>1, Zenon DEF StepInv
<1>10. ReadingInv /\ ReportInv
  BY <1>2, Zenon DEF ReadingInv, ReportInv
<1> QED BY <1>8, <1>9, <1>10 DEF BackupsInv

(* A backup begins or succeeds. *)
LEMMA BackupsGoOn ==
    ASSUME BackupsInv, NEW t \in Tenants, HANABackup(t)
    PROVE  BackupsInv'
<1>1. UNCHANGED <<wlStep, section, backupRead>> /\ Clock < MaxBackupLines
  BY DEF HANABackup
<1>2. PICK x : LogGrows(t, x)
  BY BackupIsLogged DEF BackupsInv
<1>3. LogInv' /\ \A u \in Tenants : WellLogged(backupLog'[u], Clock + 1) /\ Keeps(backupLog[u], backupLog'[u])
  BY <1>1, <1>2, LogKept DEF BackupsInv
<1>4. Clock + 1 \in Nat
  BY DEF BackupsInv, LogInv
<1>5. OnceEach' => OnceEach
  BY <1>3, OnceBefore
<1>6. StepInv'
  BY <1>1, Zenon DEF BackupsInv, StepInv
<1>7. ReadingInv'
  <2>1. ASSUME wlStep["hana"] \in {"successes", "commands"}
        PROVE  /\ "left" \in DOMAIN backupRead /\ "successes" \in DOMAIN backupRead
               /\ "oldest" \in DOMAIN backupRead /\ "tenant" \in DOMAIN backupRead
               /\ backupRead.left \in Seq(Tenants) /\ backupRead.left # <<>>
    BY <2>1, Zenon DEF BackupsInv, ReadingInv
  <2>2. ASSUME wlStep["hana"] \in {"successes", "commands"}, OnceEach', NEW type \in BackupTypes
        PROVE  Reliable(backupRead.tenant[type], backupRead.oldest[type], type, Tenants \ ToSet(backupRead.left))'
    <3>1. Reliable(backupRead.tenant[type], backupRead.oldest[type], type, Tenants \ ToSet(backupRead.left))
      BY <1>5, <2>2, Zenon DEF BackupsInv, ReadingInv
    <3> DEFINE who == backupRead.tenant[type]
               time == backupRead.oldest[type]
               had == Tenants \ ToSet(backupRead.left)
    <3>2. had \in SUBSET Tenants /\ who' = who /\ time' = time /\ had' = had
      BY <1>1
    <3>3. \A w, m, T : T \in SUBSET Tenants /\ Reliable(w, m, type, T) => Reliable(w, m, type, T)'
      BY <1>3, <1>4, ReliableKept
    <3>4. Reliable(who, time, type, had)
      BY <3>1
    <3> HIDE DEF who, time, had
    <3>5. \A w, m, T : w = who' /\ m = time' /\ T = had' /\ Reliable(w, m, type, T)' => Reliable(who, time, type, had)'
      BY Zenon DEF Reliable
    <3>6. Reliable(who, time, type, had)'
      BY <3>2, <3>3, <3>4, <3>5, Zenon
    <3> QED BY <3>6 DEF who, time, had
  <2>3. ASSUME wlStep["hana"] = "commands"
        PROVE  backupRead.successes \subseteq Lines(backupLog'[Head(backupRead.left)], "finished")
    <3>1. backupRead.successes \subseteq Lines(backupLog[Head(backupRead.left)], "finished")
      BY <2>3, Zenon DEF BackupsInv, ReadingInv
    <3>2. Head(backupRead.left) \in Tenants
      BY <2>1, <2>3, NextTenant
    <3>3. Keeps(backupLog[Head(backupRead.left)], backupLog'[Head(backupRead.left)])
      BY <1>3, <3>2
    <3> QED BY <3>1, <3>3 DEF Keeps
  <2> QED BY <1>1, <2>1, <2>2, <2>3, Zenon DEF ReadingInv
<1>8. ReportInv'
  <2> SUFFICES ASSUME wlStep["hana"] = "done", section["hana"].value = 1, OnceEach', NEW type \in BackupTypes,
                      section["hana"].labels[type].known
               PROVE  Reliable(section["hana"].labels[type].tenant, section["hana"].labels[type].time, type, Tenants)'
    BY <1>1, Zenon DEF ReportInv
  <2> DEFINE d == section["hana"].labels[type]
  <2>1. Reliable(d.tenant, d.time, type, Tenants)
    BY <1>5 DEF BackupsInv, ReportInv
  <2>2. d' = d
    BY <1>1
  <2> DEFINE who == d.tenant
             time == d.time
  <2>3. who' = who /\ time' = time
    BY <2>2
  <2>4. \A w, m, T : T \in SUBSET Tenants /\ Reliable(w, m, type, T) => Reliable(w, m, type, T)'
    BY <1>3, <1>4, ReliableKept
  <2>5. Reliable(who, time, type, Tenants)
    BY <2>1
  <2> HIDE DEF d, who, time
  <2>6. \A w, m : w = who' /\ m = time' /\ Reliable(w, m, type, Tenants)' => Reliable(who, time, type, Tenants)'
    BY Zenon DEF Reliable
  <2>7. Tenants \in SUBSET Tenants
    OBVIOUS
  <2>8. Reliable(who, time, type, Tenants)'
    BY <2>3, <2>4, <2>5, <2>6, <2>7, Zenon
  <2> QED BY <2>8 DEF who, time, d
<1> QED BY <1>3, <1>6, <1>7, <1>8 DEF BackupsInv

(* The collection begins, and ends. *)
LEMMA CollectionSteps ==
    ASSUME BackupsInv, CollectMetrics \/ SendRequest
    PROVE  BackupsInv'
<1>1. UNCHANGED <<backupLog, backupRead, section>>
  BY DEF CollectMetrics, SendRequest, wlEnv
<1>2. DOMAIN section' = ToSet(SectionNames) /\ section'["hana"] = section["hana"]
  BY <1>1 DEF BackupsInv, StepInv
<1>3. ASSUME NEW next, next # "idle", wlStep' = [wlStep EXCEPT !["collection"] = next] PROVE BackupsInv'
  <2>1. DOMAIN wlStep' = Routines /\ wlStep'["hana"] = wlStep["hana"] /\ wlStep'["collection"] # "idle"
    BY <1>3, SectionIsHANA DEF BackupsInv, StepInv
  <2> QED BY <1>1, <1>2, <2>1, HANAUntouched
<1>4. CASE wlStep' = [wlStep EXCEPT !["collection"] = "sent"]
  BY <1>3, <1>4
<1>5. CASE /\ wlStep["collection"] = "idle"
           /\ wlStep' = [r \in Routines |-> CASE r = "collection" -> "waiting" [] r = "corosync" -> "pacemaker" [] OTHER -> "start"]
  <2>1. wlStep["hana"] = "" /\ section["hana"].value # 1
    BY <1>5, Zenon DEF BackupsInv, StepInv
  <2>2. DOMAIN wlStep' = Routines /\ wlStep'["hana"] = "start" /\ wlStep'["collection"] = "waiting"
    BY <1>5, SectionIsHANA
  <2>3. StepInv'
    BY <1>1, <2>1, <2>2, Zenon DEF BackupsInv, StepInv
  <2>4. LogInv'
    BY <1>1 DEF BackupsInv, LogInv, AllLines, Clock
  <2>5. ReadingInv' /\ ReportInv'
    BY <2>2, Zenon DEF ReadingInv, ReportInv
  <2> QED BY <2>3, <2>4, <2>5 DEF BackupsInv
<1> QED BY <1>4, <1>5, Zenon DEF CollectMetrics, SendRequest, WlAt

(* The sections of the other routines. *)
LEMMA OtherRoutines ==
    ASSUME BackupsInv, SystemRoles \/ SystemZones \/ NetweaverSection \/ CustomSection \/ CorosyncSection
    PROVE  BackupsInv'
<1>1. UNCHANGED <<backupLog, backupRead>>
  BY DEF SystemRoles, SystemZones, NetweaverSection, CustomSection, CorosyncSection, Rest, wlEnv
<1>2. /\ {"system", "netweaver", "custom", "corosync"} \subseteq Routines \ {"hana", "collection"}
      /\ {"system", "netweaver", "custom", "corosync", "pacemaker"} \subseteq ToSet(SectionNames) \ {"hana"}
      /\ "hana" \in ToSet(SectionNames)
  BY DEF Routines, SectionNames, ToSet
<1>3. ASSUME NEW s \in ToSet(SectionNames) \ {"hana"}, (\E new : Label(s, new)) \/ (\E value, new : Close(s, value, new))
      PROVE  DOMAIN section' = ToSet(SectionNames) /\ section'["hana"] = section["hana"]
  BY <1>2, <1>3, LabelsWritten, SectionClosed DEF BackupsInv
<1>4. ASSUME NEW r \in {"system", "netweaver", "custom"}, \E absorb, next : WlAt(r, absorb, next),
             (\E new : Label(r, new)) \/ (\E value, new : Close(r, value, new))
      PROVE  BackupsInv'
  <2>1. PICK next : wlStep' = [wlStep EXCEPT ![r] = next]
    BY <1>4, Zenon DEF WlAt
  <2> QED BY <1>1, <1>2, <1>3, <1>4, <2>1, OtherSections
<1>5. CASE SystemRoles
  BY <1>4, <1>5, Zenon DEF SystemRoles
<1>6. CASE SystemZones
  BY <1>4, <1>6, Zenon DEF SystemZones
<1>7. CASE NetweaverSection
  BY <1>4, <1>7, Zenon DEF NetweaverSection
<1>8. CASE CustomSection
  BY <1>4, <1>8, Zenon DEF CustomSection
<1>9. CASE CorosyncSection
  <2>1. wlStep' = [wlStep EXCEPT !["corosync"] = "done"]
    BY <1>9, Zenon DEF CorosyncSection, WlAt
  <2>2. \E p, c : section' = [section EXCEPT !["pacemaker"] = p, !["corosync"] = c]
    BY <1>9, Zenon DEF CorosyncSection
  <2>3. DOMAIN section' = ToSet(SectionNames) /\ section'["hana"] = section["hana"]
    BY <1>2, <2>2 DEF BackupsInv, StepInv
  <2> QED BY <1>1, <1>2, <2>1, <2>3, OtherSections
<1> QED BY <1>5, <1>6, <1>7, <1>8, <1>9

--------------------------------------------------------------------------------
(* WorkloadSections: the volumes and the vms that are reported. *)
VolumeIsTrue(mount, d) ==
    d.mount # "" => \E i \in DOMAIN BlockDevices :
                      /\ BlockDevices[i].name = d.device /\ BlockDevices[i].size = d.pdsize
                      /\ [mount |-> mount, size |-> d.size] \in ToSet(Children(BlockDevices[i]))
HostsAreTrue(vms) ==
    \A vm \in vms : vm # Here /\ \E l \in Landscapes : \E i \in DOMAIN l.systems :
       {vm, Here} \subseteq {h.vm : h \in l.systems[i].haHosts}
BelongInv ==
    /\ landscape \in Landscapes
    /\ \A v \in DOMAIN Volumes \cap DOMAIN section["hana"].labels : VolumeIsTrue(Volumes[v], section["hana"].labels[v])
    /\ "ha_in_same_zone" \in DOMAIN section["hana"].labels => HostsAreTrue(section["hana"].labels["ha_in_same_zone"])

(* What is kept is of the sequence and of the set. *)
LEMMA KeptAreIn ==
    ASSUME NEW R, NEW s \in Seq(R), NEW S, NEW q, q = Kept(s, S)
    PROVE  q \in Seq(R) /\ \A k \in 1..Len(q) : q[k] \in S /\ \E i \in 1..Len(s) : s[i] = q[k]
BY KeptElements

(* The first device that has the mount point has a child there. *)
LEMMA ChildIsThere ==
    ASSUME NEW mount, MountedAt(mount) # <<>>
    PROVE  \E i \in DOMAIN BlockDevices :
             /\ MountedAt(mount)[1] = BlockDevices[i]
             /\ [mount |-> mount, size |-> ChildrenAt(MountedAt(mount)[1], mount)[1].size] \in ToSet(Children(BlockDevices[i]))
<1> DEFINE ds == MountedAt(mount)
           S == {d \in ToSet(BlockDevices) : ChildrenAt(d, mount) # <<>>}
<1>1. BlockDevices \in Seq(Device) /\ ds = Kept(BlockDevices, S)
  BY SectionsAssumption DEF MountedAt
<1> HIDE DEF ds, S
<1>2. ds \in Seq(Device) /\ \A k \in 1..Len(ds) : ds[k] \in S /\ \E i \in 1..Len(BlockDevices) : BlockDevices[i] = ds[k]
  BY <1>1, KeptAreIn
<1>3. 1 \in 1..Len(ds)
  BY <1>2 DEF ds
<1>4. PICK i \in 1..Len(BlockDevices) : BlockDevices[i] = ds[1]
  BY <1>2, <1>3, Zenon
<1> DEFINE d == BlockDevices[i]
           R == [mount : STRING, size : STRING]
           C == {c \in ToSet(Children(d)) : c.mount = mount}
<1>5. d \in Device /\ ChildrenAt(d, mount) # <<>> /\ i \in DOMAIN BlockDevices
  BY <1>1, <1>2, <1>3, <1>4 DEF S
<1>6. Children(d) \in Seq(R)
  <2>1. d.children \in Seq(R) /\ d.mount \in STRING /\ d.size \in STRING
    BY <1>5 DEF Device
  <2>2. <<[mount |-> d.mount, size |-> d.size]>> \in Seq(R)
    BY <2>1
  <2> QED BY <2>1, <2>2, Zenon DEF Children
<1>7. ChildrenAt(d, mount) = Kept(Children(d), C)
  BY DEF ChildrenAt
<1> HIDE DEF d, C
<1>8. /\ ChildrenAt(d, mount) \in Seq(R)
      /\ \A k \in 1..Len(ChildrenAt(d, mount)) : ChildrenAt(d, mount)[k] \in C
  <2> DEFINE q == ChildrenAt(d, mount)
             all == Children(d)
  <2>1. all \in Seq(R) /\ q = Kept(all, C)
    BY <1>6, <1>7
  <2> HIDE DEF q, all, R
  <2>2. q \in Seq(R) /\ \A k \in 1..Len(q) : q[k] \in C
    BY <2>1, KeptAreIn
  <2> QED BY <2>2 DEF q
<1>9. 1 \in 1..Len(ChildrenAt(d, mount))
  BY <1>5, <1>8
<1> DEFINE c == ChildrenAt(d, mount)[1]
<1>10. c \in C
  BY <1>8, <1>9, Zenon
<1>11. ToSet(Children(d)) \subseteq R
  <2>1. \A Q, q : q \in Seq(Q) => ToSet(q) \subseteq Q
    BY DEF ToSet
  <2> QED BY <1>6, <2>1, Zenon
<1>12. c \in ToSet(Children(d)) /\ c \in R /\ c.mount = mount
  BY <1>10, <1>11 DEF C
<1> HIDE DEF c
<1>13. c = [mount |-> mount, size |-> c.size]
  BY <1>12
<1>14. MountedAt(mount)[1] = d
  BY <1>4, Zenon DEF d, ds
<1>15. [mount |-> mount, size |-> ChildrenAt(d, mount)[1].size] \in ToSet(Children(d))
  BY <1>12, <1>13 DEF c
<1> QED BY <1>5, <1>14, <1>15, Zenon DEF d

LEMMA VolumesAreTrue ==
    ASSUME NEW mount
    PROVE  VolumeIsTrue(mount, DiskInfo(mount)) /\ DiskInfo("").mount = ""
<1>1. DiskInfo("").mount = ""
  BY DEF DiskInfo
<1>2. CASE mount = "" \/ MountedAt(mount) = <<>> \/ MountedAt(mount)[1].disk = ""
  <2>1. DiskInfo(mount).mount = ""
    BY <1>2 DEF DiskInfo
  <2> QED BY <1>1, <2>1, Zenon DEF VolumeIsTrue
<1>3. CASE MountedAt(mount) # <<>> /\ ~(mount = "" \/ MountedAt(mount) = <<>> \/ MountedAt(mount)[1].disk = "")
  <2> DEFINE d == MountedAt(mount)[1]
             size == ChildrenAt(d, mount)[1].size
  <2>1. DiskInfo(mount) = [type |-> d.disk, mount |-> mount, size |-> size, pdsize |-> d.size, device |-> d.name]
    BY <1>3, Zenon DEF DiskInfo
  <2>2. \E i \in DOMAIN BlockDevices : d = BlockDevices[i] /\ [mount |-> mount, size |-> size] \in ToSet(Children(BlockDevices[i]))
    BY <1>3, ChildIsThere, Zenon
  <2> HIDE DEF d, size
  <2>3. DiskInfo(mount).device = d.name /\ DiskInfo(mount).pdsize = d.size /\ DiskInfo(mount).size = size
    BY <2>1
  <2> QED BY <1>1, <2>2, <2>3, Zenon DEF VolumeIsTrue
<1> QED BY <1>2, <1>3

LEMMA HostsOfAnHASystem ==
    ASSUME landscape \in Landscapes
    PROVE  HostsAreTrue(CheckHAZones)
<1> DEFINE S == {s \in KnownSystems : (\E h \in s.haHosts : h.vm = Here) /\ SameZone(s) # {}}
           systems == landscape.systems
           ours == Kept(systems, S)
<1>1. systems \in Seq(ToSet(systems))
  BY SectionsAssumption
<1>2. CheckHAZones = IF ours = <<>> THEN {} ELSE SameZone(ours[1])
  BY DEF CheckHAZones
<1> HIDE DEF S, systems
<1>3. /\ ours \in Seq(ToSet(systems))
      /\ \A k \in 1..Len(ours) : ours[k] \in S /\ \E i \in 1..Len(systems) : systems[i] = ours[k]
  BY <1>1, KeptAreIn
<1> HIDE DEF ours
<1>4. SUFFICES ASSUME NEW vm \in CheckHAZones
               PROVE  vm # Here /\ \E l \in Landscapes : \E i \in DOMAIN l.systems :
                        {vm, Here} \subseteq {h.vm : h \in l.systems[i].haHosts}
  BY Zenon DEF HostsAreTrue
<1>5. ours # <<>> /\ vm \in SameZone(ours[1])
  BY <1>2, <1>4, Zenon
<1>6. 1 \in 1..Len(ours)
  BY <1>3, <1>5
<1>7. PICK i \in 1..Len(systems) : systems[i] = ours[1]
  BY <1>3, <1>6, Zenon
<1>8. ours[1] \in S /\ i \in DOMAIN systems
  BY <1>1, <1>3, <1>6
<1>9. \E h \in ours[1].haHosts : h.vm = Here
  BY <1>8, Zenon DEF S
<1>10. vm # Here /\ \E h \in ours[1].haHosts : h.vm = vm
  BY <1>5, Zenon DEF SameZone
<1>11. {vm, Here} \subseteq {h.vm : h \in systems[i].haHosts}
  BY <1>7, <1>9, <1>10
<1> QED BY <1>8, <1>10, <1>11, Zenon DEF systems

(* The labels that are written over others are true. *)
LEMMA TrueLabels ==
    ASSUME BelongInv, landscape' \in Landscapes, NEW new,
           section'["hana"].labels = section["hana"].labels \/ section'["hana"].labels = WrittenOver(new, section["hana"].labels),
           \A v \in DOMAIN Volumes \cap DOMAIN new : VolumeIsTrue(Volumes[v], new[v]),
           "ha_in_same_zone" \in DOMAIN new => HostsAreTrue(new["ha_in_same_zone"])
    PROVE  BelongInv'
<1> DEFINE old == section["hana"].labels
           now == section'["hana"].labels
<1>1. \A k \in DOMAIN now : (k \in DOMAIN old /\ now[k] = old[k]) \/ (k \in DOMAIN new /\ now[k] = new[k])
  BY DEF WrittenOver
<1>2. ASSUME NEW v \in DOMAIN Volumes \cap DOMAIN now PROVE VolumeIsTrue(Volumes[v], now[v])
  <2>1. CASE v \in DOMAIN old /\ now[v] = old[v]
    <3>1. VolumeIsTrue(Volumes[v], old[v])
      BY <1>2, <2>1 DEF BelongInv
    <3> QED BY <2>1, <3>1, Zenon
  <2>2. CASE v \in DOMAIN new /\ now[v] = new[v]
    <3>1. VolumeIsTrue(Volumes[v], new[v])
      BY <1>2, <2>2
    <3> QED BY <2>2, <3>1, Zenon
  <2> QED BY <1>1, <1>2, <2>1, <2>2
<1>3. "ha_in_same_zone" \in DOMAIN now => HostsAreTrue(now["ha_in_same_zone"])
  BY <1>1, Zenon DEF BelongInv
<1> HIDE DEF old, now
<1>4. \A v \in DOMAIN Volumes \cap DOMAIN now : VolumeIsTrue(Volumes[v], now[v])
  BY <1>2
<1> QED BY <1>3, <1>4, Zenon DEF BelongInv, VolumeIsTrue, HostsAreTrue, old, now

(* Labels that are neither of volumes nor of vms. *)
LEMMA LabelsElsewhere ==
    ASSUME NEW new, DOMAIN new = BackupTypes \/ DOMAIN new \subseteq {"ini", "dr_in_same_region"}
    PROVE  /\ \A v \in DOMAIN Volumes \cap DOMAIN new : VolumeIsTrue(Volumes[v], new[v])
           /\ "ha_in_same_zone" \in DOMAIN new => HostsAreTrue(new["ha_in_same_zone"])
<1>1. DOMAIN Volumes \cap DOMAIN new = {} /\ "ha_in_same_zone" \notin DOMAIN new
  BY SectionsAssumption DEF HANALabelNames
<1> QED BY <1>1

(* HANA's routine writes the labels. *)
LEMMA HANALabels ==
    ASSUME StepInv, BelongInv, landscape' = landscape,
           HANAStart \/ HANAVolumes \/ HANAZones \/ HANARole \/ HANARegions \/ HANATenants \/ HANASuccesses \/ HANACommands
    PROVE  BelongInv'
<1>1. landscape' \in Landscapes
  BY DEF BelongInv
<1>2. ASSUME NEW new, Label("hana", new) \/ (\E value : Close("hana", value, new)),
             DOMAIN new = BackupTypes \/ DOMAIN new \subseteq {"ini", "dr_in_same_region"}
      PROVE  BelongInv'
  <2>1. section'["hana"].labels = WrittenOver(new, section["hana"].labels)
    BY <1>2, SectionIsHANA, LabelsWritten, SectionClosed
  <2> QED BY <1>1, <1>2, <2>1, LabelsElsewhere, TrueLabels
<1>3. ASSUME UNCHANGED section PROVE BelongInv'
  <2> DEFINE nothing == [k \in {} |-> 0]
  <2>1. section'["hana"].labels = section["hana"].labels /\ DOMAIN nothing = {}
    BY <1>3
  <2> HIDE DEF nothing
  <2> QED BY <1>1, <2>1, TrueLabels
<1>4. CASE HANAStart
  <2>1. section' = section \/ Label("hana", [ini |-> "value"])
    BY <1>4, Zenon DEF HANAStart
  <2>2. DOMAIN [ini |-> "value"] \subseteq {"ini", "dr_in_same_region"}
    OBVIOUS
  <2> QED BY <1>2, <1>3, <2>1, <2>2, Zenon
<1>5. CASE HANAVolumes
  <2> DEFINE info(absent) == [w \in DOMAIN Volumes |-> DiskInfo(IF w \in absent THEN "" ELSE Volumes[w])]
  <2>1. PICK absent : Label("hana", info(absent))
    <3>1. /\ [v \in DOMAIN Volumes |-> DiskInfo(Volumes[v])] = info({})
          /\ \A v \in DOMAIN Volumes : [w \in DOMAIN Volumes |-> DiskInfo(IF w = v THEN "" ELSE Volumes[w])] = info({v})
      OBVIOUS
    <3> HIDE DEF info
    <3>2. \/ Label("hana", [v \in DOMAIN Volumes |-> DiskInfo(Volumes[v])])
          \/ \E v \in DOMAIN Volumes : Label("hana", [w \in DOMAIN Volumes |-> DiskInfo(IF w = v THEN "" ELSE Volumes[w])])
      BY <1>5, Zenon DEF HANAVolumes
    <3> QED BY <3>1, <3>2, Zenon
  <2> DEFINE new == info(absent)
  <2>2. ASSUME NEW v \in DOMAIN Volumes PROVE VolumeIsTrue(Volumes[v], new[v])
    <3>1. CASE v \in absent
      <4>1. new[v] = DiskInfo("")
        BY <3>1
      <4>2. new[v].mount = ""
        BY <4>1, VolumesAreTrue
      <4> HIDE DEF new
      <4> QED BY <4>2, Zenon DEF VolumeIsTrue
    <3>2. CASE v \notin absent
      <4>1. new[v] = DiskInfo(Volumes[v])
        BY <3>2
      <4> QED BY <4>1, VolumesAreTrue, Zenon
    <3> QED BY <3>1, <3>2
  <2>3. DOMAIN new = DOMAIN Volumes /\ "ha_in_same_zone" \notin DOMAIN new
    BY SectionsAssumption DEF HANALabelNames
  <2>4. Label("hana", new)
    BY <2>1
  <2> HIDE DEF new
  <2>5. section'["hana"].labels = WrittenOver(new, section["hana"].labels)
    BY <2>4, SectionIsHANA, LabelsWritten
  <2> QED BY <1>1, <2>2, <2>3, <2>5, TrueLabels
<1>6. CASE HANAZones
  <2> DEFINE new == [k \in {"ha_in_same_zone"} |-> CheckHAZones]
  <2>1. Label("hana", new)
    BY <1>6 DEF HANAZones
  <2>2. DOMAIN new = {"ha_in_same_zone"} /\ new["ha_in_same_zone"] = CheckHAZones
    OBVIOUS
  <2> HIDE DEF new
  <2>3. DOMAIN Volumes \cap DOMAIN new = {}
    BY <2>2, SectionsAssumption DEF HANALabelNames
  <2>4. HostsAreTrue(new["ha_in_same_zone"])
    BY <2>2, HostsOfAnHASystem, Zenon DEF BelongInv
  <2>5. section'["hana"].labels = WrittenOver(new, section["hana"].labels)
    BY <2>1, SectionIsHANA, LabelsWritten
  <2> QED BY <1>1, <2>3, <2>4, <2>5, TrueLabels
<1>7. CASE HANARole \/ HANARegions
  <2>1. section' = section \/ \E vms : Label("hana", [k \in {"dr_in_same_region"} |-> vms])
    BY <1>7, Zenon DEF HANARole, HANARegions
  <2>2. \A vms : DOMAIN [k \in {"dr_in_same_region"} |-> vms] \subseteq {"ini", "dr_in_same_region"}
    OBVIOUS
  <2> QED BY <1>2, <1>3, <2>1, <2>2, Zenon
<1>8. CASE HANATenants \/ HANASuccesses \/ HANACommands
  <2>1. section' = section \/ \E f, value : Close("hana", value, [type \in BackupTypes |-> f[type]])
    <3>1. ASSUME NEW r, Closing(r)
          PROVE  section' = section \/ \E f, value : Close("hana", value, [type \in BackupTypes |-> f[type]])
      <4>1. section' = section \/ Close("hana", 1, [type \in BackupTypes |-> [tenant |-> r.tenant[type], time |-> r.oldest[type], known |-> TRUE]])
        BY <3>1, Zenon DEF Closing
      <4> DEFINE f == [type \in BackupTypes |-> [tenant |-> r.tenant[type], time |-> r.oldest[type], known |-> TRUE]]
      <4>2. f = [type \in BackupTypes |-> f[type]]
        OBVIOUS
      <4> QED BY <4>1, <4>2, Zenon
    <3>2. ASSUME NEW t, Close("hana", 1, [type \in BackupTypes |-> [tenant |-> t, time |-> 0, known |-> FALSE]])
          PROVE  \E f, value : Close("hana", value, [type \in BackupTypes |-> f[type]])
      <4> DEFINE f == [type \in BackupTypes |-> [tenant |-> t, time |-> 0, known |-> FALSE]]
      <4>1. f = [type \in BackupTypes |-> f[type]]
        OBVIOUS
      <4> QED BY <3>2, <4>1, Zenon
    <3> QED BY <1>8, <3>1, <3>2, Zenon DEF HANATenants, HANASuccesses, HANACommands, Unread
  <2>2. \A f : DOMAIN [type \in BackupTypes |-> f[type]] = BackupTypes
    OBVIOUS
  <2> QED BY <1>2, <1>3, <2>1, <2>2, Zenon
<1> QED BY <1>4, <1>5, <1>6, <1>7, <1>8

(* No other step touches HANA's section. *)
LEMMA HANASectionElsewhere ==
    ASSUME StepInv, CollectMetrics \/ SendRequest \/ SystemRoles \/ SystemZones \/ NetweaverSection \/ CustomSection \/ CorosyncSection
    PROVE  landscape' = landscape /\ section'["hana"] = section["hana"]
<1>1. landscape' = landscape
  BY DEF CollectMetrics, SendRequest, SystemRoles, SystemZones, NetweaverSection, CustomSection, CorosyncSection, Rest, wlEnv
<1>2. CASE CollectMetrics \/ SendRequest
  BY <1>1, <1>2 DEF CollectMetrics, SendRequest
<1>3. /\ {"system", "netweaver", "custom"} \subseteq ToSet(SectionNames)
      /\ "hana" \in ToSet(SectionNames)
  BY DEF SectionNames, ToSet
<1>4. ASSUME NEW s \in {"system", "netweaver", "custom"}, (\E new : Label(s, new)) \/ (\E value, new : Close(s, value, new))
      PROVE  section'["hana"] = section["hana"]
  BY <1>3, <1>4, LabelsWritten, SectionClosed
<1>5. CASE SystemRoles
  BY <1>1, <1>4, <1>5, Zenon DEF SystemRoles
<1>6. CASE SystemZones
  BY <1>1, <1>4, <1>6, Zenon DEF SystemZones
<1>7. CASE NetweaverSection
  BY <1>1, <1>4, <1>7, Zenon DEF NetweaverSection
<1>8. CASE CustomSection
  BY <1>1, <1>4, <1>8, Zenon DEF CustomSection
<1>9. CASE CorosyncSection
  <2>1. \E p, c : section' = [section EXCEPT !["pacemaker"] = p, !["corosync"] = c]
    BY <1>9, Zenon DEF CorosyncSection
  <2> QED BY <1>1, <1>3, <2>1 DEF StepInv
<1> QED BY <1>2, <1>5, <1>6, <1>7, <1>8, <1>9

(* HANA's routine, the other ones and the environment. *)
LEMMA ReportSteps ==
    ASSUME BackupsInv, BelongInv, [SectionsNext]_SectionsVars
    PROVE  BackupsInv' /\ BelongInv'
<1>1. ASSUME landscape' \in Landscapes, section'["hana"] = section["hana"] PROVE BelongInv'
  <2> DEFINE nothing == [k \in {} |-> 0]
  <2>1. section'["hana"].labels = section["hana"].labels /\ DOMAIN nothing = {}
    BY <1>1
  <2> HIDE DEF nothing
  <2> QED BY <1>1, <2>1, TrueLabels
<1>2. ASSUME UNCHANGED <<landscape, backupLog, wlStep, section, backupRead>> PROVE BackupsInv' /\ BelongInv'
  <2>1. DOMAIN wlStep' = Routines /\ DOMAIN section' = ToSet(SectionNames) /\ landscape' \in Landscapes
    BY <1>2 DEF BackupsInv, StepInv, BelongInv
  <2> QED BY <1>1, <1>2, <2>1, HANAUntouched
<1>3. CASE LandscapeMoves
  <2>1. UNCHANGED <<backupLog, wlStep, section, backupRead>> /\ landscape' \in Landscapes
    BY <1>3 DEF LandscapeMoves, BelongInv
  <2>2. DOMAIN wlStep' = Routines /\ DOMAIN section' = ToSet(SectionNames)
    BY <2>1 DEF BackupsInv, StepInv
  <2> QED BY <1>1, <2>1, <2>2, HANAUntouched
<1>4. CASE \E t \in Tenants : HANABackup(t)
  <2>1. UNCHANGED <<landscape, section>>
    BY <1>4 DEF HANABackup
  <2>2. landscape' \in Landscapes /\ section'["hana"] = section["hana"]
    BY <2>1 DEF BelongInv
  <2> QED BY <1>1, <1>4, <2>2, BackupsGoOn
<1>5. CASE CollectMetrics \/ SendRequest \/ SystemRoles \/ SystemZones \/ NetweaverSection \/ CustomSection \/ CorosyncSection
  <2>1. landscape' \in Landscapes /\ section'["hana"] = section["hana"]
    BY <1>5, HANASectionElsewhere DEF BackupsInv, BelongInv
  <2> QED BY <1>1, <1>5, <2>1, CollectionSteps, OtherRoutines
<1>6. CASE HANAStart \/ HANAVolumes \/ HANAZones \/ HANARole \/ HANARegions \/ HANATenants \/ HANASuccesses \/ HANACommands
  <2>1. landscape' = landscape
    BY <1>6 DEF HANAStart, HANAVolumes, HANAZones, HANARole, HANARegions, HANATenants, HANASuccesses, HANACommands, Rest, wlEnv
  <2> QED BY <1>6, <2>1, HANAReports, HANALabels DEF BackupsInv
<1>7. CASE UNCHANGED wlVars
  BY <1>2, <1>7 DEF wlVars, wlEnv
<1> QED BY <1>3, <1>4, <1>5, <1>6, <1>7, Zenon DEF SectionsNext, SectionsVars

(* At every moment what is known of the backups is reliable for the tenants that had
   their turn, and the labels of the volumes and hosts are true (hanametrics.go:150,
   583). *)
THEOREM ReportInvariant == SectionsSpec => [](BackupsInv /\ BelongInv)
<1>1. SectionsInit => BackupsInv /\ BelongInv
  <2> SUFFICES ASSUME SectionsInit PROVE BackupsInv /\ BelongInv
    OBVIOUS
  <2>1. section["hana"] = NoSection /\ landscape \in Landscapes
    BY SectionIsHANA DEF SectionsInit
  <2>2. DOMAIN section["hana"].labels = {}
    BY <2>1 DEF NoSection
  <2>3. BelongInv
    BY <2>1, <2>2 DEF BelongInv
  <2> QED BY <2>3, BackupsBegin
<1>2. BackupsInv /\ BelongInv /\ [SectionsNext]_SectionsVars => BackupsInv' /\ BelongInv'
  BY ReportSteps
<1> QED BY <1>1, <1>2, PTL DEF SectionsSpec

(* The report of HANA's backups never says that a tenant is better protected than it
   is, for every log, every order of the tenants and every time at which backups begin
   and succeed while the log is read (hanametrics.go:583). *)
THEOREM BackupsAreReported == SectionsSpec => []BackupsAreNotOverstated
<1>1. BackupsInv => BackupsAreNotOverstated
  <2> SUFFICES ASSUME BackupsInv, wlStep["hana"] = "done", section["hana"].value = 1,
                      \A t \in Tenants : \A x, y \in Lines(backupLog[t], "command") : x.thread = y.thread => x = y,
                      NEW type \in BackupTypes, section["hana"].labels[type].known
               PROVE  /\ \A t \in Tenants : section["hana"].labels[type].time <= Latest(backupLog[t], type)
                      /\ section["hana"].labels[type].tenant # "" /\ section["hana"].labels[type].time > 0 =>
                           \E x \in Lines(backupLog[section["hana"].labels[type].tenant], "finished") :
                              /\ x.time = section["hana"].labels[type].time
                              /\ TypeOf(backupLog[section["hana"].labels[type].tenant], x.thread, x.time) = type
    BY Zenon DEF BackupsAreNotOverstated
  <2>1. OnceEach
    BY Zenon DEF OnceEach, Once
  <2>2. Reliable(section["hana"].labels[type].tenant, section["hana"].labels[type].time, type, Tenants)
    BY <2>1, Zenon DEF BackupsInv, ReportInv
  <2> QED BY <2>2, Zenon DEF Reliable
<1> QED BY <1>1, ReportInvariant, PTL

(* What the report says of a volume is of one device, mounted where the volume is, and
   the hosts it says are in the same zone are of a system of this machine, for all
   devices, volumes and landscapes (hanametrics.go:216, 411). *)
THEOREM LabelsAreOfOneDevice == SectionsSpec => []HANALabelsBelongTogether
<1>1. BelongInv => HANALabelsBelongTogether
  BY Zenon DEF BelongInv, VolumeIsTrue, HostsAreTrue, HANALabelsBelongTogether
<1> QED BY <1>1, ReportInvariant, PTL

--------------------------------------------------------------------------------
(* WorkloadSections: the request. *)

(* The function of Parsed as far as line n. *)
ReadUpTo(g, n, lines) ==
    g = [i \in 0..n |-> IF i = 0 THEN [done |-> <<>>, cur |-> NoMetric("")] ELSE Absorbed(g[i - 1], lines[i])]

(* Parsed is defined: there is a function that satisfies its equation. *)
LEMMA ParsedEquation ==
    ASSUME NEW lines, Len(lines) \in Nat
    PROVE  \E g : /\ ReadUpTo(g, Len(lines), lines)
                  /\ Parsed(lines) = IF g[Len(lines)].cur.type = "" THEN g[Len(lines)].done
                                     ELSE Append(g[Len(lines)].done, g[Len(lines)].cur)
<1> DEFINE T == {n \in Nat : \E g : ReadUpTo(g, n, lines)}
           none == [done |-> <<>>, cur |-> NoMetric("")]
<1>1. 0 \in T
  <2> DEFINE g == [i \in 0..0 |-> none]
  <2>1. ReadUpTo(g, 0, lines)
    BY DEF ReadUpTo
  <2> QED BY <2>1
<1>2. ASSUME NEW n \in Nat, n \in T PROVE n + 1 \in T
  <2>1. PICK g : ReadUpTo(g, n, lines)
    BY <1>2
  <2> DEFINE e == Absorbed(g[n], lines[n + 1])
             h == [i \in 0..(n + 1) |-> IF i = n + 1 THEN e ELSE g[i]]
  <2> HIDE DEF none
  <2>2. \A i \in 0..(n + 1) : h[i] = IF i = 0 THEN none ELSE Absorbed(h[i - 1], lines[i])
    <3>1. TAKE i \in 0..(n + 1)
    <3>2. CASE i = n + 1
      <4>1. n \in 0..(n + 1) /\ n # n + 1 /\ i - 1 = n /\ i # 0
        BY <3>2
      <4>2. h[i] = e /\ h[i - 1] = g[n]
        BY <3>2, <4>1
      <4> HIDE DEF h
      <4> QED BY <3>2, <4>1, <4>2
    <3>3. CASE i # n + 1
      <4>1. i \in 0..n /\ i # n + 1
        BY <3>3
      <4>2. h[i] = g[i]
        BY <4>1
      <4>3. i # 0 => i - 1 \in 0..n /\ i - 1 # n + 1 /\ i - 1 \in 0..(n + 1)
        BY <4>1
      <4>4. i # 0 => h[i - 1] = g[i - 1]
        BY <4>3
      <4>5. g[i] = IF i = 0 THEN none ELSE Absorbed(g[i - 1], lines[i])
        BY <2>1, <4>1 DEF ReadUpTo, none
      <4> HIDE DEF h
      <4> QED BY <4>2, <4>4, <4>5
    <3> QED BY <3>2, <3>3
  <2>3. h = [i \in 0..(n + 1) |-> h[i]]
    OBVIOUS
  <2> HIDE DEF h
  <2>4. h = [i \in 0..(n + 1) |-> IF i = 0 THEN none ELSE Absorbed(h[i - 1], lines[i])]
    BY <2>2, <2>3
  <2>5. ReadUpTo(h, n + 1, lines)
    BY <2>4 DEF ReadUpTo, none
  <2> QED BY <2>5
<1> HIDE DEF T
<1>3. Len(lines) \in T
  BY <1>1, <1>2, UpTo
<1>4. \E g : ReadUpTo(g, Len(lines), lines)
  BY <1>3 DEF T
<1> DEFINE k == CHOOSE g : ReadUpTo(g, Len(lines), lines)
<1>5. ReadUpTo(k, Len(lines), lines)
  BY <1>4
<1>6. Parsed(lines) = IF k[Len(lines)].cur.type = "" THEN k[Len(lines)].done ELSE Append(k[Len(lines)].done, k[Len(lines)].cur)
  BY DEF Parsed, ReadUpTo
<1> QED BY <1>5, <1>6

(* Lines that name a metric. *)
Naming(lines, n) == {i \in 1..n : lines[i].key = "metric" /\ lines[i].value # ""}

LEMMA OneMore ==
    ASSUME NEW q, IsSequence(q), NEW x
    PROVE  IsSequence(Append(q, x)) /\ Len(Append(q, x)) = Len(q) + 1
<1> DEFINE S == {q[i] : i \in 1..Len(q)} \cup {x}
<1>1. Len(q) \in Nat /\ q = [i \in 1..Len(q) |-> q[i]] /\ \A i \in 1..Len(q) : q[i] \in S
  BY DEF IsSequence
<1>2. x \in S
  OBVIOUS
<1> HIDE DEF S
<1>3. q \in [1..Len(q) -> S]
  BY <1>1
<1>4. q \in Seq(S)
  BY <1>1, <1>3
<1>5. Append(q, x) \in Seq(S) /\ Len(Append(q, x)) = Len(q) + 1
  BY <1>2, <1>4
<1>6. \A p \in Seq(S) : Len(p) \in Nat /\ p = [i \in 1..Len(p) |-> p[i]]
  OBVIOUS
<1> QED BY <1>5, <1>6, Zenon DEF IsSequence

(* A metric for every line that names one. *)
Counted(r, n, lines) ==
    /\ "done" \in DOMAIN r /\ "cur" \in DOMAIN r /\ "type" \in DOMAIN r.cur /\ IsSequence(r.done)
    /\ Len(r.done) + (IF r.cur.type = "" THEN 0 ELSE 1) = Cardinality(Naming(lines, n))

LEMMA OneMoreLine ==
    ASSUME NEW lines, NEW n \in Nat, NEW r, Counted(r, n, lines)
    PROVE  Counted(Absorbed(r, lines[n + 1]), n + 1, lines)
<1> DEFINE l == lines[n + 1]
           q == Absorbed(r, l)
           names == l.key = "metric" /\ l.value # ""
<1>1. IsFiniteSet(Naming(lines, n)) /\ Cardinality(Naming(lines, n)) \in Nat
  <2>1. IsFiniteSet(1..n)
    BY PlacesAreFinite
  <2>2. Naming(lines, n) \subseteq 1..n
    BY DEF Naming
  <2> QED BY <2>1, <2>2, FS_Subset, FS_CardinalityType
<1>2. /\ names => Naming(lines, n + 1) = Naming(lines, n) \cup {n + 1}
      /\ ~names => Naming(lines, n + 1) = Naming(lines, n)
  <2>1. 1..(n + 1) = 1..n \cup {n + 1} /\ n + 1 \notin 1..n
    OBVIOUS
  <2> QED BY <2>1, Zenon DEF Naming
<1>3. n + 1 \notin Naming(lines, n)
  <2>1. n + 1 \notin 1..n
    OBVIOUS
  <2> QED BY <2>1, Zenon DEF Naming
<1>4. /\ names => Cardinality(Naming(lines, n + 1)) = Cardinality(Naming(lines, n)) + 1
      /\ ~names => Cardinality(Naming(lines, n + 1)) = Cardinality(Naming(lines, n))
  <2> HIDE DEF names
  <2> QED BY <1>1, <1>2, <1>3, FS_AddElement
<1>5. /\ "done" \in DOMAIN r /\ "cur" \in DOMAIN r /\ "type" \in DOMAIN r.cur /\ IsSequence(r.done) /\ Len(r.done) \in Nat
      /\ Len(r.done) + (IF r.cur.type = "" THEN 0 ELSE 1) = Cardinality(Naming(lines, n))
  BY Zenon DEF Counted, IsSequence
<1>9. Len(r.done) \in Nat
  BY <1>5
<1> HIDE DEF l
<1>6. CASE l.key = "metric" /\ r.cur.type # ""
  <2>1. q = [done |-> Append(r.done, r.cur), cur |-> NoMetric(l.value)]
    BY <1>6, Zenon DEF Absorbed
  <2>2. "done" \in DOMAIN q /\ "cur" \in DOMAIN q /\ q.done = Append(r.done, r.cur) /\ "type" \in DOMAIN q.cur /\ q.cur.type = l.value
    BY <2>1 DEF NoMetric
  <2> HIDE DEF q
  <2>3. IsSequence(q.done) /\ Len(q.done) = Len(r.done) + 1
    BY <1>5, <2>2, OneMore
  <2>4. Len(r.done) + 1 = Cardinality(Naming(lines, n))
    BY <1>5, <1>6
  <2>5. Len(q.done) + (IF q.cur.type = "" THEN 0 ELSE 1) = Cardinality(Naming(lines, n + 1))
    <3>1. CASE l.value = ""
      <4>1. Cardinality(Naming(lines, n + 1)) = Cardinality(Naming(lines, n))
        BY <1>4, <3>1
      <4>2. q.cur.type = ""
        BY <2>2, <3>1
      <4>3. Len(q.done) + 0 = Cardinality(Naming(lines, n + 1))
        BY <1>9, <2>3, <2>4, <4>1
      <4> QED BY <4>2, <4>3, Zenon
    <3>2. CASE l.value # ""
      <4>1. Cardinality(Naming(lines, n + 1)) = Cardinality(Naming(lines, n)) + 1
        BY <1>4, <1>6, <3>2
      <4>2. q.cur.type # ""
        BY <2>2, <3>2
      <4>3. Len(q.done) + 1 = Cardinality(Naming(lines, n + 1))
        BY <1>9, <2>3, <2>4, <4>1
      <4> QED BY <4>2, <4>3, Zenon
    <3> QED BY <3>1, <3>2
  <2> QED BY <2>2, <2>3, <2>5, Zenon DEF Counted, l, q
<1>7. CASE l.key = "metric" /\ r.cur.type = ""
  <2>1. q = [r EXCEPT !.cur.type = l.value]
    BY <1>7, Zenon DEF Absorbed
  <2>2. "done" \in DOMAIN q /\ "cur" \in DOMAIN q /\ q.done = r.done /\ "type" \in DOMAIN q.cur /\ q.cur.type = l.value
    BY <1>5, <2>1
  <2> HIDE DEF q
  <2>3. IsSequence(q.done) /\ Len(q.done) = Len(r.done)
    BY <1>5, <2>2, Zenon
  <2>4. Len(r.done) = Cardinality(Naming(lines, n))
    <3>1. Len(r.done) + 0 = Cardinality(Naming(lines, n))
      BY <1>5, <1>7, Zenon
    <3> QED BY <1>9, <3>1
  <2>5. Len(q.done) + (IF q.cur.type = "" THEN 0 ELSE 1) = Cardinality(Naming(lines, n + 1))
    <3>1. CASE l.value = ""
      <4>1. Cardinality(Naming(lines, n + 1)) = Cardinality(Naming(lines, n))
        BY <1>4, <3>1
      <4>2. q.cur.type = ""
        BY <2>2, <3>1
      <4>3. Len(q.done) + 0 = Cardinality(Naming(lines, n + 1))
        BY <1>9, <2>3, <2>4, <4>1
      <4> QED BY <4>2, <4>3, Zenon
    <3>2. CASE l.value # ""
      <4>1. Cardinality(Naming(lines, n + 1)) = Cardinality(Naming(lines, n)) + 1
        BY <1>4, <1>7, <3>2
      <4>2. q.cur.type # ""
        BY <2>2, <3>2
      <4>3. Len(q.done) + 1 = Cardinality(Naming(lines, n + 1))
        BY <1>9, <2>3, <2>4, <4>1
      <4> QED BY <4>2, <4>3, Zenon
    <3> QED BY <3>1, <3>2
  <2> QED BY <2>2, <2>3, <2>5, Zenon DEF Counted, l, q
<1>8. CASE l.key # "metric"
  <2>1. \/ q = [r EXCEPT !.cur.value = l.value]
        \/ q = [r EXCEPT !.cur.labels = (l.key :> l.value) @@ @]
    BY <1>8, Zenon DEF Absorbed
  <2>2. "done" \in DOMAIN q /\ "cur" \in DOMAIN q /\ q.done = r.done /\ "type" \in DOMAIN q.cur /\ q.cur.type = r.cur.type
    <3> DEFINE new == (l.key :> l.value) @@ r.cur.labels
    <3>1. q = [r EXCEPT !.cur.value = l.value] \/ q = [r EXCEPT !.cur.labels = new]
      BY <2>1
    <3> HIDE DEF new, q
    <3> QED BY <1>5, <3>1
  <2> HIDE DEF q
  <2>3. ~names /\ Cardinality(Naming(lines, n + 1)) = Cardinality(Naming(lines, n))
    BY <1>4, <1>8
  <2>4. IsSequence(q.done)
    BY <1>5, <2>2
  <2>5. Len(q.done) + (IF q.cur.type = "" THEN 0 ELSE 1) = Cardinality(Naming(lines, n + 1))
    BY <1>5, <2>2, <2>3, Zenon
  <2> QED BY <2>2, <2>4, <2>5, Zenon DEF Counted, l, q
<1> QED BY <1>6, <1>7, <1>8

(* A file of overrides gives a section for every metric it names. *)
LEMMA ParsedIsWhole ==
    ASSUME NEW lines, lines \in Seq(ToSet(lines))
    PROVE  /\ IsSequence(Parsed(lines))
           /\ Len(Parsed(lines)) = Cardinality({i \in DOMAIN lines : lines[i].key = "metric" /\ lines[i].value # ""})
<1> DEFINE n == Len(lines)
<1>1. n \in Nat /\ DOMAIN lines = 1..n
  OBVIOUS
<1>2. PICK g : /\ ReadUpTo(g, n, lines)
               /\ Parsed(lines) = IF g[n].cur.type = "" THEN g[n].done ELSE Append(g[n].done, g[n].cur)
  BY <1>1, ParsedEquation
<1> DEFINE none == [done |-> <<>>, cur |-> NoMetric("")]
<1> HIDE DEF n
<1>11. \A i \in 0..n : g[i] = IF i = 0 THEN none ELSE Absorbed(g[i - 1], lines[i])
  BY <1>2, Zenon DEF ReadUpTo
<1>12. /\ "done" \in DOMAIN none /\ "cur" \in DOMAIN none /\ none.done = <<>>
       /\ "type" \in DOMAIN none.cur /\ none.cur.type = ""
  BY DEF NoMetric
<1> HIDE DEF none
<1> DEFINE T == {i \in 0..n : Counted(g[i], i, lines)}
<1>3. 0 \in T
  <2>1. 0 \in 0..n
    BY <1>1
  <2>2. Naming(lines, 0) = {}
    BY DEF Naming
  <2>3. Cardinality(Naming(lines, 0)) = 0
    BY <2>2, FS_EmptySet
  <2>4. g[0] = none
    BY <1>11, <2>1, Zenon
  <2>5. IsSequence(<<>>) /\ Len(<<>>) + 0 = 0
    BY DEF IsSequence
  <2>6. Counted(g[0], 0, lines)
    BY <1>12, <2>3, <2>4, <2>5, Zenon DEF Counted
  <2> QED BY <2>1, <2>6
<1>4. ASSUME NEW i \in 0..n, i # n, i \in T PROVE i + 1 \in T
  <2>1. i \in Nat /\ i + 1 \in 0..n /\ i + 1 # 0 /\ i + 1 - 1 = i
    BY <1>1, <1>4
  <2>2. g[i + 1] = Absorbed(g[i], lines[i + 1])
    BY <1>11, <2>1
  <2>3. Counted(g[i + 1], i + 1, lines)
    BY <1>4, <2>1, <2>2, OneMoreLine
  <2> QED BY <2>1, <2>3
<1>5. n \in T
  <2> HIDE DEF T
  <2> QED BY <1>1, <1>3, <1>4, UpTo
<1>6. Counted(g[n], n, lines)
  BY <1>5
<1> DEFINE r == g[n]
<1>7. /\ IsSequence(r.done) /\ Len(r.done) \in Nat
      /\ Len(r.done) + (IF r.cur.type = "" THEN 0 ELSE 1) = Cardinality(Naming(lines, n))
  BY <1>6, Zenon DEF Counted, IsSequence
<1>8. Naming(lines, n) = {i \in DOMAIN lines : lines[i].key = "metric" /\ lines[i].value # ""}
  BY <1>1, Zenon DEF Naming
<1> HIDE DEF r
<1>9. CASE r.cur.type = ""
  <2>1. Parsed(lines) = r.done
    BY <1>2, <1>9, Zenon DEF r
  <2>2. Len(r.done) = Cardinality(Naming(lines, n))
    <3>1. Len(r.done) + 0 = Cardinality(Naming(lines, n)) /\ Len(r.done) \in Nat
      BY <1>7, <1>9, Zenon
    <3> QED BY <3>1
  <2> QED BY <1>7, <1>8, <2>1, <2>2, Zenon
<1>10. CASE r.cur.type # ""
  <2>1. Parsed(lines) = Append(r.done, r.cur)
    BY <1>2, <1>10, Zenon DEF r
  <2>2. Len(r.done) + 1 = Cardinality(Naming(lines, n))
    BY <1>7, <1>10
  <2> QED BY <1>7, <1>8, <2>1, <2>2, OneMore, Zenon
<1> QED BY <1>9, <1>10

--------------------------------------------------------------------------------
(* WorkloadSections: the order of the routines. *)
SectionSet == ToSet(SectionNames)
Working(r) == wlStep[r] \notin {"", "done"}
StageInv ==
    /\ DOMAIN wlStep = Routines /\ DOMAIN section = SectionSet
    /\ \A s \in SectionSet : "value" \in DOMAIN section[s] /\ "labels" \in DOMAIN section[s]
    /\ overrides \in Overrides /\ wlStep["collection"] \in {"idle", "waiting", "sent"}
    /\ wlStep["collection"] = "waiting" => overrides = <<>>
    /\ wlStep["collection"] = "idle" => \A r \in Routines \ {"collection"} : wlStep[r] = ""
(* The sections that others rely on. *)
PartsInv ==
    /\ wlStep["system"] \in {"zones", "done"} =>
         "instance_name" \in DOMAIN section["system"].labels /\ section["system"].labels["instance_name"] = Here
    /\ pmValue \in {0, 1}
    /\ wlStep["corosync"] = "done" => /\ pmStep = "done" /\ section["pacemaker"] = [value |-> pmValue, labels |-> pmLabels]
                                       /\ section["corosync"].value = pmValue
(* What was sent is what is there: after that no routine is at work. *)
SentInv ==
    wlStep["collection"] = "sent" =>
      /\ \A r \in Routines \ {"collection"} : wlStep[r] = (IF overrides = <<>> THEN "done" ELSE "")
      /\ overrides = <<>> => wlRequest = [i \in DOMAIN SectionNames |-> Detail(SectionNames[i], Append5(SectionNames[i]))]
      /\ overrides # <<>> => wlRequest = [i \in DOMAIN Parsed(overrides) |-> Detail(Parsed(overrides)[i].type, Parsed(overrides)[i])]
WholeInv == StageInv /\ PartsInv /\ SentInv

LEMMA TheSections ==
    /\ {"system", "corosync", "hana", "netweaver", "pacemaker", "custom"} = SectionSet
    /\ {"system", "hana", "netweaver", "custom", "corosync", "collection"} = Routines
BY DEF SectionNames, ToSet, SectionSet, Routines

(* A section is written. *)
Wrote(s, new) == Label(s, new) \/ \E value : Close(s, value, new)
Writes(s, new) == section' = section \/ Wrote(s, new)
LEMMA OneSection ==
    ASSUME StageInv, NEW s \in SectionSet, NEW new, Writes(s, new)
    PROVE  /\ DOMAIN section' = SectionSet /\ \A q \in SectionSet : q # s => section'[q] = section[q]
           /\ \A q \in SectionSet : "value" \in DOMAIN section'[q] /\ "labels" \in DOMAIN section'[q]
           /\ section'[s].labels = section[s].labels \/ section'[s].labels = WrittenOver(new, section[s].labels)
           /\ Wrote(s, new) => section'[s].labels = WrittenOver(new, section[s].labels)
<1>1. CASE section' = section /\ ~Wrote(s, new)
  BY <1>1, Zenon DEF StageInv
<1>2. CASE Label(s, new)
  <2> DEFINE over == WrittenOver(new, section[s].labels)
  <2>1. section' = [section EXCEPT ![s].labels = over]
    BY <1>2 DEF Label
  <2> HIDE DEF over
  <2>2. /\ DOMAIN section' = SectionSet /\ \A q \in SectionSet : q # s => section'[q] = section[q]
        /\ section'[s] = [section[s] EXCEPT !.labels = over]
    BY <2>1 DEF StageInv
  <2>3. "value" \in DOMAIN section'[s] /\ "labels" \in DOMAIN section'[s] /\ section'[s].labels = over
    BY <2>2 DEF StageInv
  <2> QED BY <2>2, <2>3, Zenon DEF StageInv, over
<1>3. CASE \E value : Close(s, value, new)
  <2> DEFINE over == WrittenOver(new, section[s].labels)
  <2>1. PICK value : section' = [section EXCEPT ![s] = [value |-> value, labels |-> over]]
    BY <1>3 DEF Close
  <2> HIDE DEF over
  <2>2. /\ DOMAIN section' = SectionSet /\ \A q \in SectionSet : q # s => section'[q] = section[q]
        /\ section'[s] = [value |-> value, labels |-> over]
    BY <2>1 DEF StageInv
  <2>3. "value" \in DOMAIN section'[s] /\ "labels" \in DOMAIN section'[s] /\ section'[s].labels = over
    BY <2>2
  <2> QED BY <2>2, <2>3, Zenon DEF StageInv, over
<1> QED BY <1>1, <1>2, <1>3, Zenon DEF Writes, Wrote

(* A routine that writes its own section goes on. *)
LEMMA RoutineGoesOn ==
    ASSUME WholeInv, NEW r \in {"system", "hana", "netweaver", "custom"}, Working(r), NEW next, next # "",
           wlStep' = [wlStep EXCEPT ![r] = next], NEW new, Writes(r, new),
           r = "system" => /\ Wrote(r, new)
                           /\ \/ "instance_name" \in DOMAIN new /\ new["instance_name"] = Here
                              \/ wlStep["system"] = "zones" /\ "instance_name" \notin DOMAIN new,
           UNCHANGED <<wlRequest, overrides, pmStep, pmValue, pmLabels>>
    PROVE  WholeInv'
<1>1. r \in SectionSet /\ r \in Routines \ {"collection", "corosync"} /\ "corosync" \in Routines /\ "collection" \in Routines
      /\ "corosync" \in SectionSet /\ "pacemaker" \in SectionSet /\ "system" \in SectionSet /\ "system" \in Routines
      /\ r # "corosync" /\ r # "pacemaker"
  BY TheSections
<1>2. /\ DOMAIN wlStep' = Routines /\ \A q \in Routines : q # r => wlStep'[q] = wlStep[q]
      /\ wlStep'[r] = next
  BY <1>1 DEF WholeInv, StageInv
<1>3. wlStep["collection"] = "waiting" /\ wlStep'["collection"] = "waiting"
  <2>1. wlStep["collection"] # "idle"
    BY <1>1 DEF WholeInv, StageInv, Working
  <2>2. wlStep["collection"] # "sent"
    BY <1>1 DEF WholeInv, SentInv, Working
  <2> QED BY <1>1, <1>2, <2>1, <2>2 DEF WholeInv, StageInv
<1>4. /\ DOMAIN section' = SectionSet /\ \A q \in SectionSet : q # r => section'[q] = section[q]
      /\ \A q \in SectionSet : "value" \in DOMAIN section'[q] /\ "labels" \in DOMAIN section'[q]
      /\ Wrote(r, new) => section'[r].labels = WrittenOver(new, section[r].labels)
  BY <1>1, OneSection DEF WholeInv
<1>5. StageInv'
  BY <1>2, <1>3, <1>4, Zenon DEF WholeInv, StageInv, SectionSet
<1>6. SentInv'
  BY <1>3, Zenon DEF SentInv
<1>7. wlStep'["corosync"] = "done" => /\ pmStep' = "done" /\ section'["pacemaker"] = [value |-> pmValue', labels |-> pmLabels']
                                      /\ section'["corosync"].value = pmValue'
  BY <1>1, <1>2, <1>4 DEF WholeInv, PartsInv
<1>8. wlStep'["system"] \in {"zones", "done"} =>
        "instance_name" \in DOMAIN section'["system"].labels /\ section'["system"].labels["instance_name"] = Here
  <2>1. CASE r # "system"
    <3>1. wlStep'["system"] = wlStep["system"] /\ section'["system"] = section["system"]
      BY <1>1, <1>2, <1>4, <2>1
    <3> QED BY <3>1, Zenon DEF WholeInv, PartsInv
  <2>2. CASE r = "system"
    <3>1. section'["system"].labels = WrittenOver(new, section["system"].labels)
      BY <1>4, <2>2
    <3>2. CASE "instance_name" \in DOMAIN new /\ new["instance_name"] = Here
      BY <3>1, <3>2 DEF WrittenOver
    <3>3. CASE wlStep["system"] = "zones" /\ "instance_name" \notin DOMAIN new
      <4>1. "instance_name" \in DOMAIN section["system"].labels /\ section["system"].labels["instance_name"] = Here
        BY <3>3 DEF WholeInv, PartsInv
      <4> QED BY <3>1, <3>3, <4>1 DEF WrittenOver
    <3> QED BY <2>2, <3>2, <3>3
  <2> QED BY <2>1, <2>2
<1>9. pmValue' \in {0, 1}
  BY DEF WholeInv, PartsInv
<1>10. PartsInv'
  BY <1>7, <1>8, <1>9, Zenon DEF PartsInv
<1> QED BY <1>5, <1>6, <1>10 DEF WholeInv

(* Nothing of the collection moves. *)
LEMMA CollectionRests ==
    ASSUME WholeInv, UNCHANGED <<wlStep, section, wlRequest, overrides>>, pmValue' \in {0, 1},
           pmStep = "done" => UNCHANGED <<pmStep, pmValue, pmLabels>>
    PROVE  WholeInv'
<1>1. StageInv'
  BY Zenon DEF WholeInv, StageInv, SectionSet
<1>2. PartsInv'
  BY DEF WholeInv, PartsInv
<1>3. section' = section => \A i \in DOMAIN SectionNames : Append5(SectionNames[i])' = Append5(SectionNames[i])
  BY Zenon DEF Append5, Shared
<1>4. SentInv'
  BY <1>3, Zenon DEF WholeInv, SentInv, Append5, Shared
<1> QED BY <1>1, <1>2, <1>4 DEF WholeInv

(* The pacemaker routine has its step. *)
LEMMA ClusterIsDescribed ==
    ASSUME WholeInv, pmStep \notin {"idle", "done"}, PacemakerNext, UNCHANGED wlVars
    PROVE  WholeInv'
<1>1. UNCHANGED <<wlStep, section, wlRequest, overrides>>
  BY DEF wlVars
<1>2. pmValue' = pmValue \/ pmValue' = 0 \/ pmValue' = 1
  <2>1. \A from, next, api : CheckAPIAccess(from, next, api) => pmValue' = pmValue
    BY Zenon DEF CheckAPIAccess, PmKept
  <2>2. \/ pmValue' = pmValue \/ pmValue' = 0 \/ pmValue' = 1
    BY <2>1, Zenon DEF PacemakerNext, ClusterMoves, CollectPacemaker, ReadXML, GetBearerToken, MaintenanceLabel, HealthLabel,
         CollectASCSInstance, CollectEnqueueServer, CollectGroups, CollectVirtualIP, Prune, ReturnLabels, PmKept
  <2> QED BY <2>2
<1>3. pmValue' \in {0, 1}
  BY <1>2 DEF WholeInv, PartsInv
<1> QED BY <1>1, <1>3, CollectionRests

(* The cluster's section is written with what the description of the cluster has come to. *)
LEMMA ClusterIsWritten ==
    ASSUME WholeInv, CorosyncSection
    PROVE  WholeInv'
<1>1. /\ wlStep["corosync"] = "pacemaker" /\ wlStep' = [wlStep EXCEPT !["corosync"] = "done"] /\ pmStep = "done"
      /\ UNCHANGED <<wlRequest, overrides, pmStep, pmValue, pmLabels>>
  BY DEF CorosyncSection, WlAt, Rest, pmVars
<1> DEFINE cluster1 == [value |-> pmValue, labels |-> pmLabels]
           totem == [value |-> 1, labels |-> [totem |-> "value"]]
           corosync == IF pmValue = 0 THEN NoSection ELSE totem
<1>2. section' = [section EXCEPT !["pacemaker"] = cluster1, !["corosync"] = corosync]
  BY Zenon DEF CorosyncSection
<1>3. "value" \in DOMAIN cluster1 /\ "labels" \in DOMAIN cluster1
  OBVIOUS
<1>4. "value" \in DOMAIN corosync /\ "labels" \in DOMAIN corosync /\ corosync.value = pmValue
  <2>1. pmValue \in {0, 1}
    BY DEF WholeInv, PartsInv
  <2>2. "value" \in DOMAIN NoSection /\ "labels" \in DOMAIN NoSection /\ NoSection.value = 0
    BY DEF NoSection
  <2>3. "value" \in DOMAIN totem /\ "labels" \in DOMAIN totem /\ totem.value = 1
    OBVIOUS
  <2> HIDE DEF totem
  <2> QED BY <2>1, <2>2, <2>3
<1> HIDE DEF corosync
<1>5. /\ DOMAIN section' = SectionSet /\ section'["corosync"] = corosync /\ section'["pacemaker"] = cluster1
      /\ \A q \in SectionSet : q # "corosync" /\ q # "pacemaker" => section'[q] = section[q]
  <2> HIDE DEF cluster1
  <2> QED BY <1>2, TheSections DEF WholeInv, StageInv
<1>6. \A q \in SectionSet : "value" \in DOMAIN section'[q] /\ "labels" \in DOMAIN section'[q]
  BY <1>3, <1>4, <1>5, Zenon DEF WholeInv, StageInv
<1>7. /\ DOMAIN wlStep' = Routines /\ \A q \in Routines : q # "corosync" => wlStep'[q] = wlStep[q]
      /\ wlStep'["corosync"] = "done"
  BY <1>1, TheSections DEF WholeInv, StageInv
<1>8. wlStep["collection"] = "waiting" /\ wlStep'["collection"] = "waiting"
  <2>1. wlStep["collection"] # "idle"
    BY <1>1, TheSections DEF WholeInv, StageInv
  <2>2. wlStep["collection"] # "sent"
    BY <1>1, TheSections DEF WholeInv, SentInv
  <2> QED BY <1>7, <2>1, <2>2, TheSections DEF WholeInv, StageInv
<1>9. StageInv'
  BY <1>1, <1>5, <1>6, <1>7, <1>8, Zenon DEF WholeInv, StageInv, SectionSet
<1>10. wlStep'["system"] = wlStep["system"] /\ section'["system"] = section["system"]
  BY <1>5, <1>7, TheSections
<1>11. PartsInv'
  BY <1>1, <1>4, <1>5, <1>10 DEF WholeInv, PartsInv
<1>12. SentInv'
  BY <1>8, Zenon DEF SentInv
<1> QED BY <1>9, <1>11, <1>12 DEF WholeInv

(* The collection begins. *)
LEMMA CollectionBegins ==
    ASSUME WholeInv, CollectMetrics
    PROVE  WholeInv'
<1>1. wlStep["collection"] = "idle" /\ UNCHANGED <<section, overrides>>
  BY DEF CollectMetrics
<1>2. \A r \in Routines \ {"collection"} : wlStep[r] = ""
  BY <1>1 DEF WholeInv, StageInv
<1>3. CASE /\ overrides # <<>> /\ wlStep' = [wlStep EXCEPT !["collection"] = "sent"]
           /\ wlRequest' = [i \in DOMAIN Parsed(overrides) |-> Detail(Parsed(overrides)[i].type, Parsed(overrides)[i])]
           /\ UNCHANGED pmVars
  <2>1. DOMAIN wlStep' = Routines /\ wlStep'["collection"] = "sent" /\ \A r \in Routines \ {"collection"} : wlStep'[r] = ""
    BY <1>2, <1>3, TheSections DEF WholeInv, StageInv
  <2>2. StageInv'
    BY <1>1, <2>1, Zenon DEF WholeInv, StageInv, SectionSet
  <2>3. wlStep'["system"] = "" /\ wlStep'["corosync"] = "" /\ pmValue' = pmValue
    BY <1>3, <2>1, TheSections DEF pmVars
  <2>4. PartsInv'
    BY <2>3 DEF WholeInv, PartsInv
  <2>5. SentInv'
    BY <1>1, <1>3, <2>1, Zenon DEF SentInv
  <2> QED BY <2>2, <2>4, <2>5 DEF WholeInv
<1>4. CASE /\ overrides = <<>>
           /\ wlStep' = [r \in Routines |-> CASE r = "collection" -> "waiting" [] r = "corosync" -> "pacemaker" [] OTHER -> "start"]
           /\ CollectPacemaker
  <2>1. DOMAIN wlStep' = Routines /\ wlStep'["collection"] = "waiting" /\ wlStep'["system"] = "start" /\ wlStep'["corosync"] = "pacemaker"
    BY <1>4, TheSections
  <2>2. StageInv'
    BY <1>1, <1>4, <2>1, Zenon DEF WholeInv, StageInv, SectionSet
  <2>3. pmValue' = 0
    BY <1>4 DEF CollectPacemaker
  <2>4. PartsInv'
    BY <2>1, <2>3 DEF PartsInv
  <2>5. SentInv'
    BY <2>1, Zenon DEF SentInv
  <2> QED BY <2>2, <2>4, <2>5 DEF WholeInv
<1> QED BY <1>3, <1>4, Zenon DEF CollectMetrics

(* The request is put together. *)
LEMMA RequestIsSent ==
    ASSUME WholeInv, SendRequest
    PROVE  WholeInv'
<1>1. /\ wlStep["collection"] = "waiting" /\ wlStep' = [wlStep EXCEPT !["collection"] = "sent"]
      /\ \A r \in Routines \ {"collection"} : wlStep[r] = "done"
      /\ wlRequest' = [i \in DOMAIN SectionNames |-> Detail(SectionNames[i], Append5(SectionNames[i]))]
      /\ UNCHANGED <<section, overrides, pmStep, pmValue, pmLabels>>
  BY DEF SendRequest, WlAt, pmVars
<1>2. overrides = <<>>
  BY <1>1 DEF WholeInv, StageInv
<1>3. DOMAIN wlStep' = Routines /\ wlStep'["collection"] = "sent" /\ \A r \in Routines \ {"collection"} : wlStep'[r] = wlStep[r]
  BY <1>1, TheSections DEF WholeInv, StageInv
<1>4. StageInv'
  BY <1>1, <1>3, Zenon DEF WholeInv, StageInv, SectionSet
<1>5. PartsInv'
  <2>1. wlStep'["system"] = wlStep["system"] /\ wlStep'["corosync"] = wlStep["corosync"]
    BY <1>3, TheSections
  <2> QED BY <1>1, <2>1 DEF WholeInv, PartsInv
<1>6. SentInv'
  <2>1. \A r \in Routines \ {"collection"} : wlStep'[r] = "done"
    BY <1>1, <1>3
  <2>2. wlRequest' = ([i \in DOMAIN SectionNames |-> Detail(SectionNames[i], Append5(SectionNames[i]))])'
    BY <1>1, Zenon DEF Append5, Shared
  <2> QED BY <1>1, <1>2, <2>1, <2>2, Zenon DEF SentInv
<1> QED BY <1>4, <1>5, <1>6 DEF WholeInv

(* The routines of the other sections. *)
LEMMA RoutinesGoOn ==
    ASSUME WholeInv,
           \/ SystemRoles \/ SystemZones \/ NetweaverSection \/ CustomSection
           \/ HANAStart \/ HANAVolumes \/ HANAZones \/ HANARole \/ HANARegions \/ HANATenants \/ HANASuccesses \/ HANACommands
    PROVE  WholeInv'
<1>1. UNCHANGED <<wlRequest, overrides, pmStep, pmValue, pmLabels>>
  BY DEF SystemRoles, SystemZones, NetweaverSection, CustomSection, HANAStart, HANAVolumes, HANAZones, HANARole, HANARegions,
         HANATenants, HANASuccesses, HANACommands, Rest, pmVars
<1>2. CASE SystemRoles
  <2> DEFINE new == [instance_name |-> Here, os |-> "os", has_app_server |-> HasRole("APP"),
                     has_ascs |-> HasRole("ASCS"), has_ers |-> HasRole("ERS")]
  <2>1. WlAt("system", "start", "zones") /\ Label("system", new)
    BY <1>2, Zenon DEF SystemRoles
  <2>2. "instance_name" \in DOMAIN new /\ new["instance_name"] = Here
    OBVIOUS
  <2> HIDE DEF new
  <2>3. Working("system") /\ Wrote("system", new) /\ wlStep' = [wlStep EXCEPT !["system"] = "zones"]
    BY <2>1, Zenon DEF WlAt, Working, Wrote
  <2> QED BY <1>1, <2>2, <2>3, RoutineGoesOn DEF Writes
<1>3. CASE SystemZones
  <2>1. PICK settings \in {"pass", "fail", ""} :
          Close("system", 1, [app_server_zonal_separation |-> ZonalSeparation, os_settings |-> settings])
    BY <1>3, Zenon DEF SystemZones
  <2> DEFINE new == [app_server_zonal_separation |-> ZonalSeparation, os_settings |-> settings]
  <2>2. WlAt("system", "zones", "done")
    BY <1>3, Zenon DEF SystemZones
  <2>3. "instance_name" \notin DOMAIN new /\ Close("system", 1, new)
    BY <2>1
  <2> HIDE DEF new
  <2>4. Working("system") /\ wlStep["system"] = "zones" /\ Wrote("system", new) /\ wlStep' = [wlStep EXCEPT !["system"] = "done"]
    BY <2>2, <2>3, Zenon DEF WlAt, Working, Wrote
  <2> QED BY <1>1, <2>3, <2>4, RoutineGoesOn DEF Writes
<1>4. ASSUME NEW r \in {"hana", "netweaver", "custom"}, Working(r), NEW next, next # "", wlStep' = [wlStep EXCEPT ![r] = next],
             section' = section \/ (\E new : Label(r, new)) \/ (\E value, new : Close(r, value, new))
      PROVE  WholeInv'
  <2>1. PICK new : Writes(r, new)
    BY <1>4, Zenon DEF Writes, Wrote
  <2> QED BY <1>1, <1>4, <2>1, RoutineGoesOn
<1>5. CASE NetweaverSection
  <2>1. WlAt("netweaver", "start", "done") /\ \E value, new : Close("netweaver", value, new)
    BY <1>5, Zenon DEF NetweaverSection
  <2> QED BY <1>4, <2>1 DEF WlAt, Working
<1>6. CASE CustomSection
  <2>1. WlAt("custom", "start", "done") /\ \E value, new : Close("custom", value, new)
    BY <1>6, Zenon DEF CustomSection
  <2> QED BY <1>4, <2>1 DEF WlAt, Working
<1>7. CASE HANAStart \/ HANAVolumes \/ HANAZones \/ HANARole \/ HANARegions \/ HANATenants \/ HANASuccesses \/ HANACommands
  <2>1. section' = section \/ (\E new : Label("hana", new)) \/ (\E value, new : Close("hana", value, new))
    BY <1>7, Zenon DEF HANAStart, HANAVolumes, HANAZones, HANARole, HANARegions, HANATenants, HANASuccesses, HANACommands, Closing, Unread
  <2>2. \E from, next : from # "" /\ from # "done" /\ next # "" /\ wlStep["hana"] = from /\ wlStep' = [wlStep EXCEPT !["hana"] = next]
    BY <1>7, Zenon DEF HANAStart, HANAVolumes, HANAZones, HANARole, HANARegions, HANATenants, HANASuccesses, HANACommands, Closing, Unread, WlAt
  <2> QED BY <1>4, <2>1, <2>2, Zenon DEF Working
<1> QED BY <1>2, <1>3, <1>5, <1>6, <1>7

LEMMA WholeSteps ==
    ASSUME WholeInv, [SectionsNext]_SectionsVars
    PROVE  WholeInv'
<1>1. ASSUME UNCHANGED <<wlStep, section, wlRequest, overrides, pmVars>> PROVE WholeInv'
  <2>1. UNCHANGED <<wlStep, section, wlRequest, overrides, pmStep, pmValue, pmLabels>>
    BY <1>1 DEF pmVars
  <2>2. pmValue' \in {0, 1}
    BY <2>1 DEF WholeInv, PartsInv
  <2> QED BY <2>1, <2>2, CollectionRests
<1>2. CASE LandscapeMoves
  BY <1>1, <1>2 DEF LandscapeMoves
<1>3. CASE \E t \in Tenants : HANABackup(t)
  BY <1>1, <1>3 DEF HANABackup
<1>4. CASE SectionsVars' = SectionsVars
  BY <1>1, <1>4 DEF SectionsVars, wlVars
<1> QED BY <1>2, <1>3, <1>4, CollectionBegins, RequestIsSent, RoutinesGoOn, ClusterIsWritten, ClusterIsDescribed, Zenon DEF SectionsNext

LEMMA LengthOf ==
    ASSUME NEW n \in Nat, NEW f, f = [i \in 1..n |-> f[i]]
    PROVE  Len(f) = n
<1> DEFINE S == {f[i] : i \in 1..n}
<1>1. \A i \in 1..n : f[i] \in S
  OBVIOUS
<1> HIDE DEF S
<1>2. f \in [1..n -> S]
  BY <1>1
<1> QED BY <1>2

(* What is in a section of a request. *)
LEMMA SectionOfRequest ==
    ASSUME WholeInv, wlStep["collection"] = "sent", overrides = <<>>, NEW type \in SectionSet
    PROVE  \E i \in DOMAIN wlRequest :
             /\ wlRequest[i].type = type /\ wlRequest[i].labels["instance_name"] = Here
             /\ (wlRequest[i].present <=> section[type].value > 0)
             /\ DOMAIN section[type].labels \subseteq DOMAIN wlRequest[i].labels
             /\ \A k \in DOMAIN section[type].labels \ SharedSystemMetrics : wlRequest[i].labels[k] = section[type].labels[k]
<1>1. PICK i \in DOMAIN SectionNames : SectionNames[i] = type
  BY DEF SectionSet, ToSet
<1>2. wlRequest = [j \in DOMAIN SectionNames |-> Detail(SectionNames[j], Append5(SectionNames[j]))]
  BY DEF WholeInv, SentInv
<1>3. i \in DOMAIN wlRequest /\ wlRequest[i] = Detail(type, Append5(type))
  BY <1>1, <1>2
<1> DEFINE a == Append5(type)
           labels == section[type].labels
<1>4. wlRequest[i].type = type /\ (wlRequest[i].present <=> a.value > 0) /\ wlRequest[i].labels = a.labels
  <2> DEFINE there == a.value > 0
  <2>1. wlRequest[i] = [type |-> type, present |-> there, labels |-> a.labels]
    BY <1>3, Zenon DEF Detail, SectionSet
  <2> HIDE DEF a, there
  <2>2. wlRequest[i].type = type /\ wlRequest[i].present = there /\ wlRequest[i].labels = a.labels
    BY <2>1
  <2> QED BY <2>2, Zenon DEF there
<1>5. wlStep["system"] = "done"
  BY TheSections DEF WholeInv, SentInv
<1>6. "instance_name" \in DOMAIN section["system"].labels /\ section["system"].labels["instance_name"] = Here
  BY <1>5 DEF WholeInv, PartsInv
<1>7. CASE type = "system"
  <2>1. a = section[type]
    BY <1>7 DEF Append5
  <2> QED BY <1>3, <1>4, <1>6, <1>7, <2>1, Zenon
<1>8. CASE type # "system"
  <2>1. a = [section[type] EXCEPT !.labels = WrittenOver(Shared, labels)]
    BY <1>8 DEF Append5
  <2>2. "value" \in DOMAIN section[type] /\ "labels" \in DOMAIN section[type]
    BY DEF WholeInv, StageInv
  <2>3. a.value = section[type].value /\ a.labels = WrittenOver(Shared, labels)
    <3> HIDE DEF a
    <3> DEFINE over == WrittenOver(Shared, labels)
    <3>1. a = [section[type] EXCEPT !.labels = over]
      BY <2>1
    <3> HIDE DEF over
    <3>2. a.value = section[type].value /\ a.labels = over
      BY <2>2, <3>1
    <3> QED BY <3>2 DEF over
  <2>4. DOMAIN Shared \subseteq SharedSystemMetrics /\ "instance_name" \in DOMAIN Shared /\ Shared["instance_name"] = Here
    BY <1>6 DEF Shared, SharedSystemMetrics
  <2> HIDE DEF a, labels
  <2>5. /\ a.labels["instance_name"] = Here /\ DOMAIN labels \subseteq DOMAIN a.labels
        /\ \A k \in DOMAIN labels \ SharedSystemMetrics : a.labels[k] = labels[k]
    <3>1. DOMAIN a.labels = DOMAIN Shared \cup DOMAIN labels /\ a.labels["instance_name"] = Here
      BY <2>3, <2>4 DEF WrittenOver
    <3>2. \A k \in DOMAIN labels \ SharedSystemMetrics : k \notin DOMAIN Shared
      BY <2>4
    <3>3. \A k \in DOMAIN labels : k \notin DOMAIN Shared => a.labels[k] = labels[k]
      BY <2>3 DEF WrittenOver
    <3> QED BY <3>1, <3>2, <3>3
  <2>6. wlRequest[i].present <=> section[type].value > 0
    BY <1>4, <2>3, Zenon
  <2>7. /\ wlRequest[i].labels["instance_name"] = Here /\ DOMAIN labels \subseteq DOMAIN wlRequest[i].labels
        /\ \A k \in DOMAIN labels \ SharedSystemMetrics : wlRequest[i].labels[k] = labels[k]
    <3>1. wlRequest[i].labels = a.labels
      BY <1>4, Zenon
    <3> QED BY <2>5, <3>1, Zenon
  <2>8. wlRequest[i].type = type
    BY <1>4, Zenon
  <2> USE DEF labels
  <2> QED BY <1>3, <2>6, <2>7, <2>8, Zenon
<1> QED BY <1>7, <1>8

(* A request has every section once, as it was when its routine came to the end, for all
   orders in which the routines and the environment move; a file of overrides gives one
   section per metric it names (workloadcollector.go:280). *)
THEOREM RequestsAreWhole == SectionsSpec => []RequestIsWhole
<1>1. SectionsInit /\ PacemakerInit => WholeInv
  <2> SUFFICES ASSUME SectionsInit, PacemakerInit PROVE WholeInv
    OBVIOUS
  <2>1. /\ wlStep = [r \in Routines |-> IF r = "collection" THEN "idle" ELSE ""]
        /\ section = [s \in ToSet(SectionNames) |-> NoSection] /\ overrides \in Overrides
    BY DEF SectionsInit
  <2>2. DOMAIN wlStep = Routines /\ wlStep["collection"] = "idle" /\ \A r \in Routines \ {"collection"} : wlStep[r] = ""
    BY <2>1, TheSections
  <2>3. DOMAIN section = SectionSet /\ \A s \in SectionSet : "value" \in DOMAIN section[s] /\ "labels" \in DOMAIN section[s]
    BY <2>1 DEF SectionSet, NoSection
  <2>4. StageInv
    BY <2>1, <2>2, <2>3, Zenon DEF StageInv
  <2>5. wlStep["system"] = "" /\ wlStep["corosync"] = "" /\ pmValue = 0
    BY <2>2, TheSections DEF PacemakerInit
  <2>6. PartsInv
    BY <2>5 DEF PartsInv
  <2>7. SentInv
    BY <2>2, Zenon DEF SentInv
  <2> QED BY <2>4, <2>6, <2>7 DEF WholeInv
<1>2. WholeInv /\ [SectionsNext]_SectionsVars => WholeInv'
  BY WholeSteps
<1>3. WholeInv => RequestIsWhole
  <2> SUFFICES ASSUME WholeInv, wlStep["collection"] = "sent" PROVE RequestIsWhole
    BY Zenon DEF RequestIsWhole
  <2> DEFINE of(type) == {wlRequest[i] : i \in {j \in DOMAIN wlRequest : wlRequest[j].type = type}}
  <2>1. CASE overrides = <<>>
    <3>1. Len(wlRequest) = Len(SectionNames)
      <4>1. wlRequest = [j \in DOMAIN SectionNames |-> Detail(SectionNames[j], Append5(SectionNames[j]))]
        BY <2>1 DEF WholeInv, SentInv
      <4>2. DOMAIN SectionNames = 1..6 /\ Len(SectionNames) = 6
        BY DEF SectionNames
      <4>3. wlRequest = [j \in 1..6 |-> wlRequest[j]]
        BY <4>1, <4>2
      <4> QED BY <4>2, <4>3, LengthOf
    <3>2. ASSUME NEW type \in SectionSet
          PROVE  \E d \in of(type) :
                   /\ d.labels["instance_name"] = Here /\ (d.present <=> section[type].value > 0)
                   /\ DOMAIN section[type].labels \subseteq DOMAIN d.labels
                   /\ \A k \in DOMAIN section[type].labels \ SharedSystemMetrics : d.labels[k] = section[type].labels[k]
      BY <2>1, SectionOfRequest
    <3>3. wlStep["corosync"] = "done"
      BY <2>1, TheSections DEF WholeInv, SentInv
    <3>4. /\ pmStep = "done" /\ pmValue \in {0, 1} /\ section["corosync"].value = pmValue
          /\ section["pacemaker"].value = pmValue /\ section["pacemaker"].labels = pmLabels
      BY <3>3 DEF WholeInv, PartsInv
    <3> HIDE DEF of
    <3>5. (section["pacemaker"].value > 0 <=> pmStep = "done" /\ pmValue = 1) /\ (section["corosync"].value > 0 <=> section["pacemaker"].value > 0)
      BY <3>4
    <3>6. "pacemaker" \in SectionSet /\ "corosync" \in SectionSet
      BY TheSections
    <3>7. \E d \in of("pacemaker") : (d.present <=> pmStep = "done" /\ pmValue = 1) /\ DOMAIN pmLabels \subseteq DOMAIN d.labels
      BY <3>2, <3>4, <3>5, <3>6, Zenon
    <3>8. \E d \in of("corosync"), p \in of("pacemaker") : d.present <=> p.present
      BY <3>2, <3>5, <3>6, Zenon
    <3> QED BY <2>1, <3>1, <3>2, <3>7, <3>8, Zenon DEF RequestIsWhole, of, SectionSet
  <2>2. CASE overrides # <<>>
    <3>1. wlRequest = [i \in DOMAIN Parsed(overrides) |-> Detail(Parsed(overrides)[i].type, Parsed(overrides)[i])]
      BY <2>2 DEF WholeInv, SentInv
    <3>2. overrides \in Seq(ToSet(overrides))
      <4>1. Len(overrides) \in Nat /\ overrides = [i \in 1..Len(overrides) |-> overrides[i]]
        BY SectionsAssumption, Zenon DEF WholeInv, StageInv
      <4>2. \A i \in 1..Len(overrides) : overrides[i] \in ToSet(overrides)
        BY <4>1 DEF ToSet
      <4>3. overrides \in [1..Len(overrides) -> ToSet(overrides)]
        BY <4>1, <4>2
      <4> QED BY <4>1, <4>3
    <3>3. /\ IsSequence(Parsed(overrides))
          /\ Len(Parsed(overrides)) = Cardinality({i \in DOMAIN overrides : overrides[i].key = "metric" /\ overrides[i].value # ""})
      BY <3>2, ParsedIsWhole
    <3>4. wlRequest = [i \in 1..Len(Parsed(overrides)) |-> wlRequest[i]] /\ Len(Parsed(overrides)) \in Nat
      BY <3>1, <3>3 DEF IsSequence
    <3>5. Len(wlRequest) = Len(Parsed(overrides))
      BY <3>4, LengthOf
    <3> QED BY <2>2, <3>3, <3>5, Zenon DEF RequestIsWhole
  <2> QED BY <2>1, <2>2
<1> QED BY <1>1, <1>2, <1>3, PTL DEF SectionsSpec
================================================================================
