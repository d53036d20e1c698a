----------------------------- MODULE HANAInsights -----------------------------
(* HANA insights (internal/hanainsights): rules are read and validated, the queries
   of each are brought into an order, and the engine runs them against the database,
   with the results of a global rule at hand, and evaluates the recommendations. *)
EXTENDS Naturals, Sequences, FiniteSets, SequencesExt

CONSTANTS
    RuleFiles,      \* the rules in the order of their files
    Rule,           \* [file -> [id, queries, deps, refs, scalars, dup, cond, force]]: the queries (names),
                    \* the queries each depends on, the queries the one trigger of the rule refers to,
                    \* those it wants one value of, whether two queries have one name or two
                    \* recommendations one ID, how the references are combined, and whether the
                    \* recommendation is forced
    MaxRows         \* rows a query returns at most

Knowledge == "knowledgebase"

ASSUME HANAInsightsAssumption ==
    /\ MaxRows \in Nat /\ RuleFiles \in Seq(ToSet(RuleFiles))
    /\ \A f \in ToSet(RuleFiles) :
         /\ Rule[f].cond \in {"AND", "OR"}
         /\ IsFiniteSet(Rule[f].queries) /\ \A q \in Rule[f].queries : IsFiniteSet(Rule[f].deps[q])

VARIABLES
    ruleFiles,      \* the files still to read
    ruleIDs,        \* IDs of rules that were looked at
    globalKeys,     \* the queries of the global rule
    ruleGraph,      \* of the rule being ordered: the nodes not yet visited, or None
    readyQueries,   \* zeroEdgeNodes
    queryOrder,     \* the order so far
    validRules,     \* the rules that are valid, with the order of their queries
    stage,          \* what is done: read, global, rules, end, panicked
    ruleAt,         \* the number of the rule that is run
    kb,             \* [query -> number of rows its columns hold], the knowledge base being built
    gkb,            \* the global one
    toRun,          \* the queries of this rule that are still to run
    answered,       \* the queries of the global rule that were answered to the last row
    queriesRan,     \* [rule -> its queries that ran with success and filled the knowledge base]
    insights        \* [rule -> result of its recommendation and the values there were]

readVars == <<ruleFiles, ruleIDs, globalKeys>>
orderVars == <<ruleGraph, readyQueries, queryOrder, validRules>>
insVars == <<readVars, orderVars, stage, ruleAt, kb, gkb, toRun, answered, queriesRan, insights>>

NoGraph == [nodes |-> {}, file |-> "none"]
NoValues == << >>

InsightsInit ==
    /\ ruleFiles = RuleFiles /\ ruleIDs = {} /\ globalKeys = {}
    /\ ruleGraph = NoGraph /\ readyQueries = << >> /\ queryOrder = << >> /\ validRules = << >>
    /\ stage = "read" /\ ruleAt = 0 /\ kb = NoValues /\ gkb = NoValues /\ toRun = << >> /\ answered = << >>
    /\ queriesRan = NoValues /\ insights = NoValues

PutValue(f, k, v) == [x \in DOMAIN f \cup {k} |-> IF x = k THEN v ELSE f[x]]

------------------------------------------------------------------------------
(* validateRule: the ID is new, names are unique, and the trigger refers to queries
   of the rule or of the global one; the ID counts even if the rest is not valid. *)
IsValid(f) ==
    /\ Rule[f].id \notin ruleIDs /\ ~Rule[f].dup
    /\ Rule[f].refs \subseteq Rule[f].queries \cup (IF Rule[f].id = Knowledge THEN Rule[f].queries ELSE globalKeys)

(* prepareGraph: the queries and all they depend on are nodes. *)
GraphNodes(f) == Rule[f].queries \cup UNION {Rule[f].deps[q] : q \in Rule[f].queries}
Needs(f, q) == IF q \in Rule[f].queries THEN Rule[f].deps[q] ELSE {}

(* ReadRules, one file: a rule that is not valid is left out. *)
ReadRule ==
    /\ stage = "read" /\ ruleGraph = NoGraph /\ ruleFiles # << >>
    /\ LET f == Head(ruleFiles) IN
         /\ ruleFiles' = Tail(ruleFiles)
         /\ globalKeys' = IF Rule[f].id = Knowledge THEN Rule[f].queries ELSE globalKeys
         /\ ruleIDs' = ruleIDs \cup {Rule[f].id}
         /\ IF IsValid(f)
              THEN /\ ruleGraph' = [nodes |-> GraphNodes(f), file |-> f] /\ queryOrder' = << >>
                   /\ readyQueries' \in SetToSeqs({q \in GraphNodes(f) : Needs(f, q) = {}})
              ELSE UNCHANGED <<ruleGraph, queryOrder, readyQueries>>
    /\ UNCHANGED <<validRules, stage, ruleAt, kb, gkb, toRun, answered, queriesRan, insights>>

(* Mutant: a query is ready with the first of the queries it depends on. *)
VisitQueryEarly ==
    /\ ruleGraph # NoGraph /\ readyQueries # << >>
    /\ LET node == Head(readyQueries)
           left == ruleGraph.nodes \ {node}
           freed == {q \in left : node \in Needs(ruleGraph.file, q) /\ q \notin ToSet(readyQueries)}
       IN /\ ruleGraph' = [ruleGraph EXCEPT !.nodes = left]
          /\ queryOrder' = Append(queryOrder, node)
          /\ \E s \in SetToSeqs(freed) : readyQueries' = Tail(readyQueries) \o s
    /\ UNCHANGED <<readVars, validRules, stage, ruleAt, kb, gkb, toRun, answered, queriesRan, insights>>

(* QueryExecutionOrder, one node: what depended on nothing else is ready next. *)
VisitQuery ==
    /\ ruleGraph # NoGraph /\ readyQueries # << >>
    /\ LET node == Head(readyQueries)
           left == ruleGraph.nodes \ {node}
           freed == {q \in left : node \in Needs(ruleGraph.file, q) /\ Needs(ruleGraph.file, q) \cap left = {}}
       IN /\ ruleGraph' = [ruleGraph EXCEPT !.nodes = left]
          /\ queryOrder' = Append(queryOrder, node)
          /\ \E s \in SetToSeqs(freed) : readyQueries' = Tail(readyQueries) \o s
    /\ UNCHANGED <<readVars, validRules, stage, ruleAt, kb, gkb, toRun, answered, queriesRan, insights>>

(* The number of the visited nodes is compared with that of the queries. The comment of
   QueryExecutionOrder promises an error for a cycle (preprocessor.go:232-233); but
   every name that no query of the rule has is a node that is visited, and as many of
   these as a cycle leaves out hide the cycle. *)
Ordered ==
    /\ ruleGraph # NoGraph /\ readyQueries = << >>
    /\ validRules' = IF Len(queryOrder) = Cardinality(Rule[ruleGraph.file].queries)
                  THEN Append(validRules, [file |-> ruleGraph.file, order |-> queryOrder]) ELSE validRules
    /\ ruleGraph' = NoGraph
    /\ UNCHANGED <<readVars, readyQueries, queryOrder, stage, ruleAt, kb, gkb, toRun, answered, queriesRan, insights>>

------------------------------------------------------------------------------
(* Run: the first rule of that ID builds the global knowledge base. *)
Globals == {i \in DOMAIN validRules : Rule[validRules[i].file].id = Knowledge}

StartEngine ==
    /\ stage = "read" /\ ruleGraph = NoGraph /\ ruleFiles = << >> /\ validRules # << >>
    /\ stage' = "global" /\ kb' = NoValues /\ answered' = << >>
    /\ IF Globals = {} THEN ruleAt' = 0 /\ toRun' = << >>
       ELSE \E i \in Globals : (\A j \in Globals : i <= j) /\ ruleAt' = i /\ toRun' = validRules[i].order
    /\ UNCHANGED <<readVars, orderVars, gkb, queriesRan, insights>>

RowsOf(q) == IF q \in DOMAIN kb THEN kb[q] ELSE 0
Current == validRules[ruleAt].file
RanBefore == IF Current \in DOMAIN queriesRan THEN queriesRan[Current] ELSE << >>
Asks == stage \in {"global", "rules"} /\ toRun # << >> /\ Head(toRun) \in Rule[Current].queries

(* buildKnowledgeBase, one query: its rows are appended to what is there already;
   without a row one empty value is. *)
RunQuery ==
    /\ Asks
    /\ \E n \in 0..MaxRows :
         kb' = PutValue(kb, Head(toRun), RowsOf(Head(toRun)) + (IF n = 0 THEN 1 ELSE n))
    /\ toRun' = Tail(toRun)
    /\ answered' = IF stage = "global" THEN Append(answered, Head(toRun)) ELSE answered
    /\ queriesRan' = IF stage = "global" THEN queriesRan
                   ELSE PutValue(queriesRan, Current, Append(RanBefore, Head(toRun)))
    /\ UNCHANGED <<readVars, orderVars, stage, ruleAt, gkb, insights>>

(* Mutant: the rules share one knowledge base. *)
NextRuleShares(i) ==
    IF i > Len(validRules) THEN stage' = "end" /\ UNCHANGED <<ruleAt, kb, toRun>>
    ELSE stage' = "rules" /\ ruleAt' = i /\ kb' = kb /\ toRun' = validRules[i].order

(* deepCopy: every rule begins with what the global one found. *)
NextRule(i) ==
    IF i > Len(validRules) THEN stage' = "end" /\ UNCHANGED <<ruleAt, kb, toRun>>
    ELSE stage' = "rules" /\ ruleAt' = i /\ kb' = gkb /\ toRun' = validRules[i].order

GlobalEnds ==
    /\ stage = "global" /\ toRun = << >>
    /\ gkb' = kb /\ stage' = "rules" /\ ruleAt' = 1 /\ kb' = kb /\ toRun' = validRules[1].order
    /\ UNCHANGED <<readVars, orderVars, answered, queriesRan, insights>>

(* A node of the graph that is no query was put in the order as nil: to run it is
   a panic. The numbers agree only if as many queries are left out by a cycle: the
   engine ends so on a rule whose cycle was not found. *)
RunNil ==
    /\ stage \in {"global", "rules"} /\ toRun # << >> /\ Head(toRun) \notin Rule[Current].queries
    /\ stage' = "panicked"
    /\ UNCHANGED <<ruleAt, readVars, orderVars, kb, gkb, toRun, answered, queriesRan, insights>>

(* A query that fails, at once or at a row, leaves out the rule with all its values;
   the global rule ends with what it has, the rows before the failing one included. *)
QueryFails ==
    /\ Asks
    /\ \/ /\ stage = "global" /\ toRun' = << >> /\ UNCHANGED <<stage, ruleAt>>
          /\ \E n \in 0..MaxRows : kb' = IF n = 0 THEN kb ELSE PutValue(kb, Head(toRun), RowsOf(Head(toRun)) + n)
       \/ stage = "rules" /\ NextRule(ruleAt + 1)
    /\ UNCHANGED <<readVars, orderVars, gkb, answered, queriesRan, insights>>

(* insertFromKB and compare: a reference without a value, or a scalar one with
   more than one, makes the comparison false, whatever is compared. *)
LeafResults(f, q) ==
    IF q \in DOMAIN kb /\ (q \in Rule[f].scalars => kb[q] = 1) THEN BOOLEAN ELSE {FALSE}

EvaluateTrigger(f) ==
    {IF Rule[f].cond = "AND" THEN \A q \in Rule[f].refs : v[q] ELSE \E q \in Rule[f].refs : v[q]
       : v \in {w \in [Rule[f].refs -> BOOLEAN] : \A q \in Rule[f].refs : w[q] \in LeafResults(f, q)}}

BuildInsights ==
    /\ stage = "rules" /\ toRun = << >>
    /\ \E r \in (IF Rule[Current].force THEN {TRUE} ELSE EvaluateTrigger(Current)) :
         insights' = PutValue(insights, Current, [result |-> r, rows |-> [q \in Rule[Current].refs |-> RowsOf(q)]])
    /\ NextRule(ruleAt + 1)
    /\ UNCHANGED <<readVars, orderVars, gkb, answered, queriesRan>>

InsightsNext ==
    ReadRule \/ VisitQuery \/ Ordered \/ StartEngine \/ RunQuery \/ RunNil \/ GlobalEnds \/ QueryFails \/ BuildInsights

InsightsSpec == InsightsInit /\ [][InsightsNext]_insVars

------------------------------------------------------------------------------
(* An insight stands on what its own rule asked: each of its queries ran with
   success, after all the queries it depends on; and a recommendation that holds
   without being forced refers, if all references are to hold, to nothing but
   queries of its rule and to global values. Those are not all whole: of one global
   query at most, the one that failed, the rows before the failure are there, and no
   query that was answered depends on it. The values are those of one run of a query,
   of a rule that has no query of a global one's name: none is left from another rule. *)
InsightIsGrounded(f) ==
    /\ Rule[f].queries # {} =>
         /\ f \in DOMAIN queriesRan /\ ToSet(queriesRan[f]) = Rule[f].queries
         /\ \A i \in DOMAIN queriesRan[f] : Rule[f].deps[queriesRan[f][i]] \subseteq {queriesRan[f][j] : j \in 1..(i - 1)}
    /\ insights[f].result /\ ~Rule[f].force /\ Rule[f].cond = "AND" => Rule[f].refs \subseteq Rule[f].queries \cup DOMAIN gkb
    /\ Rule[f].queries \cap DOMAIN gkb = {} =>
         \A q \in Rule[f].refs : insights[f].rows[q] <= IF MaxRows = 0 THEN 1 ELSE MaxRows
GlobalsAreGrounded ==
    /\ \A g \in Globals, i \in DOMAIN answered :
         Rule[validRules[g].file].deps[answered[i]] \subseteq {answered[j] : j \in 1..(i - 1)}
    /\ \A p, q \in DOMAIN gkb \ ToSet(answered) : p = q
InsightsAreGrounded == GlobalsAreGrounded /\ \A f \in DOMAIN insights : InsightIsGrounded(f)
==============================================================================
