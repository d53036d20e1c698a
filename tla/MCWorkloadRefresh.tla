--------------------------- MODULE MCWorkloadRefresh ---------------------------
(* Instances of WorkloadRefresh for TLC: two agent definitions, one of them with a
   metric for a newer agent, and three local ones: one overlaps with the agent's
   metrics, one does not load, and one adds to a section the agent's lack. *)
EXTENDS WorkloadRefresh

MCAgentVersion == <<3, 8, 0>>

Pool == [id : {1}, sec : {"hana", "custom"}, list : Lists, key : {"a", "b", "c", "d"}, vendor : {"ALL"},
         ver : {<<>>, <<3, 9>>}, good : {"yes", "no"}]

Metric(sec, list, key, ver, good) ==
    {m \in Pool : m.sec = sec /\ m.list = list /\ m.key = key /\ m.ver = ver /\ m.good = good}

MCAgentDefinitions ==
    {Metric("hana", "fixed", "a", <<>>, "yes"),
     Metric("hana", "os", "a", <<>>, "yes") \cup Metric("hana", "eval", "b", <<3, 9>>, "yes")}

MCLocalDefinitions ==
    {Metric("hana", "eval", "a", <<>>, "yes") \cup Metric("hana", "index", "c", <<>>, "yes"),
     Metric("hana", "eval", "d", <<>>, "no"),
     Metric("custom", "os", "b", <<>>, "yes")}

================================================================================
