-------------------------- MODULE MCProjectServices --------------------------
(* ProjectServices on a small project: the values of its constants. *)
EXTENDS ProjectServices

BoardTask(id, st, due, needs, criteria) ==
    [id |-> id, status |-> st, due |-> due, evidence |-> 1, criteria |-> criteria, needs |-> needs]

MCInitialTasks == {BoardTask("t1", "in_progress", 0, {}, FALSE), BoardTask("t2", "not_started", NoDate, {"t1"}, TRUE)}

MCDomainOf == [p \in Payloads |-> "d"]

MCDocOrder == <<"da", "db">>

MCTimeToLive == [index |-> 1, report |-> 0]

MCPartOf == [db |-> Database, vec |-> Vectors]

MCChunkDoc == <<"da", "db">>

\* A short paragraph is repeated at the end of a longer one.
MCSizeOf == [short |-> 60, ends |-> 450, long |-> 500, longer |-> 900]

MCOccurs ==
    [t \in DOMAIN MCSizeOf |-> [u \in DOMAIN MCSizeOf |->
        IF t = u THEN MCSizeOf[t] ELSE IF <<t, u>> = <<"short", "ends">> THEN 62 ELSE 0]]

TableRow(title, assignee, deadline, criteria, hints, found, says) ==
    [title |-> title, assignee |-> assignee, deadline |-> deadline, criteria |-> criteria,
     hints |-> hints, found |-> found, says |-> says]

Sayings == {{"done", "report"}, {"done", "partial"}, {"cancel"}, {"done", "c1", "report"},
            {"done", "partial", "w1", "w2", "c1", "report"}, {"done", "partial", "c1"}}

MCTaskRows ==
    {TableRow("", "x", NoDeadline, {}, {}, FALSE, {}), TableRow("t", "", NoDeadline, {}, {}, FALSE, {})}
    \cup {TableRow("t", "x", d, c, {"report"}, TRUE, s) : d \in {-1, 3}, c \in {{}, {"c1", "c2"}}, s \in Sayings}
    \cup {TableRow("t", "x", d, {"c2"}, {}, FALSE, {}) : d \in {-1, 4, NoDeadline}}

MCCriterionWords == [c1 |-> {"w1"}, c2 |-> {"w1", "w2"}]

MCCaseKinds ==
    {[category |-> "cross_doc", relevant |-> {"d1", "d2", "d3"}, refuse |-> FALSE, expects |-> FALSE],
     [category |-> "factual", relevant |-> {"d1"}, refuse |-> FALSE, expects |-> TRUE],
     [category |-> "no_answer", relevant |-> {}, refuse |-> TRUE, expects |-> FALSE]}

MCDefaultCases ==
    [id \in {"q1"} |-> [category |-> "factual", relevant |-> {"d1"}, refuse |-> FALSE, expects |-> TRUE]]
=============================================================================
