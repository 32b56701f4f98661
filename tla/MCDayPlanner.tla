---------------------------- MODULE MCDayPlanner ----------------------------
(* Three places with every combination of a menu of documents, on a few    *)
(* networks of travel times, an evening that ends at 22 or at midnight,    *)
(* and the first place named once or twice.                                *)
EXTENDS DayPlanner

Doc(priority, visit, from, to, dated, hours, located) ==
  [priority |-> priority, visit |-> visit, from |-> from, to |-> to,
   dated |-> dated, hours |-> hours, located |-> located]

Period(open, close, overnight) == [open |-> open, close |-> close, overnight |-> overnight]

MCDocs ==
  { Doc("must_see", 1, Never, Never, FALSE, {}, TRUE),
    Doc("must_see", 2, Never, 21, TRUE, {Period(17, 19, FALSE), Period(20, 2, TRUE)}, TRUE),
    Doc("normal", 1, Never, Never, TRUE, {Period(19, Never, FALSE)}, TRUE),
    Doc("normal", 2, 18, 23, FALSE, {}, TRUE),
    Doc("optional", 1, Never, 20, FALSE, {}, TRUE),
    Doc("optional", 1, Never, Never, TRUE, {}, TRUE),
    Doc("normal", 1, Never, Never, FALSE, {}, FALSE) }

Pairs == {ab \in Node \X Node : ab[1] # ab[2] /\ ab[2] # Start /\ ab[1] # End}
Distance(a, b) == IF a < b THEN b - a ELSE a - b

(* On a line; all alike; one way costs more; the line with legs missing.   *)
MCLegs ==
  { [ab \in Pairs |-> Distance(ab[1], ab[2]) \div 2],
    [ab \in Pairs |-> 1],
    [ab \in Pairs |-> (2 * ab[1] + ab[2]) % 3],
    [ab \in Pairs \ {<<1, 2>>, <<2, 1>>, <<1, 3>>} |-> (ab[1] + ab[2]) % 2],
    [ab \in {cd \in Pairs : 2 \notin {cd[1], cd[2]} /\ cd # <<3, End>>} |-> 1] }

MCProblems ==
  [copies : {[p \in Places |-> IF p = 1 THEN k ELSE 1] : k \in 1..2},
   docs : [Places -> MCDocs], legs : MCLegs, day_start : {17}, day_end : {22, 24},
   start_anchor : BOOLEAN, end_anchor : BOOLEAN]
=============================================================================
