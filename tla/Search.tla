------------------------------- MODULE Search -------------------------------
(***************************************************************************)
(* What the recovery of a function's control flow promises, whatever the   *)
(* order of its work list and however it cuts the code into blocks: to     *)
(* search a graph from its roots, visiting each node once, and to say that *)
(* it is finished only when nothing it has seen is left out.               *)
(***************************************************************************)
VARIABLES
  graph,     \* the nodes each node leads to
  roots,
  visited,
  status     \* "searching", "finished" or "cut"

vars == <<graph, roots, visited, status>>

Found == roots \cup UNION {graph[a] : a \in visited}

Init == visited = {} /\ status = "searching"

Visit ==
  /\ status = "searching"
  /\ \E a \in Found \ visited : visited' = visited \cup {a}
  /\ UNCHANGED <<graph, roots, status>>

Finish ==
  /\ status = "searching"
  /\ Found \subseteq visited
  /\ status' = "finished"
  /\ UNCHANGED <<graph, roots, visited>>

\* A limit ends the search.
Cut ==
  /\ status = "searching"
  /\ status' = "cut"
  /\ UNCHANGED <<graph, roots, visited>>

Next == Visit \/ Finish \/ Cut

Spec == Init /\ [][Next]_vars
=============================================================================
