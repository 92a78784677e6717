------------------------------ MODULE MCServers ------------------------------
(* Three servers: a dealer, which is the proxy, between two others.          *)
EXTENDS Servers

Study(two, one, three) ==
  [proxy |-> 2, roles |-> << {one}, {two}, {three} >>, vertical |-> << 1, 0, 2 >>]
MCStudies == {Study("dealer", "dataowner", "dataowner"), Study("dealer", "dataowner", "recipient")}
Query(id, valid) == [study |-> 1, analyst |-> 0, id |-> id, verticals |-> {1, 2}, valid |-> valid]
\* The second delivery repeats the first if that one broke.
Once == {<< Query(1, TRUE), Query(1, TRUE) >>, << Query(1, FALSE) >>}
Twice == {<< Query(1, TRUE), Query(2, TRUE) >>}
==============================================================================
