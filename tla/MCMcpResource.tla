--------------------------- MODULE MCMcpResource ---------------------------
(***************************************************************************)
(* TLC instances of McpResource: one component, one app, one area, and a   *)
(* discovery provider that adds, removes and swaps them.                   *)
(***************************************************************************)
EXTENDS McpResource

CONSTANTS c1, p1, a1, task, rc, rp, ra, d1

OneComponent == {c1}
OneApp == {p1}
OneArea == {a1}
TheTask == {task}
ThreeRequests == {rc, rp, ra}
OneProvider == {d1}

ListedKind == [r \in ThreeRequests |->
  IF r = rc THEN "component" ELSE IF r = rp THEN "app" ELSE "area"]

Located == [host |-> c1, area |-> a1]
ComponentInArea == [c \in Components |-> {a1}]
AppOnComponent == [p \in Apps |-> {Located}]

AddComponentInArea == [remove |-> <<>>, components |-> << <<c1, a1>> >>,
                       apps |-> <<>>, areas |-> <<a1>>]
AreaForApp == [remove |-> <<AreaRef(a1)>>, components |-> <<>>,
               apps |-> << <<p1, Located>> >>, areas |-> <<>>]
SomeDiffs == {AddComponentInArea, AreaForApp}

=============================================================================
