-------------------------- MODULE MCTopologyState --------------------------
(***************************************************************************)
(* TLC instances of TopologyState: two components, two areas and one app.  *)
(* "Free": an ID may be announced again with any other links.  "Stable":   *)
(* every ID has one set of links.                                          *)
(***************************************************************************)
EXTENDS TopologyState

CONSTANTS c1, c2, p1, a1, a2

TwoComponents == {c1, c2}
OneApp == {p1}
TwoAreas == {a1, a2}

FreeComponentLinks == [c \in Components |-> AreaLink]
FreeAppLinks == [p \in Apps |-> AppLink]

StableComponentLinks == [c \in Components |-> IF c = c1 THEN {a1} ELSE {a2}]
StableAppLinks == [p \in Apps |-> {[host |-> c1, area |-> a2]}]

=============================================================================
