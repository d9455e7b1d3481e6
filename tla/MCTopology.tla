----------------------------- MODULE MCTopology -----------------------------
(***************************************************************************)
(* TLC instances of Topology.  Every ID has one set of links.              *)
(***************************************************************************)
EXTENDS Topology

CONSTANTS c1, p1, a1, w1, w2, r1

OneComponent == {c1}
OneApp == {p1}
OneArea == {a1}
TwoWriters == {w1, w2}
OneReader == {r1}

ComponentInArea == [c \in Components |-> {CHOOSE l \in AreaLink : l # NoArea}]
AppOnComponent == [p \in Apps |-> {[host |-> c1, area |-> NoArea]}]

=============================================================================
