------------------------------ MODULE MCServer ------------------------------
(***************************************************************************)
(* TLC instance of Server: two discovery providers, two handlers, and      *)
(* diffs that add, replace (remove and add the same ID), remove what is    *)
(* there, and remove what is not.                                          *)
(***************************************************************************)
EXTENDS Server

CONSTANTS c1, p1, a1, task, r1, r2, d1, d2

OneComponent == {c1}
OneApp == {p1}
OneArea == {a1}
TheTask == {task}
TwoReaders == {r1, r2}
TwoProviders == {d1, d2}

Located == [host |-> c1, area |-> a1]
ComponentInArea == [c \in Components |-> {a1}]
AppOnComponent == [p \in Apps |-> {Located}]

AddAll == [remove |-> <<>>, components |-> << <<c1, a1>> >>,
           apps |-> << <<p1, Located>> >>, areas |-> <<a1>>]
Replace == [remove |-> <<ComponentRef(c1)>>, components |-> << <<c1, a1>> >>,
            apps |-> <<>>, areas |-> <<>>]
RemoveAll == [remove |-> <<AppRef(p1), ComponentRef(c1), AreaRef(a1)>>,
              components |-> <<>>, apps |-> <<>>, areas |-> <<>>]
SwapAreaForApp == [remove |-> <<AreaRef(a1)>>, components |-> <<>>,
                   apps |-> << <<p1, Located>> >>, areas |-> <<>>]

FourDiffs == {AddAll, Replace, RemoveAll, SwapAreaForApp}

=============================================================================
