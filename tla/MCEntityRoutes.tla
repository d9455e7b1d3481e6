--------------------------- MODULE MCEntityRoutes ---------------------------
(***************************************************************************)
(* TLC instance of EntityRoutes: two components, one area and one app, any *)
(* of which may be announced again with any other links, and components    *)
(* and app with or without data.  Component and app have one tag each.     *)
(***************************************************************************)
EXTENDS EntityRoutes

CONSTANTS c1, c2, p1, a1, t1, t2

TwoComponents == {c1, c2}
OneApp == {p1}
OneArea == {a1}

(* Nothing tells one component from the other.                             *)
Interchangeable == Permutations(TwoComponents)

FreeComponentLinks == [c \in Components |-> AreaLink]
FreeAppLinks == [p \in Apps |-> AppLink]

SomeTags == [e \in EntityPaths |-> IF e[1] = "apps" THEN {t1} ELSE {t2}]
FourQueries == [wellFormed : {TRUE}, tags : {{}, {t1}, {t2}}]
                 \union {[wellFormed |-> FALSE, tags |-> {}]}

=============================================================================
