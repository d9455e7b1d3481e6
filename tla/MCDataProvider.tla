--------------------------- MODULE MCDataProvider ---------------------------
(***************************************************************************)
(* TLC instance of DataProvider: two IDs, two categories, two groups, one  *)
(* tag and up to two resources: enough for an ID to be registered twice,   *)
(* and for a group or a category to be shared, or to differ.               *)
(***************************************************************************)
EXTENDS DataProvider

CONSTANTS d1, d2, k1, k2, g1, g2, t1, x1

TwoIds == {d1, d2}
TwoCategories == {k1, k2}
TwoGroups == {g1, g2}
OneTag == {t1}
OneTranslation == {x1}
SomeGroupLists == {<<g1>>, <<g2, g1>>, <<g1, g1>>}
SomeTagLists == {<<t1>>}

=============================================================================
