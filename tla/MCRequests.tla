----------------------------- MODULE MCRequests -----------------------------
(***************************************************************************)
(* TLC instance of Requests: one component with a data provider and one    *)
(* app without, a reader and an administrator, and a call for each way a   *)
(* request may end.                                                        *)
(***************************************************************************)
EXTENDS Requests

CONSTANTS c1, p1, w1, r1, r2, user, admin, stranger,
          readOnly, writeOnly, readWrite, missing, k1, k2, g1

OneComponent == {c1}
OneApp == {p1}
OneWriter == {w1}
TwoRequests == {r1, r2}
NoLinks == [c \in Components |-> {NoArea}]
AppOnComponent == [p \in Apps |-> {[host |-> c1, area |-> NoArea]}]

AllDataIds == {readOnly, writeOnly, readWrite, missing}
TwoCategories == {k1, k2}
OneGroup == {g1}

Resource(id, adapter) ==
  [id |-> id, category |-> IF id = readOnly THEN k2 ELSE k1,
   groups |-> IF id = writeOnly THEN <<>> ELSE <<g1>>, tags |-> <<>>, translation |-> NoTranslation,
   readable |-> adapter # "WriteOnlyAdapter", writable |-> adapter # "ReadOnlyAdapter",
   adapter |-> adapter]

ComponentHasData ==
  [ref \in EntityRefs |->
    IF ref = ComponentRef(c1)
    THEN <<Resource(readOnly, "ReadOnlyAdapter"), Resource(writeOnly, "WriteOnlyAdapter"),
           Resource(readWrite, "ReadWriteAdapter")>>
    ELSE NoProvider]

WhoIsWho == [c \in {user, admin, stranger} |-> IF c = stranger THEN NoIdentity ELSE c]
UsersRead == {<<user, "GET">>, <<admin, "GET">>, <<admin, "PUT">>}

Get(who, ref, id) ==
  [credential |-> who, method |-> "GET", target |-> ref, of |-> "data/{data_id}", data |-> id,
   wellFormed |-> TRUE, typed |-> TRUE]
Put(who, ref, id) == [Get(who, ref, id) EXCEPT !.method = "PUT"]

GetList(who, of) == [Get(who, ComponentRef(c1), missing) EXCEPT !.of = of]

SomeCalls ==
  {Put(stranger, ComponentRef(c1), readWrite),
   [Put(user, ComponentRef(c1), missing) EXCEPT !.wellFormed = FALSE],
   Get(user, ComponentRef(c1), readWrite),
   Get(user, AppRef(p1), readOnly), Put(admin, ComponentRef(c1), readWrite),
   [Put(admin, ComponentRef(c1), readWrite) EXCEPT !.wellFormed = FALSE],
   [Put(admin, ComponentRef(c1), writeOnly) EXCEPT !.typed = FALSE],
   GetList(user, "data"), GetList(user, "data-categories")}

=============================================================================
