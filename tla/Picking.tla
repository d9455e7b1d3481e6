------------------------------ MODULE Picking ------------------------------
(***************************************************************************)
(* What filter() leaves of an iterator, as a recursive function, which can *)
(* be proved about: the predicate is given by the places where it holds.   *)
(***************************************************************************)
EXTENDS Naturals, Sequences

(* The elements of s at some of its places, in their order.                 *)
Picked(s, places) ==
  LET upTo[n \in 0..Len(s)] ==
        IF n = 0 THEN <<>>
        ELSE IF n \in places THEN Append(upTo[n - 1], s[n])
        ELSE upTo[n - 1]
  IN upTo[Len(s)]

=============================================================================
