----------------------------- MODULE MCRunStore -----------------------------
(* RunStore on small instances. *)
EXTENDS RunStore, TLC

\* /users/12 and /users/34 are one place, /orders another.
UserPlaces   == {"/users/12", "/users/34", "/orders"}
Collapsed    == [p \in UserPlaces |-> IF p = "/orders" THEN p ELSE "/users/12"]
OwnPlace     == [p \in Places |-> p]

\* Ids are interchangeable.
IdSymmetry == Permutations(Runs) \cup Permutations(Tasks)
                \cup Permutations(Surfaces) \cup Permutations(FindingIds)

\* Claims a worker may make: any ids, counts and plan size within the model's.
SmallClaims ==
    [planned: 1..Cardinality(Items), ids: SUBSET FindingIds,
     count: [Severities -> 0..Cardinality(FindingIds)], clean: BOOLEAN]
=============================================================================
