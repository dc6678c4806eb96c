------------------------- MODULE MCCatalogRegistry -------------------------
(* Small instances of CatalogRegistry for TLC. *)
EXTENDS CatalogRegistry

StateA == [maker |-> "cat1", price |-> 1]
StateB == [maker |-> "cat1", price |-> 2]
StateC == [maker |-> "cat2", price |-> 1]
ThreeStates == {StateA, StateB, StateC}

Commit(k, maker, amount, o) ==
    [key |-> k, maker |-> maker, amount |-> amount, owner |-> o]

\* Rivals for asset 2, its two neighbours-to-be, and coins that fit only
\* before or only after a price or CAT change.
MixedPrecommits ==
    [a2 |-> Commit(2, "cat1", 1, "alice"),
     b2 |-> Commit(2, "cat1", 2, "bob"),
     a1 |-> Commit(1, "cat1", 1, "alice"),
     c3 |-> Commit(3, "cat2", 1, "bob"),
     b3 |-> Commit(3, "cat1", 1, "bob")]
MixedOffers == DOMAIN MixedPrecommits
=============================================================================
