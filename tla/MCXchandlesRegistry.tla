------------------------ MODULE MCXchandlesRegistry ------------------------
(* Small instances of XchandlesRegistry for TLC. *)
EXTENDS XchandlesRegistry

StateA == [maker |-> "cat1", pricing |-> "factor", expired |-> "premium"]
StateB == [maker |-> "cat2", pricing |-> "factor", expired |-> "premium"]

Commit(k, pricing, cur, buy, o, price) ==
    [key |-> k, pricedKey |-> k, maker |-> "cat1", pricing |-> pricing,
     buyTime |-> buy, curExp |-> cur, time |-> 2,
     owner |-> o, resolved |-> o, price |-> price]

\* Two rivals for handle 1, a bid for handle 1 once its first lease has
\* expired, and a registration of its neighbour.
AuctionPrecommits ==
    [r1 |-> Commit(1, "factor", 0, 0, "alice", "exact"),
     r2 |-> Commit(1, "factor", 0, 0, "bob", "exact"),
     e1 |-> Commit(1, "premium", 2, 2, "bob", "exact"),
     n2 |-> Commit(2, "factor", 0, 0, "alice", "exact")]

\* One handle whose owner keeps starting updates while it may expire and be
\* taken over.
UpdatePrecommits ==
    [r1 |-> [Commit(1, "factor", 0, 0, "alice", "exact") EXCEPT !.time = 3],
     e1 |-> Commit(1, "premium", 3, 3, "bob", "exact")]

OneState == {StateA}
TwoStates == {StateA, StateB}
AuctionOffers == DOMAIN AuctionPrecommits
UpdateOffers == DOMAIN UpdatePrecommits
=============================================================================
