------------------------ MODULE MCRegistrationClient ------------------------
(* Small instances of RegistrationClient for TLC. *)
EXTENDS RegistrationClient

Job(k, named, lease, asks, pace, bounds) ==
    [kind |-> k, price |-> "p", named |-> named, lease |-> lease, owner |-> <<"a", 1>>, asks |-> asks,
     pace |-> pace, blocks |-> bounds[1], moves |-> bounds[2], reprices |-> bounds[3], payments |-> bounds[4]]

\* A free name two people want, a name that lapses and that its owner may
\* extend, an asset of CATalog with and without a given amount, and a name
\* whose owner changes it.
Jobs ==
    {Job("register", TRUE, 0, {"a", "b"}, {1}, <<6, 0, 0, 1>>),
     Job("register", TRUE, 0, {"a"}, {0, 2}, <<4, 1, 1, 2>>),
     Job("expire", TRUE, 2, {"a", "b"}, {1}, <<4, 0, 0, 2>>),
     Job("expire", TRUE, 2, {"b"}, {2}, <<4, 1, 1, 1>>),
     Job("catalog", TRUE, 0, {"a", "b"}, {1}, <<5, 0, 1, 1>>),
     Job("catalog", FALSE, 0, {"a"}, {1}, <<5, 1, 2, 2>>),
     Job("register", TRUE, 6, {}, {1}, <<6, 3, 0, 0>>)}

\* CATalog's command without an amount.
Repeat == {Job("catalog", FALSE, 0, {"a"}, {1}, <<5, 0, 1, 2>>)}
=============================================================================
