----------------------------- MODULE MCMultisig -----------------------------
\* Instances of Multisig: a registry of each kind whose schedule is unrolled,
\* vaults with competing proposals, and coins that carry the launcher's hint.
EXTENDS Multisig

CONSTANTS p1, p2, k1, k2, k3

Config(m, ks) == [m |-> m, keys |-> ks]

\* Two scheduled states, then a vault that goes back to the first one.
Scheduler(receiver) ==
    [receiver |-> receiver, schedule |-> <<[time |-> 1, state |-> "x"], [time |-> 2, state |-> "y"]>>,
     config |-> Config(1, <<k1>>), first |-> "w", things |-> {State("x")}, hints |-> {},
     time |-> 2, moves |-> 2, drops |-> 1, sigs |-> 1, spends |-> 3]

\* A two-of-two vault with two proposals for a state.
Vault ==
    [receiver |-> "catalog", schedule |-> <<>>, config |-> Config(2, <<k1, k2>>), first |-> "w",
     things |-> {State("x"), State("y")}, hints |-> {},
     time |-> 0, moves |-> 0, drops |-> 0, sigs |-> 4, spends |-> 2]

\* Entries of a distributor whose epochs end.
Managed ==
    [receiver |-> "distributor", schedule |-> <<>>, config |-> Config(1, <<k1, k2>>), first |-> "w",
     things |-> {Entry("add", "x"), Entry("remove", "x")}, hints |-> {},
     time |-> 0, moves |-> 1, drops |-> 0, sigs |-> 2, spends |-> 2]

\* Another vault with one of the same keys, and an unreadable coin, carry the
\* launcher's hint.
Hinted ==
    [receiver |-> "catalog", schedule |-> <<>>, config |-> Config(1, <<k1>>), first |-> "w",
     things |-> {State("x")}, hints |-> {[vault |-> v, config |-> Config(1, <<k2, k1>>)] : v \in BOOLEAN},
     time |-> 0, moves |-> 0, drops |-> 0, sigs |-> 2, spends |-> 2]

\* A vault that is rekeyed; one of the proposals is refused.
Rekeyed ==
    [receiver |-> "xchandles", schedule |-> <<>>, config |-> Config(1, <<k1, k2>>), first |-> "w",
     things |-> {State("x"), Rekey(Config(1, <<k3, k1>>)), Rekey(Config(2, <<k3>>))},
     hints |-> {},
     time |-> 0, moves |-> 0, drops |-> 1, sigs |-> 3, spends |-> 2]

MCWorkloads == {Scheduler("xchandles"), Scheduler("catalog"), Vault, Managed, Hinted, Rekeyed}
=============================================================================
