------------------------- MODULE MCRewardDistributor -------------------------
(* Small instances of RewardDistributor for TLC. *)
EXTENDS RewardDistributor, TLC

CONSTANTS h, g, a, b

Req(c, who, asset, csv, epoch) ==
    [cmd |-> c, who |-> who, asset |-> asset, csv |-> csv, epoch |-> epoch]

Ask(c) == Req(c, h, a, 1, 0)

\* A holder with two assets, one of another wallet, two versions of the whitelist, and commits to
\* this epoch, the next and one off the grid.
Stakes == {Req("stake", h, i, v, 0) : i \in {a, b}, v \in {1}}
SmallWorkloads ==
    {[kind |-> "nft", opened |-> TRUE, time |-> 1, commands |-> 5,
      requests |-> Stakes \cup {Ask("unstake")}],
     [kind |-> "cat", opened |-> FALSE, time |-> 2, commands |-> 4,
      requests |-> Stakes \cup {Ask("unstake"), Ask("new_epoch")}],
     [kind |-> "curated", opened |-> TRUE, time |-> 1, commands |-> 4,
      requests |-> {Ask("stake"), Req("stake", h, b, 1, 0), Req("stake", h, b, 2, 0), Req("refresh", h, a, 2, 0),
                    Ask("unstake"), Ask("datastore_update")}],
     [kind |-> "managed", opened |-> TRUE, time |-> 3, commands |-> 3,
      requests |-> {Ask("add_entry"), Ask("remove_entry"), Ask("sync"), Ask("stake")}],
     [kind |-> "nft", opened |-> FALSE, time |-> 3, commands |-> 3,
      requests |-> {Ask("new_epoch"), Ask("commit_available"), Ask("clawback"), Ask("add_rewards")}
                   \cup {Req("commit_rewards", h, a, 1, e) : e \in {2, 3}}],
     [kind |-> "nft", opened |-> TRUE, time |-> 4, commands |-> 3,
      requests |-> {Ask("stake"), Ask("payout"), Req("payout", g, a, 1, 0), Ask("sync"), Ask("new_epoch")}]}

\* The first asset gains weight, the second one loses all of it.
SmallListed == <<a :> 1 @@ b :> 2, a :> 3 @@ b :> 0>>
=============================================================================
