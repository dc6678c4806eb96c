--------------------------- MODULE UniqueRegistry ---------------------------
(***************************************************************************)
(* What CATalog promises: each asset id is claimed at most once, by one    *)
(* owner, and a claim is never changed or withdrawn.                       *)
(***************************************************************************)
CONSTANTS AssetIds, Owners

VARIABLE claimed   \* set of [key, owner]

Init == claimed = {}

Claim(k, o) ==
    /\ \A c \in claimed : c.key # k
    /\ claimed' = claimed \cup {[key |-> k, owner |-> o]}

Next == \E k \in AssetIds, o \in Owners : Claim(k, o)

Spec == Init /\ [][Next]_claimed
=============================================================================
