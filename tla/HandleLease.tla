----------------------------- MODULE HandleLease -----------------------------
(***************************************************************************)
(* What XCHandles promises its users, with no coins, slots, prices or      *)
(* neighbours: a handle is leased to one owner until a deadline.  It can   *)
(* be claimed while nobody has it, taken over only after its deadline, and *)
(* while it runs it can only be lengthened or handed over.                 *)
(***************************************************************************)
EXTENDS Integers

CONSTANTS Handles, Owners

VARIABLES lease,   \* partial function: handle -> [owner, resolved, until]
          now

vars == <<lease, now>>

Terms == [owner : Owners, resolved : Owners, until : Nat]

Init == lease = [h \in {} |-> 0] /\ now = 0

OthersKeep(h) ==
    /\ DOMAIN lease' = DOMAIN lease \cup {h}
    /\ \A k \in DOMAIN lease \ {h} : lease'[k] = lease[k]
    /\ lease'[h] \in Terms
    /\ UNCHANGED now

Claim(h) == h \notin DOMAIN lease /\ OthersKeep(h)

Takeover(h) ==
    /\ lease[h].until <= now
    /\ OthersKeep(h)

Renew(h) ==
    /\ now < lease[h].until
    /\ OthersKeep(h)
    /\ lease[h].until < lease'[h].until
    /\ lease'[h] = [lease[h] EXCEPT !.until = lease'[h].until]

HandOver(h) ==
    /\ now < lease[h].until
    /\ OthersKeep(h)
    /\ lease'[h].until = lease[h].until

Tick ==
    /\ now' \in Nat /\ now < now'
    /\ UNCHANGED lease

Next ==
    \/ \E h \in Handles : Claim(h)
    \/ \E h \in DOMAIN lease : Takeover(h) \/ Renew(h) \/ HandOver(h)
    \/ Tick

Spec == Init /\ [][Next]_vars
=============================================================================
