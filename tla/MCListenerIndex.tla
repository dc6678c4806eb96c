--------------------------- MODULE MCListenerIndex ---------------------------
(* Small instances of ListenerIndex for TLC. *)
EXTENDS ListenerIndex

CONSTANTS alice, bob

B(kind, key, owner, resolved, tag) ==
    [kind |-> kind, key |-> key, owner |-> owner, resolved |-> resolved, tag |-> tag]

\* Two neighbouring handles and two launchers.
SmallBlocks ==
    {B("own", 0, alice, alice, 0),
     B("register", 1, alice, alice, 0), B("register", 2, alice, bob, 0), B("touch", 1, Nobody, Nobody, 0),
     B("initiate", 1, bob, bob, 0), B("execute", 1, bob, bob, 0)}

\* A handle is registered, or has changed hands and its former owner moves on,
\* before the listener starts.
SmallStarts ==
    {<<B("own", 0, alice, alice, 0), B("register", 1, alice, alice, 0)>>,
     <<B("register", 1, alice, alice, 0), B("expire", 1, bob, bob, 0), B("own", 0, alice, alice, 0)>>}
=============================================================================
