--------------------------- MODULE MCRegistrySync ---------------------------
(* Small instances of RegistrySync for TLC. *)
EXTENDS RegistrySync

Use(k, procs, names, actions, stops) ==
    [kind |-> k, procs |-> procs, names |-> names, actions |-> actions, crashes |-> stops]

\* One process that is stopped twice, for either registry, and two processes
\* that are not stopped.
SmallUses ==
    {Use(k, {"listener"}, Names, 2, 2) : k \in {"xchandles", "catalog"}}
    \cup {Use("xchandles", {"listener", "command"}, {1}, 1, 0)}
=============================================================================
