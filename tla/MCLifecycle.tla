---------------------------- MODULE MCLifecycle ----------------------------
(***************************************************************************)
(* Lifecycle for TLC: configurations with and without naming, with the     *)
(* values at which the code's tests change their outcome.                  *)
(***************************************************************************)
EXTENDS Lifecycle

Urls(bare, numbered) == [bare |-> bare, numbered |-> numbered]
NoUrls == Urls(Unset, <<>>)
Pgm == [scheme |-> "pgm", wildcard |-> FALSE]
Ipc == [scheme |-> "ipc", wildcard |-> FALSE]
Other == [scheme |-> "other", wildcard |-> FALSE]

Naming(monitor, wait, retries) ==
    [is_naming |-> Unset, socket_monitor |-> monitor, wait_for_connect |-> wait,
     connect_retries |-> retries, outgoing |-> NoUrls, incoming |-> NoUrls]

MCNaming ==
    {Naming(Unset, Unset, Unset), Naming(Unset, 0, Unset),
     Naming(0, Unset, 1), Naming(0, Unset, -1)}

MCNonNaming ==
    [is_naming : {0, 2}, socket_monitor : {Unset, 0}, wait_for_connect : {Unset},
     connect_retries : {Unset},
     outgoing : {NoUrls, Urls(Other, <<Ipc>>), Urls(Pgm, <<Unset, Other>>)},
     incoming : {NoUrls, Urls(Ipc, <<Tcp(FALSE), Other>>)}]

MCConfigurations == MCNaming \cup MCNonNaming
=============================================================================
