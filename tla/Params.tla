------------------------------- MODULE Params -------------------------------
(***************************************************************************)
(* How a transport reads its configuration (params.c), and what it does    *)
(* with the endpoints of a transport without naming (bindOrConnect).       *)
(*                                                                         *)
(* "properties" is a record of what mama.properties says about the         *)
(* transport; a property that is not there is Unset.  Numbers are          *)
(* themselves.  An endpoint is a record of its scheme and of whether it    *)
(* holds a "*".  Intervals, addresses and log levels change no control     *)
(* flow and are left out.                                                  *)
(***************************************************************************)
EXTENDS Integers, Sequences, FiniteSetsExt

CONSTANTS Unset,
          DefaultRetries, MinRetries   \* of naming.connect_retries: 100 and 10

ASSUME ParamsAssumption ==
    /\ DefaultRetries \in Nat /\ MinRetries \in Nat
    /\ MinRetries <= DefaultRetries

\* getParameter
Parameter(value, default) == IF value = Unset THEN default ELSE value

-----------------------------------------------------------------------------
\* Plausible errors in the definitions that follow.

GetIntUnbounded(value, default, min) == Parameter(value, default)

-----------------------------------------------------------------------------
\* getInt: a negative value counts as 0, and 0 ("off") is never raised to the
\* minimum.  Every minimum in the code is at least 0.
GetInt(value, default, min) ==
    LET temp == Parameter(value, default) IN
    IF temp <= 0 THEN 0 ELSE Max({temp, min})

\* parseCommonParams; the code tests for mIsNaming == 1 and mSocketMonitor != 0.
IsNaming(properties) == GetInt(properties.is_naming, 1, 0) = 1
SocketMonitor(properties) == GetInt(properties.socket_monitor, 1, 0) # 0

\* parseNamingParams
NamingWaitForConnect(properties) == GetInt(properties.wait_for_connect, 1, 0) = 1
NamingConnectRetries(properties) ==
    GetInt(properties.connect_retries, DefaultRetries, MinRetries)

-----------------------------------------------------------------------------
\* Endpoints: urls.bare is incoming_url or outgoing_url, urls.numbered those with
\* _0, _1, ...

Tcp(wildcard) == [scheme |-> "tcp", wildcard |-> wildcard]

\* DEFAULT_PUB_..._URL and DEFAULT_SUB_..._URL
DefaultIncoming == Tcp(FALSE)
DefaultOutgoing == Tcp(TRUE)

\* parseNonNamingParams: numbered endpoints are read up to the first that is
\* missing, and _0 takes the place of the bare one.
Addresses(urls, default) ==
    LET missing == {i \in 1..Len(urls.numbered) : urls.numbered[i] = Unset}
        read == SubSeq(urls.numbered, 1, Min(missing \cup {Len(urls.numbered) + 1}) - 1)
    IN  IF read = <<>> THEN <<Parameter(urls.bare, default)>> ELSE read

\* bindOrConnect: what it does with the socket.  A TCP endpoint with a "*" is bound,
\* and so is the outgoing end of an IPC endpoint.
BindOrConnect(url, direction) ==
    CASE url.scheme \notin {"tcp", "epgm", "pgm", "ipc"} -> "invalid"
      [] url.scheme = "tcp" /\ url.wildcard -> "bind"
      [] url.scheme = "ipc" /\ direction = "outgoing" -> "bind"
      [] OTHER -> "connect"

\* What init does with the endpoints of a transport without naming.
Attachments(properties) ==
    LET outgoing == Addresses(properties.outgoing, DefaultOutgoing)
        incoming == Addresses(properties.incoming, DefaultIncoming)
    IN  {BindOrConnect(outgoing[i], "outgoing") : i \in 1..Len(outgoing)}
            \cup {BindOrConnect(incoming[i], "incoming") : i \in 1..Len(incoming)}
=============================================================================
