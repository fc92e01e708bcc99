------------------------- MODULE MCWebSocketServer -------------------------
EXTENDS WebSocketServer

CONSTANTS c1, m1, p1

Claims(type, pools, expires) ==
    [intact |-> TRUE, member |-> m1, type |-> type, pools |-> pools, expires |-> expires]
Ask(path, token) == [path |-> path, token |-> token]
\* A member with a pool, a token without exp, one as createJwt
\* writes it, a node and a wrong path.
MCRequests ==
    {Ask("client", Claims("user", {p1}, 1)), Ask("client", Claims("none", {}, None)),
     Ask("client", Claims("text", {p1}, 1)),
     Ask("node", Claims("none", {}, None)), Ask("other", Claims("none", {}, None))}
\* One event that reaches the member: what reaches nobody has an empty list.
MCEvents == {[kind |-> "pool:changed", tier |-> "PoolScoped", pool |-> p1, member |-> None]}
=============================================================================
