---------------------------- MODULE MCPeerSession ----------------------------
EXTENDS ExternalDelivery

CONSTANTS r1, c1, d1, r2, p1, p2, p3

\* A chain of three tasks over two peers, whose last depends on both others, and a
\* job that comes from outside.
MCNodes == {r1, c1, d1, r2}
MCParent == [n \in MCNodes |-> CASE n = c1 -> r1 [] n = d1 -> c1 [] OTHER -> None]
MCNeeds == [n \in MCNodes |-> CASE n = c1 -> {r1} [] n = d1 -> {r1, c1} [] OTHER -> {}]
MCJob == [n \in MCNodes |-> IF n = r2 THEN r2 ELSE r1]
MCHome == [n \in MCNodes |-> IF n \in {c1, r2} THEN p2 ELSE p1]
MCScheduled == {p2}
MCExternal == {r2}
MCFlows == {<<p1, p2>>}
MCLimits == [tasks |-> 3, outbound |-> 4, gets |-> 4, inference |-> 3]
=============================================================================
