---------------------------- MODULE MCMembership ----------------------------
EXTENDS Membership

CONSTANTS a, b, x, y, p, q, ours, theirs

Server(cluster, port, bootstrap) ==
  [server |-> TRUE, cluster |-> cluster, port |-> port, bootstrap |-> bootstrap]

\* a may be restarted with another port and to bootstrap; both may be configured
\* for another cluster; and a may have no port.
MCTags ==
  [n \in Node |->
     {Server(ours, p, FALSE), Server(theirs, p, FALSE)} \cup
     IF n = a THEN {Server(ours, q, TRUE), Server(ours, "missing", FALSE)}
              ELSE {}]

\* a has an address of its own, which b may take over or share.
Homes == [n \in Node |-> IF n = a THEN {x} ELSE {x, y}]
=============================================================================
