-------------------------- MODULE MCExecutorAudit ---------------------------
EXTENDS ExecutorAudit

CONSTANTS acme, acme_dev

\* acme, and acme.dev below it.
MCNamespace == {acme, acme_dev}
MCParent == [n \in {acme_dev} |-> acme]

\* Bounds the scan of two roles to what it reads: states in which the child
\* has roles of its own, a namespace has users or bob has roles elsewhere are
\* checked and not explored further.
ScanFocus ==
  /\ users = [n \in Namespace |-> NS!NoUsers]
  /\ roles[acme_dev] = {}
  /\ \A u \in User : joined[u] \subseteq {acme}
=============================================================================
