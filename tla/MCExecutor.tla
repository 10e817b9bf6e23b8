----------------------------- MODULE MCExecutor -----------------------------
EXTENDS Executor

CONSTANTS acme, acme_dev

\* acme, and acme.dev below it.
MCNamespace == {acme, acme_dev}
MCParent == [n \in {acme_dev} |-> acme]
=============================================================================
