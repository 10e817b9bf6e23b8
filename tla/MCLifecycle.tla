---------------------------- MODULE MCLifecycle ----------------------------
EXTENDS Lifecycle

\* One name for the server's key and for the admin's.
MCName == {"admin"}
=============================================================================
