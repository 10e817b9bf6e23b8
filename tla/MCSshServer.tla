----------------------------- MODULE MCSshServer -----------------------------
EXTENDS SshServer

CONSTANTS c1, h1, h2

\* All channels on the first connection.
AllOnOne == [h \in Channel |-> c1]

\* Two messages, on the first channel only.
Two == [h \in Channel |-> IF h = h1 THEN 2 ELSE 0]
=============================================================================
