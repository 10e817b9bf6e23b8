-------------------------------- MODULE MCSerf --------------------------------
(***************************************************************************)
(* A server and a member it follows.                                       *)
(***************************************************************************)
EXTENDS Serf

CONSTANTS a, c

MCObserver == {a}
MCServer == a
MCSubject == c
=============================================================================
