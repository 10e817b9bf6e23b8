-------------------------------- MODULE Tomb --------------------------------
(***************************************************************************)
(* What a tomb of gopkg.in/tomb.v2 remembers: why its goroutines are to    *)
(* end, or that they are not.  Which of them still run is for the modules  *)
(* that use a tomb to say.                                                 *)
(***************************************************************************)

Reason == {"alive", "nil", "eof", "err"}

\* Kill(reason): the first call makes the tomb dying, and the first error
\* that is not nil is kept.
Killed(tomb, reason) == IF tomb \in {"alive", "nil"} THEN reason ELSE tomb

Dying(tomb) == tomb # "alive"
=============================================================================
