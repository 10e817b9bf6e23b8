------------------------------ MODULE UnreadRing ------------------------------
(***************************************************************************)
(* The ring of the last three elements read, with a count of those that    *)
(* are unread: the lexer's reader keeps one of runes, the parser's         *)
(* bufScanner one of tokens.                                               *)
(***************************************************************************)
EXTENDS Integers

Slots == 3

\* A new ring; its slots hold the zero value.
EmptyRing(zero) == [buf |-> [k \in 0..Slots-1 |-> zero], i |-> 0, n |-> 0]

Rings(S) == [buf : [0..Slots-1 -> S], i : 0..Slots-1, n : Nat]

\* The k-th element before the last one that was stored, as long as k is less
\* than Slots.
At(ring, k) == ring.buf[(ring.i - k + Slots) % Slots]

Curr(ring) == At(ring, ring.n)

\* Mutant of Stored: the element is stored before the index moves.
StoredBefore(ring, e) ==
  [ring EXCEPT !.buf[ring.i] = e, !.i = (@ + 1) % Slots]

\* The element read from the source is stored in the next slot.
Stored(ring, e) ==
  LET j == (ring.i + 1) % Slots
  IN  [ring EXCEPT !.buf[j] = e, !.i = j]

\* An unread element is read again.
Reread(ring) == [ring EXCEPT !.n = @ - 1]

\* The last k elements are put back.
Unread(ring, k) == [ring EXCEPT !.n = @ + k]
=============================================================================
