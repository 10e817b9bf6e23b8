----------------------------- MODULE HistoryRing -----------------------------
(***************************************************************************)
(* stRingBuffer, the terminal's ring of lines that were entered, in the    *)
(* version kappa's terminal has: lines can be taken back.  slot is the     *)
(* slice entries, of max lines; max is 0 until the slice is made.          *)
(***************************************************************************)
EXTENDS Integers, Sequences

CONSTANT DefaultEntries   \* defaultNumEntries, 100 in the code

ASSUME DefaultEntriesAssumption == DefaultEntries \in Nat \ {0, 1}

\* The zero value of a line.
NoLine == <<>>

NoRing == [slot |-> <<>>, head |-> 0, size |-> 0, max |-> 0]

\* Go's %, which takes the sign of its left operand.
Rem(a, m) == IF a < 0 THEN -((-a) % m) ELSE a % m

Made(max) ==
  [slot |-> [i \in 0..(max - 1) |-> NoLine], head |-> 0, size |-> 0, max |-> max]

Put(r, a) ==
  LET head == Rem(r.head + 1, r.max) IN
  [r EXCEPT !.head = head, !.slot[head] = a,
            !.size = IF @ < r.max THEN @ + 1 ELSE @]

\* Add: an empty line is not kept.
Add(r, a) ==
  CASE a = NoLine -> r
    [] a # NoLine /\ r.max = 0 -> Put(Made(DefaultEntries), a)
    [] OTHER -> Put(r, a)

\* Load into a new ring.
Loaded(lines) ==
  LET n == Len(lines)
      max == IF 2 * n < DefaultEntries THEN DefaultEntries ELSE 2 * n
      r[i \in 0..n] == IF i = 0 THEN Made(max) ELSE Add(r[i - 1], lines[i])
  IN IF n = 0 THEN NoRing ELSE r[n]

\* Mutant of RemoveLast: the head stays on the first slot.
RemoveLastOrStay(r) == [r EXCEPT !.head = IF @ = 0 THEN 0 ELSE @ - 1]

\* The head steps back, to -1 from the first slot; the size stays.
RemoveLast(r) == [r EXCEPT !.head = Rem(@ - 1, r.max)]

\* Where NthPreviousEntry looks, and what it finds.
Index(r, n) == IF r.head - n < 0 THEN r.head - n + r.max ELSE r.head - n
Has(r, n) == n < r.size
NthPreviousEntry(r, n) == r.slot[Index(r, n)]
=============================================================================
