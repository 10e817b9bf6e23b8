------------------------------ MODULE CommaList ------------------------------
(***************************************************************************)
(* The lists the data model stores as one comma separated value: the users *)
(* of a namespace, the permissions of a role, the roles of a user.         *)
(*                                                                         *)
(* A list is a function from its possible elements to their number of      *)
(* copies: appending never looks for an element that is already there, so  *)
(* copies accumulate, and no caller can see the order.  Names contain no   *)
(* comma.  Empty is the empty string, which may be an element.             *)
(***************************************************************************)
EXTENDS Naturals

CONSTANT Empty

NoEntries(S) == [x \in S |-> 0]

\* What strings.Split and the loops over it find in a list.
Entries(list) == {x \in DOMAIN list : list[x] > 0}

\* strings.Join writes one empty string as the empty value, which every reader
\* takes for the empty list (len(...) > 0); any other list is read back as
\* it was written.
ReadsEmpty(list) == Entries(list) = {Empty} /\ list[Empty] = 1

Stored(list) == IF ReadsEmpty(list) THEN NoEntries(DOMAIN list) ELSE list

\* Join(old value, Join(xs)): one more copy of each, whatever is there.  An
\* append of no elements at all appends strings.Join(nil) = "".
Appended(list, xs) ==
  LET new == IF xs = {} THEN {Empty} ELSE xs
  IN  Stored([x \in DOMAIN list |-> IF x \in new THEN list[x] + 1 ELSE list[x]])

\* Mutant of Filtered: the loop stops at the first match.
FilteredOnce(list, x) == Stored([list EXCEPT ![x] = IF @ > 0 THEN @ - 1 ELSE @])

\* The filter loops of RemoveUser, RevokePermission and RemoveRole.
Filtered(list, x) == Stored([list EXCEPT ![x] = 0])

\* The bound on copies: an append is explored only while there is room for it.
HasRoom(list, xs, max) ==
  \A x \in (IF xs = {} THEN {Empty} ELSE xs) \cap DOMAIN list : list[x] < max
=============================================================================
