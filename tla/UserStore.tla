------------------------------ MODULE UserStore ------------------------------
(***************************************************************************)
(* boltUserStore, boltUser and boltKeyRing: the users keyspace and every   *)
(* call that reads or writes it, each one bolt transaction.  As with       *)
(* namespaces, a handle (User, PublicKeyRing) is a name: through a stale   *)
(* one a call acts on the account that has the name now, or returns        *)
(* ErrUserDoesNotExist and changes nothing.                                *)
(***************************************************************************)
EXTENDS CommaList

CONSTANTS
  Namespace, User, Role,
  Key,         \* public keys, told apart by their fingerprints
  Password,
  NoPassword,  \* no salt has been written
  MaxCopies

\* The empty string may be a role here: roles are only kept in lists.
ASSUME UserStoreAssumption ==
  /\ MaxCopies \in Nat \ {0}
  /\ Empty \notin User \cup Namespace
  /\ NoPassword \notin Password

VARIABLES
  accounts,     \* the names that have a bucket
  joined,       \* the keys of each account's "namespaces" bucket
  memberRoles,  \* the list of roles under each of those keys
  keys,         \* the contents of each account's "keys" bucket
  password      \* the password behind the stored salt and hash

usVars == <<accounts, joined, memberRoles, keys, password>>

TypeOK ==
  /\ accounts \in SUBSET User
  /\ joined \in [User -> SUBSET Namespace]
  /\ memberRoles \in [User -> [Namespace -> [Role -> 0..MaxCopies]]]
  /\ keys \in [User -> SUBSET Key]
  /\ password \in [User -> Password \cup {NoPassword}]

NoRoles == [n \in Namespace |-> NoEntries(Role)]

Init ==
  /\ accounts = {}
  /\ joined = [u \in User |-> {}]
  /\ memberRoles = [u \in User |-> NoRoles]
  /\ keys = [u \in User |-> {}]
  /\ password = [u \in User |-> NoPassword]

-----------------------------------------------------------------------------
(* Reads. *)

Exists(u) == u \in accounts

Namespaces(u) == IF u \in accounts THEN joined[u] ELSE {}

Roles(u, n) == IF u \in accounts THEN Entries(memberRoles[u][n]) ELSE {}

Contains(u, k) == u \in accounts /\ k \in keys[u]

ValidatePassword(u, p) ==
  u \in accounts /\ password[u] # NoPassword /\ password[u] = p

-----------------------------------------------------------------------------
(* Writes. *)

Create(u) ==
  /\ accounts' = accounts \cup {u}
  /\ UNCHANGED <<joined, memberRoles, keys, password>>

Delete(u) ==
  /\ u \in accounts
  /\ accounts' = accounts \ {u}
  /\ joined' = [joined EXCEPT ![u] = {}]
  /\ memberRoles' = [memberRoles EXCEPT ![u] = NoRoles]
  /\ keys' = [keys EXCEPT ![u] = {}]
  /\ password' = [password EXCEPT ![u] = NoPassword]

UpdatePassword(u, p) ==
  /\ u \in accounts
  /\ password' = [password EXCEPT ![u] = p]
  /\ UNCHANGED <<accounts, joined, memberRoles, keys>>

\* Neither call looks at the namespaces keyspace: n need not exist, and its
\* own list of users is not touched.
AddRole(u, n, r) ==
  /\ u \in accounts
  /\ HasRoom(memberRoles[u][n], {r}, MaxCopies)
  /\ joined' = [joined EXCEPT ![u] = @ \cup {n}]
  /\ memberRoles' = [memberRoles EXCEPT ![u][n] = Appended(@, {r})]
  /\ UNCHANGED <<accounts, keys, password>>

\* The key n stays when its last role goes.
RemoveRole(u, n, r) ==
  /\ u \in accounts
  /\ memberRoles' = [memberRoles EXCEPT ![u][n] = Filtered(@, r)]
  /\ UNCHANGED <<accounts, joined, keys, password>>

\* A certificate that does not parse, or whose key SSH does not know, is
\* refused and changes nothing.
AddPublicKey(u, k) ==
  /\ u \in accounts
  /\ keys' = [keys EXCEPT ![u] = @ \cup {k}]
  /\ UNCHANGED <<accounts, joined, memberRoles, password>>

RemovePublicKey(u, k) ==
  /\ u \in accounts
  /\ keys' = [keys EXCEPT ![u] = @ \ {k}]
  /\ UNCHANGED <<accounts, joined, memberRoles, password>>

Next ==
  \/ \E u \in User : Create(u) \/ Delete(u)
  \/ \E u \in User, p \in Password : UpdatePassword(u, p)
  \/ \E u \in User, n \in Namespace, r \in Role :
       AddRole(u, n, r) \/ RemoveRole(u, n, r)
  \/ \E u \in User, k \in Key : AddPublicKey(u, k) \/ RemovePublicKey(u, k)

Spec == Init /\ [][Next]_usVars

-----------------------------------------------------------------------------
(* Properties. *)

\* A role that was added is there and no other is lost, and one that was removed
\* is gone, however many times AddRole appended it, and no other with it, for the
\* roles that have a name: the empty string alone is not stored (AddRole and the
\* filter loop of RemoveRole, users.go).
RoleCallsDoAsPromised ==
  [][\A u \in accounts, n \in Namespace, r \in Role :
       /\ AddRole(u, n, r)
            => Roles(u, n)' \ {Empty} = (Roles(u, n) \cup {r}) \ {Empty}
       /\ RemoveRole(u, n, r)
            => Roles(u, n)' \ {Empty} = Roles(u, n) \ {r, Empty}]_usVars
=============================================================================
