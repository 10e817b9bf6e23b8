--------------------------- MODULE NamespaceStore ---------------------------
(***************************************************************************)
(* boltNamespaceStore and boltNamespace: the namespaces keyspace and every *)
(* call that reads or writes it.  A call is one bolt transaction, so it is *)
(* one action; a handle (Namespace) holds a name only, so a call through a *)
(* stale handle acts on whatever bucket has the name now, or, when there   *)
(* is none, returns ErrNamespaceDoesNotExist and changes nothing.          *)
(***************************************************************************)
EXTENDS CommaList

CONSTANTS
  Namespace,   \* names of namespaces
  User,        \* names of users
  Role,        \* names of roles
  Permission,  \* permissions; Empty may be among them
  MaxCopies    \* bound on the copies of one element in one list

\* bolt takes no empty key, so no namespace and no role has an empty name.
ASSUME StoreAssumption ==
  /\ MaxCopies \in Nat \ {0}
  /\ Empty \notin User \cup Namespace \cup Role

VARIABLES
  buckets,  \* the names that have a bucket
  users,    \* the value under the "users" key of each bucket
  roles,    \* the keys of the "roles" bucket of each bucket
  perms     \* the value under each of those keys

nsVars == <<buckets, users, roles, perms>>

TypeOK ==
  /\ buckets \in SUBSET Namespace
  /\ users \in [Namespace -> [User -> 0..MaxCopies]]
  /\ roles \in [Namespace -> SUBSET Role]
  /\ perms \in [Namespace -> [Role -> [Permission -> 0..MaxCopies]]]

NoUsers == NoEntries(User)
NoPerms == [r \in Role |-> NoEntries(Permission)]

Init ==
  /\ buckets = {}
  /\ users = [n \in Namespace |-> NoUsers]
  /\ roles = [n \in Namespace |-> {}]
  /\ perms = [n \in Namespace |-> NoPerms]

-----------------------------------------------------------------------------
(* Reads. *)

Exists(n) == n \in buckets

HasAccess(n, u) == n \in buckets /\ u \in Entries(users[n])

HasPermission(n, r, p) ==
  /\ n \in buckets
  /\ r \in roles[n]
  /\ p \in Entries(perms[n][r])

-----------------------------------------------------------------------------
(* Writes. *)

\* Mutant of Create: a bucket that is there is made anew.
CreateAnew(n) ==
  /\ buckets' = buckets \cup {n}
  /\ users' = [users EXCEPT ![n] = NoUsers]
  /\ roles' = [roles EXCEPT ![n] = {}]
  /\ perms' = [perms EXCEPT ![n] = NoPerms]

\* CreateBucketIfNotExists: a bucket that is there keeps its contents.
Create(n) ==
  /\ buckets' = buckets \cup {n}
  /\ UNCHANGED <<users, roles, perms>>

Delete(n) ==
  /\ n \in buckets
  /\ buckets' = buckets \ {n}
  /\ users' = [users EXCEPT ![n] = NoUsers]
  /\ roles' = [roles EXCEPT ![n] = {}]
  /\ perms' = [perms EXCEPT ![n] = NoPerms]

AddUser(n, u) ==
  /\ n \in buckets
  /\ HasRoom(users[n], {u}, MaxCopies)
  /\ users' = [users EXCEPT ![n] = Appended(@, {u})]
  /\ UNCHANGED <<buckets, roles, perms>>

RemoveUser(n, u) ==
  /\ n \in buckets
  /\ users' = [users EXCEPT ![n] = Filtered(@, u)]
  /\ UNCHANGED <<buckets, roles, perms>>

\* A role that is there keeps its permissions.
AddRole(n, r) ==
  /\ n \in buckets
  /\ r \notin roles[n]
  /\ roles' = [roles EXCEPT ![n] = @ \cup {r}]
  /\ perms' = [perms EXCEPT ![n][r] = NoEntries(Permission)]
  /\ UNCHANGED <<buckets, users>>

RemoveRole(n, r) ==
  /\ n \in buckets
  /\ roles' = [roles EXCEPT ![n] = @ \ {r}]
  /\ perms' = [perms EXCEPT ![n][r] = NoEntries(Permission)]
  /\ UNCHANGED <<buckets, users>>

\* Creates the role when it is not there.
GrantPermissions(n, r, ps) ==
  /\ n \in buckets
  /\ HasRoom(perms[n][r], ps, MaxCopies)
  /\ roles' = [roles EXCEPT ![n] = @ \cup {r}]
  /\ perms' = [perms EXCEPT ![n][r] = Appended(@, ps)]
  /\ UNCHANGED <<buckets, users>>

\* The role stays, with whatever permissions are left.
RevokePermission(n, r, p) ==
  /\ n \in buckets
  /\ r \in roles[n]
  /\ perms' = [perms EXCEPT ![n][r] = Filtered(@, p)]
  /\ UNCHANGED <<buckets, users, roles>>

\* Mutant of CreateChild: the parent is not looked for.
CreateChildUnchecked(parent, child) ==
  /\ buckets' = buckets \cup {child}
  /\ roles' = [roles EXCEPT ![child] = @ \cup roles[parent]]
  /\ perms' = [perms EXCEPT ![child] =
                 [r \in Role |-> IF r \in roles[parent] THEN perms[parent][r]
                                                        ELSE @[r]]]
  /\ UNCHANGED users

\* Opens or creates the child's bucket and puts every role of the parent over
\* the child's; roles only the child has stay.  The parent's user list is put
\* under a key that is the list itself, where no reader looks.
CreateChild(parent, child) ==
  /\ parent \in buckets
  /\ buckets' = buckets \cup {child}
  /\ roles' = [roles EXCEPT ![child] = @ \cup roles[parent]]
  /\ perms' = [perms EXCEPT ![child] =
                 [r \in Role |-> IF r \in roles[parent] THEN perms[parent][r]
                                                        ELSE @[r]]]
  /\ UNCHANGED users

Next ==
  \/ \E n \in Namespace : Create(n) \/ Delete(n)
  \/ \E n \in Namespace, u \in User : AddUser(n, u) \/ RemoveUser(n, u)
  \/ \E n \in Namespace, r \in Role : AddRole(n, r) \/ RemoveRole(n, r)
  \/ \E n \in Namespace, r \in Role, ps \in SUBSET Permission :
       GrantPermissions(n, r, ps)
  \/ \E n \in Namespace, r \in Role, p \in Permission :
       RevokePermission(n, r, p)
  \/ \E parent, child \in Namespace : CreateChild(parent, child)

Spec == Init /\ [][Next]_nsVars

-----------------------------------------------------------------------------
(* Properties. *)

\* The layout of the keyspace, in which bolt nests users and roles in the bucket
\* of their namespace and permissions under their role, kept by four variables:
\* a name without a bucket has no users and roles, and a role that is not there
\* no permissions.  The proofs start from it; no run asks for it.
NestedInBuckets ==
  /\ \A n \in Namespace \ buckets : users[n] = NoUsers /\ roles[n] = {}
  /\ \A n \in Namespace, r \in Role :
       r \notin roles[n] => perms[n][r] = NoEntries(Permission)

\* Every value is one that Split and Join map to itself: a list is never the
\* empty string alone, which readers would take for no entry (AddUser,
\* GrantPermissions and the filter loops).
ListsAreStable ==
  /\ \A n \in Namespace : ~ ReadsEmpty(users[n])
  /\ \A n \in Namespace, r \in Role : ~ ReadsEmpty(perms[n][r])
=============================================================================
