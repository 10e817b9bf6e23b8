---------------------------- MODULE AccessControl ----------------------------
(***************************************************************************)
(* What the interfaces NamespaceStore and Namespace promise their callers, *)
(* in sets: which namespaces exist, who is a member of each, which         *)
(* permissions each of their roles has.  There are no lists, no copies and *)
(* no encoding here: after RemoveUser a user is out, after                 *)
(* RevokePermission a permission is gone, however often it was given.      *)
(***************************************************************************)
CONSTANTS Namespace, User, Role, Grantable

VARIABLES spaces, members, defined, grants

acVars == <<spaces, members, defined, grants>>

NoGrants == [r \in Role |-> {}]

Init ==
  /\ spaces = {}
  /\ members = [n \in Namespace |-> {}]
  /\ defined = [n \in Namespace |-> {}]
  /\ grants = [n \in Namespace |-> NoGrants]

Create(n) ==
  /\ spaces' = spaces \cup {n}
  /\ UNCHANGED <<members, defined, grants>>

Delete(n) ==
  /\ n \in spaces
  /\ spaces' = spaces \ {n}
  /\ members' = [members EXCEPT ![n] = {}]
  /\ defined' = [defined EXCEPT ![n] = {}]
  /\ grants' = [grants EXCEPT ![n] = NoGrants]

AddUser(n, u) ==
  /\ n \in spaces
  /\ members' = [members EXCEPT ![n] = @ \cup {u}]
  /\ UNCHANGED <<spaces, defined, grants>>

RemoveUser(n, u) ==
  /\ n \in spaces
  /\ members' = [members EXCEPT ![n] = @ \ {u}]
  /\ UNCHANGED <<spaces, defined, grants>>

AddRole(n, r) ==
  /\ n \in spaces
  /\ defined' = [defined EXCEPT ![n] = @ \cup {r}]
  /\ UNCHANGED <<spaces, members, grants>>

RemoveRole(n, r) ==
  /\ n \in spaces
  /\ defined' = [defined EXCEPT ![n] = @ \ {r}]
  /\ grants' = [grants EXCEPT ![n][r] = {}]
  /\ UNCHANGED <<spaces, members>>

GrantPermissions(n, r, ps) ==
  /\ n \in spaces
  /\ defined' = [defined EXCEPT ![n] = @ \cup {r}]
  /\ grants' = [grants EXCEPT ![n][r] = @ \cup ps]
  /\ UNCHANGED <<spaces, members>>

RevokePermission(n, r, p) ==
  /\ n \in spaces
  /\ grants' = [grants EXCEPT ![n][r] = @ \ {p}]
  /\ UNCHANGED <<spaces, members, defined>>

\* The child has the parent's roles with the parent's permissions.  Nothing
\* is promised here about the child's members: the interface says that they are
\* the parent's, and the code keeps those the child had.
CreateChild(parent, child) ==
  /\ parent \in spaces
  /\ spaces' = spaces \cup {child}
  /\ defined' = [defined EXCEPT ![child] = @ \cup defined[parent]]
  /\ grants' = [grants EXCEPT ![child] =
                  [r \in Role |-> IF r \in defined[parent] THEN grants[parent][r]
                                                           ELSE @[r]]]
  /\ UNCHANGED members

Next ==
  \/ \E n \in Namespace : Create(n) \/ Delete(n)
  \/ \E n \in Namespace, u \in User : AddUser(n, u) \/ RemoveUser(n, u)
  \/ \E n \in Namespace, r \in Role : AddRole(n, r) \/ RemoveRole(n, r)
  \/ \E n \in Namespace, r \in Role, ps \in SUBSET Grantable :
       GrantPermissions(n, r, ps)
  \/ \E n \in Namespace, r \in Role, p \in Grantable :
       RevokePermission(n, r, p)
  \/ \E parent, child \in Namespace : CreateChild(parent, child)

Spec == Init /\ [][Next]_acVars
=============================================================================
