------------------------- MODULE NamespaceRefinement -------------------------
(***************************************************************************)
(* The store of lists implements the store of sets.  The mapping forgets   *)
(* copies, and the empty string, which is not a permission anybody can     *)
(* name in a statement.                                                    *)
(***************************************************************************)
EXTENDS NamespaceStore

Named == Permission \ {Empty}

Members == [n \in Namespace |-> Entries(users[n])]

Grants ==
  [n \in Namespace |-> [r \in Role |-> Entries(perms[n][r]) \cap Named]]

AC == INSTANCE AccessControl WITH
        Grantable <- Named,
        spaces <- buckets,
        members <- Members,
        defined <- roles,
        grants <- Grants

CallDoesAsPromised ==
  /\ \A n \in Namespace :
       (Create(n) => AC!Create(n)) /\ (Delete(n) => AC!Delete(n))
  /\ \A n \in Namespace, u \in User :
       /\ AddUser(n, u) => AC!AddUser(n, u)
       /\ RemoveUser(n, u) => AC!RemoveUser(n, u)
  /\ \A n \in Namespace, r \in Role :
       /\ AddRole(n, r) => AC!AddRole(n, r)
       /\ RemoveRole(n, r) => AC!RemoveRole(n, r)
  /\ \A n \in Namespace, r \in Role, ps \in SUBSET Permission :
       GrantPermissions(n, r, ps) => AC!GrantPermissions(n, r, ps \cap Named)
  /\ \A n \in Namespace, r \in Role, p \in Permission :
       RevokePermission(n, r, p) =>
         (p \in Named /\ AC!RevokePermission(n, r, p)) \/ UNCHANGED AC!acVars
  /\ \A parent, child \in Namespace :
       CreateChild(parent, child) => AC!CreateChild(parent, child)

\* The store of lists, seen as sets, behaves as the interfaces NamespaceStore
\* and Namespace allow: every call is some call on the sets, or none.
ImplementsAccessControl == AC!Spec

\* And it is the call of the same name: a removal removes every copy that
\* repeated calls have left behind, an append or a second Create loses
\* nothing, and a child gets the parent's roles (namespaces.go:79-473).
CallsDoAsPromised == [][CallDoesAsPromised]_nsVars
=============================================================================
