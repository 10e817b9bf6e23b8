------------------------ MODULE NamespaceStoreProofs ------------------------
(***************************************************************************)
(* The namespaces keyspace for every set of names: what the list operators *)
(* do to the set of entries, the keyspace's type, what a deletion leaves   *)
(* behind, and that it implements AccessControl.                           *)
(***************************************************************************)
EXTENDS NamespaceRefinement, TLAPS

\* The empty list has no entries, and is one.
LEMMA NoEntriesFacts ==
  ASSUME NEW S, NEW max \in Nat
  PROVE  /\ NoEntries(S) \in [S -> 0..max]
         /\ Entries(NoEntries(S)) = {}
BY SMT DEF NoEntries, Entries

\* Writing a list and reading it back keeps it in its type and keeps every
\* entry but the empty string (strings.Join, strings.Split).
LEMMA StoredFacts ==
  ASSUME NEW S, NEW max \in Nat, NEW list \in [S -> 0..max]
  PROVE  /\ Stored(list) \in [S -> 0..max]
         /\ \A y : y # Empty =>
              (y \in Entries(Stored(list)) <=> y \in Entries(list))
         /\ Empty \notin S => Entries(Stored(list)) = Entries(list)
<1>1. CASE ReadsEmpty(list)
  <2>1. Stored(list) = NoEntries(S)
    BY <1>1 DEF Stored
  <2>2. Entries(list) = {Empty}
    BY <1>1 DEF ReadsEmpty
  <2>3. Empty \in S
    BY <2>2 DEF Entries
  <2>. QED  BY <2>1, <2>2, <2>3, NoEntriesFacts
<1>2. CASE ~ ReadsEmpty(list)
  BY <1>2 DEF Stored
<1>. QED  BY <1>1, <1>2

\* What has been written reads back as it was written.
LEMMA StoredIsStable ==
  ASSUME NEW list
  PROVE  ~ ReadsEmpty(Stored(list))
<1>1. CASE ReadsEmpty(list)
  BY <1>1 DEF Stored, ReadsEmpty, NoEntries, Entries
<1>2. CASE ~ ReadsEmpty(list)
  BY <1>2 DEF Stored
<1>. QED  BY <1>1, <1>2

\* An append with room for it adds the appended names and nothing else,
\* copies or not (AddUser, GrantPermissions, AddRole).
LEMMA AppendedFacts ==
  ASSUME NEW S, NEW max \in Nat, NEW list \in [S -> 0..max],
         NEW xs \in SUBSET S, HasRoom(list, xs, max)
  PROVE  /\ Appended(list, xs) \in [S -> 0..max]
         /\ \A y : y # Empty =>
              (y \in Entries(Appended(list, xs)) <=> y \in Entries(list) \/ y \in xs)
         /\ Empty \notin S =>
              Entries(Appended(list, xs)) = Entries(list) \cup xs
<1>. DEFINE new == IF xs = {} THEN {Empty} ELSE xs
            raw == [x \in DOMAIN list |->
                      IF x \in new THEN list[x] + 1 ELSE list[x]]
<1>1. DOMAIN list = S
  OBVIOUS
<1>2. \A x \in new \cap S : list[x] < max
  BY <1>1 DEF HasRoom
<1>3. raw \in [S -> 0..max]
  BY <1>1, <1>2
<1>4. Entries(raw) = Entries(list) \cup (new \cap S)
  <2>1. DOMAIN raw = S /\ \A x \in S :
          raw[x] = IF x \in new THEN list[x] + 1 ELSE list[x]
    BY <1>1
  <2>2. \A x \in S : list[x] \in Nat
    OBVIOUS
  <2>. HIDE DEF raw, new
  <2>3. \A x \in S : raw[x] > 0 <=> list[x] > 0 \/ x \in new
    BY <2>1, <2>2
  <2>. QED  BY <1>1, <2>1, <2>3 DEF Entries
<1>5. Appended(list, xs) = Stored(raw)
  BY DEF Appended
<1>. HIDE DEF raw
<1>6. /\ Stored(raw) \in [S -> 0..max]
      /\ \A y : y # Empty =>
           (y \in Entries(Stored(raw)) <=> y \in Entries(raw))
      /\ Empty \notin S => Entries(Stored(raw)) = Entries(raw)
  BY <1>3, StoredFacts
<1>7. \A y : y # Empty => (y \in new \cap S <=> y \in xs)
  OBVIOUS
<1>8. Empty \notin S => new \cap S = xs
  OBVIOUS
<1>. HIDE DEF new
<1>. QED  BY <1>4, <1>5, <1>6, <1>7, <1>8

\* A removal takes every copy of the name out and no other name (RemoveUser,
\* RevokePermission, RemoveRole).
LEMMA FilteredFacts ==
  ASSUME NEW S, NEW max \in Nat, NEW list \in [S -> 0..max], NEW x \in S
  PROVE  /\ Filtered(list, x) \in [S -> 0..max]
         /\ \A y : y # Empty =>
              (y \in Entries(Filtered(list, x)) <=> y \in Entries(list) \ {x})
         /\ Empty \notin S => Entries(Filtered(list, x)) = Entries(list) \ {x}
<1>. DEFINE raw == [list EXCEPT ![x] = 0]
<1>1. raw \in [S -> 0..max]
  OBVIOUS
<1>2. Entries(raw) = Entries(list) \ {x}
  BY DEF Entries
<1>3. Filtered(list, x) = Stored(raw)
  BY DEF Filtered
<1>. HIDE DEF raw
<1>4. /\ Stored(raw) \in [S -> 0..max]
      /\ \A y : y # Empty =>
           (y \in Entries(Stored(raw)) <=> y \in Entries(raw))
      /\ Empty \notin S => Entries(Stored(raw)) = Entries(raw)
  BY <1>1, StoredFacts
<1>. QED  BY <1>2, <1>3, <1>4

-----------------------------------------------------------------------------
(* Types. *)

LEMMA InitTypeOK == Init => TypeOK
BY StoreAssumption, NoEntriesFacts DEF Init, TypeOK, NoUsers, NoPerms

\* One case for each call.
LEMMA NextTypeOK == TypeOK /\ Next => TypeOK'
<1>. SUFFICES ASSUME TypeOK, Next PROVE TypeOK'
  OBVIOUS
<1>. USE DEF TypeOK
<1>0. MaxCopies \in Nat
  BY StoreAssumption
<1>e. /\ NoEntries(User) \in [User -> 0..MaxCopies]
      /\ NoEntries(Permission) \in [Permission -> 0..MaxCopies]
      /\ NoPerms \in [Role -> [Permission -> 0..MaxCopies]]
  BY <1>0, NoEntriesFacts DEF NoPerms
<1>1. ASSUME NEW n \in Namespace, Create(n) PROVE TypeOK'
  BY <1>1 DEF Create
<1>2. ASSUME NEW n \in Namespace, Delete(n) PROVE TypeOK'
  BY <1>2, <1>e DEF Delete, NoUsers
<1>3. ASSUME NEW n \in Namespace, NEW u \in User, AddUser(n, u) PROVE TypeOK'
  <2>1. /\ users[n] \in [User -> 0..MaxCopies]
        /\ {u} \in SUBSET User
        /\ HasRoom(users[n], {u}, MaxCopies)
    BY <1>3 DEF AddUser
  <2>2. Appended(users[n], {u}) \in [User -> 0..MaxCopies]
    BY <2>1, <1>0, AppendedFacts
  <2>. QED  BY <2>2, <1>3 DEF AddUser
<1>4. ASSUME NEW n \in Namespace, NEW u \in User, RemoveUser(n, u) PROVE TypeOK'
  <2>1. Filtered(users[n], u) \in [User -> 0..MaxCopies]
    BY <1>0, FilteredFacts
  <2>. QED  BY <2>1, <1>4 DEF RemoveUser
<1>5. ASSUME NEW n \in Namespace, NEW r \in Role, AddRole(n, r) PROVE TypeOK'
  BY <1>5, <1>e DEF AddRole
<1>6. ASSUME NEW n \in Namespace, NEW r \in Role, RemoveRole(n, r) PROVE TypeOK'
  BY <1>6, <1>e DEF RemoveRole
<1>7. ASSUME NEW n \in Namespace, NEW r \in Role, NEW ps \in SUBSET Permission,
             GrantPermissions(n, r, ps)
      PROVE  TypeOK'
  <2>1. /\ perms[n] \in [Role -> [Permission -> 0..MaxCopies]]
        /\ perms[n][r] \in [Permission -> 0..MaxCopies]
        /\ HasRoom(perms[n][r], ps, MaxCopies)
    BY <1>7 DEF GrantPermissions
  <2>2. Appended(perms[n][r], ps) \in [Permission -> 0..MaxCopies]
    BY <2>1, <1>0, AppendedFacts
  <2>. QED  BY <2>1, <2>2, <1>7 DEF GrantPermissions
<1>8. ASSUME NEW n \in Namespace, NEW r \in Role, NEW p \in Permission,
             RevokePermission(n, r, p)
      PROVE  TypeOK'
  <2>1. /\ perms[n] \in [Role -> [Permission -> 0..MaxCopies]]
        /\ perms[n][r] \in [Permission -> 0..MaxCopies]
    OBVIOUS
  <2>2. Filtered(perms[n][r], p) \in [Permission -> 0..MaxCopies]
    BY <2>1, <1>0, FilteredFacts
  <2>. QED  BY <2>1, <2>2, <1>8 DEF RevokePermission
<1>9. ASSUME NEW parent \in Namespace, NEW child \in Namespace,
             CreateChild(parent, child)
      PROVE  TypeOK'
  BY <1>9 DEF CreateChild
<1>. QED  BY <1>1, <1>2, <1>3, <1>4, <1>5, <1>6, <1>7, <1>8, <1>9 DEF Next

\* The keyspace always has the shape namespaces.go gives it.
THEOREM TypeCorrect == Spec => []TypeOK
<1>1. TypeOK /\ [Next]_nsVars => TypeOK'
  BY NextTypeOK DEF TypeOK, nsVars
<1>. QED  BY <1>1, InitTypeOK, PTL DEF Spec

-----------------------------------------------------------------------------
(* Nothing is left behind. *)

\* The part about names and the part about roles are preserved together: a
\* role is copied or granted only into a bucket, and takes its permissions
\* along.
LEMMA NextNestedInBuckets ==
  TypeOK /\ NestedInBuckets /\ Next => NestedInBuckets'
<1>. SUFFICES ASSUME TypeOK, NestedInBuckets, Next PROVE NestedInBuckets'
  OBVIOUS
<1>. USE DEF TypeOK, NestedInBuckets
<1>1. ASSUME NEW n \in Namespace, Create(n) PROVE NestedInBuckets'
  BY <1>1 DEF Create
<1>2. ASSUME NEW n \in Namespace, Delete(n) PROVE NestedInBuckets'
  <2>1. \A r \in Role : NoPerms[r] = NoEntries(Permission)
    BY DEF NoPerms
  <2>. QED  BY <1>2, <2>1 DEF Delete
<1>3. ASSUME NEW n \in Namespace, NEW u \in User,
             AddUser(n, u) \/ RemoveUser(n, u)
      PROVE  NestedInBuckets'
  BY <1>3 DEF AddUser, RemoveUser
<1>4. ASSUME NEW n \in Namespace, NEW r \in Role,
             AddRole(n, r) \/ RemoveRole(n, r)
      PROVE  NestedInBuckets'
  <2>1. CASE AddRole(n, r)
    BY <2>1 DEF AddRole
  <2>2. CASE RemoveRole(n, r)
    BY <2>2 DEF RemoveRole
  <2>. QED  BY <1>4, <2>1, <2>2
<1>5. ASSUME NEW n \in Namespace, NEW r \in Role, NEW ps \in SUBSET Permission,
             GrantPermissions(n, r, ps)
      PROVE  NestedInBuckets'
  BY <1>5 DEF GrantPermissions
<1>6. ASSUME NEW n \in Namespace, NEW r \in Role, NEW p \in Permission,
             RevokePermission(n, r, p)
      PROVE  NestedInBuckets'
  BY <1>6 DEF RevokePermission
<1>7. ASSUME NEW parent \in Namespace, NEW child \in Namespace,
             CreateChild(parent, child)
      PROVE  NestedInBuckets'
  BY <1>7 DEF CreateChild
<1>. QED  BY <1>1, <1>2, <1>3, <1>4, <1>5, <1>6, <1>7 DEF Next

\* A name or a role that comes back never finds what its namesake had.
LEMMA StaysNested == Spec => []NestedInBuckets
<1>1. Init => NestedInBuckets
  BY DEF Init, NestedInBuckets, NoPerms
<1>2. TypeOK /\ NestedInBuckets /\ [Next]_nsVars => NestedInBuckets'
  BY NextNestedInBuckets DEF NestedInBuckets, nsVars
<1>. QED  BY <1>1, <1>2, TypeCorrect, PTL DEF Spec

-----------------------------------------------------------------------------
(* Stored values. *)

\* Every write goes through Join, so every value is one that Split reads back.
LEMMA NextListsAreStable ==
  TypeOK /\ ListsAreStable /\ Next => ListsAreStable'
<1>. SUFFICES ASSUME TypeOK, ListsAreStable, Next PROVE ListsAreStable'
  OBVIOUS
<1>. USE DEF TypeOK, ListsAreStable
<1>e. \A S : ~ ReadsEmpty(NoEntries(S))
  BY DEF ReadsEmpty, NoEntries, Entries
<1>a. \A list, xs : ~ ReadsEmpty(Appended(list, xs))
  BY StoredIsStable DEF Appended
<1>f. \A list, x : ~ ReadsEmpty(Filtered(list, x))
  BY StoredIsStable DEF Filtered
<1>1. ASSUME NEW n \in Namespace, Create(n) PROVE ListsAreStable'
  BY <1>1 DEF Create
<1>2. ASSUME NEW n \in Namespace, Delete(n) PROVE ListsAreStable'
  <2>1. \A r \in Role : NoPerms[r] = NoEntries(Permission)
    BY DEF NoPerms
  <2>. QED  BY <1>2, <1>e, <2>1 DEF Delete, NoUsers
<1>3. ASSUME NEW n \in Namespace, NEW u \in User,
             AddUser(n, u) \/ RemoveUser(n, u)
      PROVE  ListsAreStable'
  <2>1. CASE AddUser(n, u)
    BY <2>1, <1>a DEF AddUser
  <2>2. CASE RemoveUser(n, u)
    BY <2>2, <1>f DEF RemoveUser
  <2>. QED  BY <1>3, <2>1, <2>2
<1>4. ASSUME NEW n \in Namespace, NEW r \in Role,
             AddRole(n, r) \/ RemoveRole(n, r)
      PROVE  ListsAreStable'
  <2>1. CASE AddRole(n, r)
    BY <2>1, <1>e DEF AddRole
  <2>2. CASE RemoveRole(n, r)
    BY <2>2, <1>e DEF RemoveRole
  <2>. QED  BY <1>4, <2>1, <2>2
<1>5. ASSUME NEW n \in Namespace, NEW r \in Role, NEW ps \in SUBSET Permission,
             GrantPermissions(n, r, ps)
      PROVE  ListsAreStable'
  BY <1>5, <1>a DEF GrantPermissions
<1>6. ASSUME NEW n \in Namespace, NEW r \in Role, NEW p \in Permission,
             RevokePermission(n, r, p)
      PROVE  ListsAreStable'
  BY <1>6, <1>f DEF RevokePermission
<1>7. ASSUME NEW parent \in Namespace, NEW child \in Namespace,
             CreateChild(parent, child)
      PROVE  ListsAreStable'
  BY <1>7 DEF CreateChild
<1>. QED  BY <1>1, <1>2, <1>3, <1>4, <1>5, <1>6, <1>7 DEF Next

\* No list in the keyspace is one that its readers would misread.
THEOREM ListsStayStable == Spec => []ListsAreStable
<1>1. Init => ListsAreStable
  BY DEF Init, ListsAreStable, NoUsers, NoPerms, ReadsEmpty, NoEntries, Entries
<1>2. TypeOK /\ ListsAreStable /\ [Next]_nsVars => ListsAreStable'
  BY NextListsAreStable DEF ListsAreStable, nsVars
<1>. QED  BY <1>1, <1>2, TypeCorrect, PTL DEF Spec

-----------------------------------------------------------------------------
(* Refinement.  The two lemmas say how the mapping moves when one list of
   users, or the permissions of one role, are replaced; then each call on the
   lists is the call of the same name on the sets, or a stutter. *)

LEMMA MembersMove ==
  ASSUME NEW n \in Namespace, NEW list,
         users \in [Namespace -> [User -> 0..MaxCopies]],
         users' = [users EXCEPT ![n] = list]
  PROVE  Members' = [Members EXCEPT ![n] = Entries(list)]
BY DEF Members

LEMMA GrantsMove ==
  ASSUME NEW n \in Namespace, NEW r \in Role, NEW list,
         perms \in [Namespace -> [Role -> [Permission -> 0..MaxCopies]]],
         perms' = [perms EXCEPT ![n][r] = list]
  PROVE  Grants' = [Grants EXCEPT ![n][r] = Entries(list) \cap Named]
<1>1. \A m \in Namespace, q \in Role :
        perms'[m][q] = IF m = n /\ q = r THEN list ELSE perms[m][q]
  OBVIOUS
<1>2. Grants' = [m \in Namespace |->
                   [q \in Role |-> Entries(perms'[m][q]) \cap Named]]
  BY DEF Grants, Named
<1>3. Grants' = [m \in Namespace |-> [q \in Role |->
                   IF m = n /\ q = r THEN Entries(list) \cap Named
                                     ELSE Entries(perms[m][q]) \cap Named]]
  BY <1>1, <1>2
<1>4. /\ Grants \in [Namespace -> [Role -> SUBSET Named]]
      /\ \A m \in Namespace, q \in Role :
           Grants[m][q] = Entries(perms[m][q]) \cap Named
  BY DEF Grants
<1>. DEFINE X == Entries(list) \cap Named
           old == Grants
<1>5. \A m \in Namespace : old[m] \in [Role -> SUBSET Named]
  BY <1>4
<1>6. [old EXCEPT ![n][r] = X] =
        [m \in Namespace |-> [q \in Role |->
           IF m = n /\ q = r THEN X ELSE old[m][q]]]
  <2>. HIDE DEF X, old
  <2>1. DOMAIN old = Namespace /\ \A m \in Namespace : DOMAIN old[m] = Role
                                /\ old[m] = [q \in Role |-> old[m][q]]
    BY <1>4, <1>5 DEF old
  <2>2. QED
    BY <2>1
<1>. HIDE DEF X
<1>7. Grants' = [m \in Namespace |-> [q \in Role |->
                   IF m = n /\ q = r THEN X ELSE old[m][q]]]
  <2>. HIDE DEF Grants
  <2>1. QED
    BY <1>3, <1>4 DEF X, old
<1>. HIDE DEF Grants
<1>. QED  BY <1>6, <1>7 DEF X, old

LEMMA EveryCallRefines ==
  ASSUME TypeOK, NestedInBuckets
  PROVE  CallDoesAsPromised
<1>. USE DEF TypeOK
<1>0. MaxCopies \in Nat /\ Empty \notin User
  BY StoreAssumption
<1>1. ASSUME NEW n \in Namespace, Create(n) PROVE AC!Create(n)
  BY <1>1 DEF Create, AC!Create, Members, Grants
<1>2. ASSUME NEW n \in Namespace, Delete(n) PROVE AC!Delete(n)
  <2>1. Entries(NoUsers) = {}
    BY <1>0, NoEntriesFacts DEF NoUsers
  <2>2. Members' = [Members EXCEPT ![n] = {}]
    BY <1>2, <2>1, MembersMove DEF Delete
  <2>3. Entries(NoEntries(Permission)) = {}
    BY <1>0, NoEntriesFacts
  <2>4. Grants' = [Grants EXCEPT ![n] = AC!NoGrants]
    BY <1>2, <2>3 DEF Delete, Grants, NoPerms, AC!NoGrants
  <2>. QED  BY <1>2, <2>2, <2>4 DEF Delete, AC!Delete
<1>3. ASSUME NEW n \in Namespace, NEW u \in User, AddUser(n, u)
      PROVE  AC!AddUser(n, u)
  <2>1. /\ users[n] \in [User -> 0..MaxCopies]
        /\ {u} \in SUBSET User
        /\ HasRoom(users[n], {u}, MaxCopies)
    BY <1>3 DEF AddUser
  <2>2. Entries(Appended(users[n], {u})) = Entries(users[n]) \cup {u}
    BY ONLY <2>1, <1>0, AppendedFacts
  <2>3. Members' = [Members EXCEPT ![n] = Entries(users[n]) \cup {u}]
    BY <1>3, <2>2, MembersMove DEF AddUser
  <2>4. Members[n] = Entries(users[n]) /\ Grants' = Grants
    BY <1>3 DEF AddUser, Members, Grants
  <2>. QED  BY <1>3, <2>3, <2>4 DEF AddUser, AC!AddUser
<1>4. ASSUME NEW n \in Namespace, NEW u \in User, RemoveUser(n, u)
      PROVE  AC!RemoveUser(n, u)
  <2>1. users[n] \in [User -> 0..MaxCopies]
    OBVIOUS
  <2>2. Entries(Filtered(users[n], u)) = Entries(users[n]) \ {u}
    BY <2>1, <1>0, FilteredFacts
  <2>3. Members' = [Members EXCEPT ![n] = Entries(users[n]) \ {u}]
    BY <1>4, <2>2, MembersMove DEF RemoveUser
  <2>4. Members[n] = Entries(users[n]) /\ Grants' = Grants
    BY <1>4 DEF RemoveUser, Members, Grants
  <2>. QED  BY <1>4, <2>3, <2>4 DEF RemoveUser, AC!RemoveUser
<1>5. ASSUME NEW n \in Namespace, NEW r \in Role, AddRole(n, r)
      PROVE  AC!AddRole(n, r)
  <2>1. perms[n][r] = NoEntries(Permission)
    BY <1>5 DEF AddRole, NestedInBuckets
  <2>2. perms' = perms
    BY <1>5, <2>1 DEF AddRole
  <2>. QED  BY <1>5, <2>2 DEF AddRole, AC!AddRole, Members, Grants
<1>6. ASSUME NEW n \in Namespace, NEW r \in Role, RemoveRole(n, r)
      PROVE  AC!RemoveRole(n, r)
  <2>1. Entries(NoEntries(Permission)) = {}
    BY <1>0, NoEntriesFacts
  <2>2. Grants' = [Grants EXCEPT ![n][r] =
                     Entries(NoEntries(Permission)) \cap Named]
    BY <1>6, GrantsMove DEF RemoveRole
  <2>3. Members' = Members
    BY <1>6 DEF RemoveRole, Members
  <2>. QED  BY <1>6, <2>1, <2>2, <2>3 DEF RemoveRole, AC!RemoveRole
<1>7. ASSUME NEW n \in Namespace, NEW r \in Role, NEW ps \in SUBSET Permission,
             GrantPermissions(n, r, ps)
      PROVE  AC!GrantPermissions(n, r, ps \cap Named)
  <2>1. /\ perms[n] \in [Role -> [Permission -> 0..MaxCopies]]
        /\ perms[n][r] \in [Permission -> 0..MaxCopies]
        /\ ps \in SUBSET Permission
        /\ HasRoom(perms[n][r], ps, MaxCopies)
    BY <1>7 DEF GrantPermissions
  <2>2. \A y : y # Empty =>
          (y \in Entries(Appended(perms[n][r], ps))
             <=> y \in Entries(perms[n][r]) \/ y \in ps)
    BY ONLY <2>1, <1>0, AppendedFacts
  <2>3. Entries(Appended(perms[n][r], ps)) \cap Named
          = (Entries(perms[n][r]) \cap Named) \cup (ps \cap Named)
    BY <2>2 DEF Named
  <2>4. Grants' = [Grants EXCEPT ![n][r] =
                     (Entries(perms[n][r]) \cap Named) \cup (ps \cap Named)]
    BY <1>7, <2>3, GrantsMove DEF GrantPermissions
  <2>5. /\ Grants[n][r] = Entries(perms[n][r]) \cap Named
        /\ Members' = Members
    BY <1>7 DEF GrantPermissions, Grants, Members
  <2>. QED  BY <1>7, <2>4, <2>5 DEF GrantPermissions, AC!GrantPermissions
<1>8. ASSUME NEW n \in Namespace, NEW r \in Role, NEW p \in Permission,
             RevokePermission(n, r, p)
      PROVE  (p \in Named /\ AC!RevokePermission(n, r, p)) \/ UNCHANGED AC!acVars
  <2>1. /\ perms[n] \in [Role -> [Permission -> 0..MaxCopies]]
        /\ perms[n][r] \in [Permission -> 0..MaxCopies]
    OBVIOUS
  <2>2. \A y : y # Empty =>
          (y \in Entries(Filtered(perms[n][r], p))
             <=> y \in Entries(perms[n][r]) \ {p})
    BY <2>1, <1>0, FilteredFacts
  <2>3. Entries(Filtered(perms[n][r], p)) \cap Named
          = (Entries(perms[n][r]) \cap Named) \ {p}
    BY <2>2 DEF Named
  <2>4. Grants' = [Grants EXCEPT ![n][r] =
                     (Entries(perms[n][r]) \cap Named) \ {p}]
    BY <1>8, <2>3, GrantsMove DEF RevokePermission
  <2>5. /\ Grants[n][r] = Entries(perms[n][r]) \cap Named
        /\ Members' = Members
    BY <1>8 DEF RevokePermission, Grants, Members
  <2>6. CASE p \in Named
    BY <1>8, <2>4, <2>5, <2>6 DEF RevokePermission, AC!RevokePermission
  <2>7. CASE p \notin Named
    <3>1. Grants' = Grants
      <4>1. (Entries(perms[n][r]) \cap Named) \ {p} = Grants[n][r]
        BY <2>5, <2>7
      <4>2. Grants \in [Namespace -> [Role -> SUBSET Named]]
        BY DEF Grants
      <4>. QED  BY <2>4, <4>1, <4>2
    <3>. QED  BY <1>8, <2>5, <3>1 DEF RevokePermission, AC!acVars
  <2>. QED  BY <2>6, <2>7
<1>9. ASSUME NEW parent \in Namespace, NEW child \in Namespace,
             CreateChild(parent, child)
      PROVE  AC!CreateChild(parent, child)
  <2>1. perms' = [m \in Namespace |-> [q \in Role |->
                    IF m = child /\ q \in roles[parent] THEN perms[parent][q]
                                                        ELSE perms[m][q]]]
    BY <1>9 DEF CreateChild
  <2>2. \A m \in Namespace, q \in Role :
          perms'[m][q] = IF m = child /\ q \in roles[parent]
                           THEN perms[parent][q] ELSE perms[m][q]
    BY <2>1
  <2>3. Grants' = [m \in Namespace |->
                     [q \in Role |-> Entries(perms'[m][q]) \cap Named]]
    BY DEF Grants, Named
  <2>4. \A m \in Namespace, q \in Role :
          Grants[m][q] = Entries(perms[m][q]) \cap Named
    BY DEF Grants
  <2>5. Grants' = [m \in Namespace |-> [q \in Role |->
                     IF m = child /\ q \in roles[parent] THEN Grants[parent][q]
                                                         ELSE Grants[m][q]]]
    BY <2>2, <2>3, <2>4
  <2>6. Grants \in [Namespace -> [Role -> SUBSET Named]]
    BY DEF Grants
  <2>7. Grants' = [Grants EXCEPT ![child] =
                     [q \in Role |-> IF q \in roles[parent] THEN Grants[parent][q]
                                                            ELSE @[q]]]
    <3>. HIDE DEF Grants
    <3>. QED  BY <2>5, <2>6
  <2>8. Members' = Members
    BY <1>9 DEF CreateChild, Members
  <2>. QED  BY <1>9, <2>7, <2>8 DEF CreateChild, AC!CreateChild
<1>. QED
  BY <1>1, <1>2, <1>3, <1>4, <1>5, <1>6, <1>7, <1>8, <1>9
     DEF CallDoesAsPromised

LEMMA NextRefines ==
  ASSUME TypeOK, NestedInBuckets, Next
  PROVE  AC!Next \/ UNCHANGED AC!acVars
<1>1. CallDoesAsPromised
  BY EveryCallRefines
<1>2. ASSUME NEW n \in Namespace, NEW r \in Role, NEW ps \in SUBSET Permission,
             GrantPermissions(n, r, ps)
      PROVE  AC!Next
  <2>1. ps \cap Named \in SUBSET Named
    OBVIOUS
  <2>2. AC!GrantPermissions(n, r, ps \cap Named)
    BY <1>1, <1>2 DEF CallDoesAsPromised
  <2>. QED  BY <2>1, <2>2 DEF AC!Next
<1>3. ASSUME NEW n \in Namespace, NEW r \in Role, NEW p \in Permission,
             RevokePermission(n, r, p)
      PROVE  AC!Next \/ UNCHANGED AC!acVars
  <2>1. (p \in Named /\ AC!RevokePermission(n, r, p)) \/ UNCHANGED AC!acVars
    BY <1>1, <1>3 DEF CallDoesAsPromised
  <2>. QED  BY <2>1 DEF AC!Next
<1>. QED  BY <1>1, <1>2, <1>3 DEF Next, CallDoesAsPromised, AC!Next

\* However many copies earlier calls have left in the lists, each call does
\* what the interface says it does.
THEOREM EveryCallDoesAsPromised == Spec => CallsDoAsPromised
<1>1. TypeOK /\ NestedInBuckets => [CallDoesAsPromised]_nsVars
  BY EveryCallRefines
<1>. QED
  BY <1>1, TypeCorrect, StaysNested, PTL DEF Spec, CallsDoAsPromised

\* Whatever calls are made, and however many copies they leave in the lists,
\* the namespaces keyspace does what its interface promises in sets.
THEOREM StoreImplementsAccessControl == Spec => ImplementsAccessControl
<1>1. Init => AC!Init
  <2>1. \A S : Entries(NoEntries(S)) = {}
    BY DEF Entries, NoEntries
  <2>. QED
    BY <2>1 DEF Init, AC!Init, Members, Grants, NoUsers, NoPerms, AC!NoGrants
<1>2. TypeOK /\ NestedInBuckets /\ [Next]_nsVars => [AC!Next]_AC!acVars
  <2>1. UNCHANGED nsVars => UNCHANGED AC!acVars
    BY DEF nsVars, AC!acVars, Members, Grants
  <2>. QED  BY <2>1, NextRefines
<1>. QED
  BY <1>1, <1>2, TypeCorrect, StaysNested, PTL
     DEF Spec, ImplementsAccessControl, AC!Spec
=============================================================================
