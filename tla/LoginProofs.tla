------------------------------ MODULE LoginProofs ------------------------------
(***************************************************************************)
(* The users keyspace for every set of names: its type, and that roles     *)
(* are added and removed as the calls promise; and who PublicKeyCallback   *)
(* admits, for any users, keys and connections.                            *)
(***************************************************************************)
EXTENDS Login, TLAPS

-----------------------------------------------------------------------------
(* The lists of roles. *)

LEMMA EmptyRoles == NoRoles \in [Namespace -> [Role -> 0..MaxCopies]]
BY UserStoreAssumption DEF NoRoles, NoEntries

\* What Split makes of a list that Join wrote is a list again.
LEMMA StoredRoles ==
  ASSUME NEW list \in [Role -> 0..MaxCopies]
  PROVE  /\ Stored(list) \in [Role -> 0..MaxCopies]
         /\ \A y : y # Empty => (y \in Entries(Stored(list)) <=> y \in Entries(list))
<1>1. CASE ReadsEmpty(list)
  BY <1>1, UserStoreAssumption DEF Stored, ReadsEmpty, NoEntries, Entries
<1>2. CASE ~ ReadsEmpty(list)
  BY <1>2 DEF Stored
<1>. QED  BY <1>1, <1>2

LEMMA AppendedRole ==
  ASSUME NEW list \in [Role -> 0..MaxCopies], NEW r \in Role,
         HasRoom(list, {r}, MaxCopies)
  PROVE  /\ Appended(list, {r}) \in [Role -> 0..MaxCopies]
         /\ \A y : y # Empty =>
              (y \in Entries(Appended(list, {r})) <=> y \in Entries(list) \cup {r})
<1>. DEFINE longer == [x \in DOMAIN list |-> IF x \in {r} THEN list[x] + 1 ELSE list[x]]
<1>1. list[r] < MaxCopies
  BY DEF HasRoom
<1>2. longer \in [Role -> 0..MaxCopies]
  BY <1>1, UserStoreAssumption
<1>3. Appended(list, {r}) = Stored(longer)
  BY DEF Appended
<1>4. Entries(longer) = Entries(list) \cup {r}
  BY <1>1, UserStoreAssumption DEF Entries
<1>. HIDE DEF longer
<1>. QED  BY <1>2, <1>3, <1>4, StoredRoles

LEMMA FilteredRole ==
  ASSUME NEW list \in [Role -> 0..MaxCopies], NEW r \in Role
  PROVE  /\ Filtered(list, r) \in [Role -> 0..MaxCopies]
         /\ \A y : y # Empty =>
              (y \in Entries(Filtered(list, r)) <=> y \in Entries(list) \ {r})
<1>. DEFINE shorter == [list EXCEPT ![r] = 0]
<1>1. shorter \in [Role -> 0..MaxCopies] /\ Entries(shorter) = Entries(list) \ {r}
  BY UserStoreAssumption DEF Entries
<1>2. Filtered(list, r) = Stored(shorter)
  BY DEF Filtered
<1>. HIDE DEF shorter
<1>. QED  BY <1>1, <1>2, StoredRoles

-----------------------------------------------------------------------------
(* The users keyspace. *)

LEMMA InitTypeOK == Init => TypeOK
BY EmptyRoles DEF Init, TypeOK

\* One case for each call.
LEMMA NextTypeOK == TypeOK /\ Next => TypeOK'
<1>. SUFFICES ASSUME TypeOK, Next PROVE TypeOK'
  OBVIOUS
<1>. USE DEF TypeOK
<1>e. NoRoles \in [Namespace -> [Role -> 0..MaxCopies]]
  BY EmptyRoles
<1>1. ASSUME NEW u \in User, Create(u) PROVE TypeOK'
  BY <1>1 DEF Create
<1>2. ASSUME NEW u \in User, Delete(u) PROVE TypeOK'
  BY <1>2, <1>e DEF Delete
<1>3. ASSUME NEW u \in User, NEW p \in Password, UpdatePassword(u, p)
      PROVE  TypeOK'
  BY <1>3 DEF UpdatePassword
<1>4. ASSUME NEW u \in User, NEW n \in Namespace, NEW r \in Role, AddRole(u, n, r)
      PROVE  TypeOK'
  <2>1. /\ memberRoles[u] \in [Namespace -> [Role -> 0..MaxCopies]]
        /\ memberRoles[u][n] \in [Role -> 0..MaxCopies]
        /\ HasRoom(memberRoles[u][n], {r}, MaxCopies)
    BY <1>4 DEF AddRole
  <2>2. Appended(memberRoles[u][n], {r}) \in [Role -> 0..MaxCopies]
    BY <2>1, AppendedRole
  <2>. QED  BY <2>1, <2>2, <1>4 DEF AddRole
<1>5. ASSUME NEW u \in User, NEW n \in Namespace, NEW r \in Role,
             RemoveRole(u, n, r)
      PROVE  TypeOK'
  <2>1. /\ memberRoles[u] \in [Namespace -> [Role -> 0..MaxCopies]]
        /\ memberRoles[u][n] \in [Role -> 0..MaxCopies]
    OBVIOUS
  <2>2. Filtered(memberRoles[u][n], r) \in [Role -> 0..MaxCopies]
    BY <2>1, FilteredRole
  <2>. QED  BY <2>1, <2>2, <1>5 DEF RemoveRole
<1>6. ASSUME NEW u \in User, NEW k \in Key, AddPublicKey(u, k) PROVE TypeOK'
  BY <1>6 DEF AddPublicKey
<1>7. ASSUME NEW u \in User, NEW k \in Key, RemovePublicKey(u, k) PROVE TypeOK'
  BY <1>7 DEF RemovePublicKey
<1>. QED  BY <1>1, <1>2, <1>3, <1>4, <1>5, <1>6, <1>7 DEF Next

\* The keyspace always has the shape users.go gives it.
THEOREM TypeCorrect == Spec => []TypeOK
<1>1. TypeOK /\ [Next]_usVars => TypeOK'
  BY NextTypeOK DEF TypeOK, usVars
<1>. QED  BY <1>1, InitTypeOK, PTL DEF Spec

\* AddRole adds the role and loses none, and RemoveRole takes it out whatever the
\* number of its copies, and no other role.
THEOREM RolesAreAsCalled == Spec => RoleCallsDoAsPromised
<1>1. TypeOK =>
        [\A u \in accounts, n \in Namespace, r \in Role :
           /\ AddRole(u, n, r)
                => Roles(u, n)' \ {Empty} = (Roles(u, n) \cup {r}) \ {Empty}
           /\ RemoveRole(u, n, r)
                => Roles(u, n)' \ {Empty} = Roles(u, n) \ {r, Empty}]_usVars
  <2>. SUFFICES ASSUME TypeOK, NEW u \in accounts, NEW n \in Namespace,
                       NEW r \in Role
                PROVE  /\ AddRole(u, n, r)
                            => Roles(u, n)' \ {Empty} = (Roles(u, n) \cup {r}) \ {Empty}
                       /\ RemoveRole(u, n, r)
                            => Roles(u, n)' \ {Empty} = Roles(u, n) \ {r, Empty}
    OBVIOUS
  <2>1. /\ u \in User
        /\ memberRoles[u] \in [Namespace -> [Role -> 0..MaxCopies]]
        /\ memberRoles[u][n] \in [Role -> 0..MaxCopies]
    BY DEF TypeOK
  <2>2. ASSUME AddRole(u, n, r)
        PROVE  Roles(u, n)' \ {Empty} = (Roles(u, n) \cup {r}) \ {Empty}
    <3>1. \A y : y # Empty =>
            (y \in Entries(Appended(memberRoles[u][n], {r}))
               <=> y \in Entries(memberRoles[u][n]) \cup {r})
      BY <2>1, <2>2, AppendedRole DEF AddRole
    <3>2. /\ memberRoles'[u][n] = Appended(memberRoles[u][n], {r})
          /\ accounts' = accounts
      BY <2>1, <2>2 DEF AddRole, TypeOK
    <3>3. /\ Roles(u, n)' = Entries(Appended(memberRoles[u][n], {r}))
          /\ Roles(u, n) = Entries(memberRoles[u][n])
      BY <3>2 DEF Roles
    <3>. QED  BY <3>1, <3>3
  <2>3. ASSUME RemoveRole(u, n, r)
        PROVE  Roles(u, n)' \ {Empty} = Roles(u, n) \ {r, Empty}
    <3>1. \A y : y # Empty =>
            (y \in Entries(Filtered(memberRoles[u][n], r))
               <=> y \in Entries(memberRoles[u][n]) \ {r})
      BY <2>1, FilteredRole
    <3>2. /\ memberRoles'[u][n] = Filtered(memberRoles[u][n], r)
          /\ accounts' = accounts
      BY <2>1, <2>3 DEF RemoveRole, TypeOK
    <3>3. /\ Roles(u, n)' = Entries(Filtered(memberRoles[u][n], r))
          /\ Roles(u, n) = Entries(memberRoles[u][n])
      BY <3>2 DEF Roles
    <3>. QED  BY <3>1, <3>3
  <2>. QED  BY <2>2, <2>3
<1>. QED  BY <1>1, TypeCorrect, PTL DEF RoleCallsDoAsPromised

-----------------------------------------------------------------------------
(* Logging in. *)

\* A key that is in the ring while the callback runs has been seen, and so
\* has one that admitted a client.
KeysAreSeen ==
  \A a \in Attempt :
    /\ Running(a) /\ Contains(claim[a].user, claim[a].key) => seen[a]
    /\ stage[a] = "accepted" => seen[a]

Inv == LoginTypeOK /\ KeysAreSeen

LEMMA InitInv == LoginInit => Inv
  BY DEF LoginInit, Inv, LoginTypeOK, KeysAreSeen, Running

LEMMA NextInv == Inv /\ [LoginNext]_vars => Inv'
<1> SUFFICES ASSUME Inv, [LoginNext]_vars PROVE Inv'
  OBVIOUS
<1> USE DEF Inv, LoginTypeOK, KeysAreSeen, Running
<1>1. ASSUME NEW a \in Attempt, NEW c \in Claim, Begin(a, c) PROVE Inv'
  <2>1. Contains(c.user, c.key)' <=> Contains(c.user, c.key)
    BY <1>1 DEF Begin, Contains, usVars
  <2>2. \A b \in Attempt : Contains(claim[b].user, claim[b].key)' /\ b # a
                             => Contains(claim[b].user, claim[b].key)
    BY <1>1 DEF Begin, Contains, usVars
  <2>3. Contains(c.user, c.key) \in BOOLEAN
    BY DEF Contains
  <2>4. LoginTypeOK'
    BY <1>1, <2>3 DEF Begin
  <2>5. KeysAreSeen'
    BY <1>1, <2>1, <2>2, <2>3 DEF Begin
  <2>6. QED
    BY <2>4, <2>5
<1>2. ASSUME NEW a \in Attempt, Callback(a) \/ Forget(a) PROVE Inv'
  <2>1. \A u, k : Contains(u, k)' <=> Contains(u, k)
    BY <1>2 DEF Callback, GetUser, CheckKey, Forget, Contains, usVars
  <2>2. CASE GetUser(a)
    BY <2>1, <2>2 DEF GetUser
  <2>3. CASE CheckKey(a)
    BY <2>1, <2>3 DEF CheckKey
  <2>4. CASE Forget(a)
    BY <2>1, <2>4 DEF Forget
  <2>5. QED
    BY <1>2, <2>2, <2>3, <2>4 DEF Callback
<1>3. CASE OtherCall
  BY <1>3 DEF OtherCall
<1>4. CASE UNCHANGED vars
  BY <1>4 DEF vars, loginVars, usVars, Contains
<1>5. QED
  BY <1>1, <1>2, <1>3, <1>4 DEF LoginNext

\* A client is only let in by a key that was in the ring of the account with
\* its name while the callback ran, whatever calls on the users keyspace come
\* between its two transactions.
THEOREM OnlyCurrentKeysAdmit == LoginSpec => []AdmittedByCurrentKey
<1>1. Inv => AdmittedByCurrentKey
  BY DEF Inv, KeysAreSeen, AdmittedByCurrentKey
<1>2. QED
  BY InitInv, NextInv, <1>1, PTL DEF LoginSpec
=============================================================================
