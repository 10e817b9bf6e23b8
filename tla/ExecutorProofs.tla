--------------------------- MODULE ExecutorProofs ---------------------------
(***************************************************************************)
(* The executor for every set of sessions, names and roles.  What the      *)
(* stores preserve is taken from the proofs about them, whose definitions  *)
(* are the ones NS and US name here.                                       *)
(***************************************************************************)
EXTENDS ExecutorAudit, TLAPS

NSP == INSTANCE NamespaceStoreProofs
\* The users keyspace is the one the logins read; none is under way.
USP == INSTANCE LoginProofs
         WITH Attempt <- {}, stage <- <<>>, claim <- <<>>, seen <- <<>>

LEMMA StoreFacts ==
  /\ NS!Init => NS!TypeOK
  /\ NS!TypeOK /\ NS!Next => NS!TypeOK'
  /\ NS!TypeOK /\ NS!NestedInBuckets /\ NS!Next => NS!NestedInBuckets'
  /\ US!Init => US!TypeOK
  /\ US!TypeOK /\ US!Next => US!TypeOK'
<1>1. NSP!StoreAssumption /\ USP!UserStoreAssumption
  BY ExecutorAssumption DEF NSP!StoreAssumption, USP!UserStoreAssumption
<1>2. NS!TypeOK <=> NSP!TypeOK
  BY DEF NS!TypeOK, NSP!TypeOK
<1>3. NS!Init <=> NSP!Init
  BY DEF NS!Init, NSP!Init, NS!NoUsers, NSP!NoUsers, NS!NoPerms, NSP!NoPerms,
     NS!NoEntries, NSP!NoEntries
<1>4. NS!Next <=> NSP!Next
  BY DEF NS!Next, NSP!Next, NS!Create, NSP!Create, NS!Delete, NSP!Delete,
     NS!AddUser, NSP!AddUser, NS!RemoveUser, NSP!RemoveUser, NS!AddRole,
     NSP!AddRole, NS!RemoveRole, NSP!RemoveRole, NS!GrantPermissions,
     NSP!GrantPermissions, NS!RevokePermission, NSP!RevokePermission,
     NS!CreateChild, NSP!CreateChild, NS!NoUsers, NSP!NoUsers, NS!NoPerms,
     NSP!NoPerms, NS!NoEntries, NSP!NoEntries, NS!Entries, NSP!Entries,
     NS!ReadsEmpty, NSP!ReadsEmpty, NS!Stored, NSP!Stored, NS!Appended,
     NSP!Appended, NS!Filtered, NSP!Filtered, NS!HasRoom, NSP!HasRoom
<1>5. US!TypeOK <=> USP!TypeOK
  BY DEF US!TypeOK, USP!TypeOK
<1>6. US!Init <=> USP!Init
  BY DEF US!Init, USP!Init, US!NoRoles, USP!NoRoles, US!NoEntries,
     USP!NoEntries
<1>7. US!Next <=> USP!Next
  BY DEF US!Next, USP!Next, US!Create, USP!Create, US!Delete, USP!Delete,
     US!UpdatePassword, USP!UpdatePassword, US!AddRole, USP!AddRole,
     US!RemoveRole, USP!RemoveRole, US!AddPublicKey, USP!AddPublicKey,
     US!RemovePublicKey, USP!RemovePublicKey, US!NoRoles, USP!NoRoles,
     US!NoEntries, USP!NoEntries, US!Entries, USP!Entries, US!ReadsEmpty,
     USP!ReadsEmpty, US!Stored, USP!Stored, US!Appended, USP!Appended,
     US!Filtered, USP!Filtered, US!HasRoom, USP!HasRoom
<1>8. NS!TypeOK' <=> NSP!TypeOK'
  BY DEF NS!TypeOK, NSP!TypeOK
<1>9. US!TypeOK' <=> USP!TypeOK'
  BY DEF US!TypeOK, USP!TypeOK
<1>10. /\ NS!NestedInBuckets <=> NSP!NestedInBuckets
       /\ NS!NestedInBuckets' <=> NSP!NestedInBuckets'
  BY DEF NS!NestedInBuckets, NSP!NestedInBuckets, NS!NoUsers, NSP!NoUsers,
     NS!NoEntries, NSP!NoEntries
<1>. QED
  BY <1>1, <1>2, <1>3, <1>4, <1>5, <1>6, <1>7, <1>8, <1>9, <1>10,
     NSP!InitTypeOK, NSP!NextTypeOK, NSP!NextNestedInBuckets,
     USP!InitTypeOK, USP!NextTypeOK

-----------------------------------------------------------------------------
(* The invariant: the types, what the handlers are doing, and what the
   namespaces keyspace keeps. *)

Inv == TypeOK /\ ControlOK /\ NS!NestedInBuckets

LEMMA InitInv == Init => Inv
<1>. SUFFICES ASSUME Init PROVE Inv
  OBVIOUS
<1>1. NS!TypeOK /\ US!TypeOK
  BY StoreFacts DEF Init
<1>2. SessionTypeOK /\ ControlOK
  BY DEF Init, SessionTypeOK, ControlOK, NoStatement, Call, Status
<1>3. NS!NestedInBuckets
  BY DEF Init, NS!Init, NS!NestedInBuckets, NS!NoPerms
<1>. QED  BY <1>1, <1>2, <1>3 DEF Inv, TypeOK

\* What the invariant says of a session that is executing a statement.
LEMMA Running ==
  ASSUME Inv, NEW s \in Session, pc[s] # "idle"
  PROVE  /\ stmt[s] \in Statement /\ Fits(s, pc[s])
         /\ stmt[s].op \in {"USE", "CREATE", "DROP"} => stmt[s].name \in Namespace
BY DEF Inv, ControlOK, Statement

\* Every step of the executor is a call of the stores' interfaces, or leaves
\* them alone.
LEMMA StoreSteps ==
  ASSUME Inv, [Next]_vars
  PROVE  [NS!Next]_namespaceVars /\ [US!Next]_accountVars
<1>. USE DEF Inv, TypeOK, SessionTypeOK, stores
<1>1. ASSUME NEW s \in Session, NEW st \in Statement, Submit(s, st)
      PROVE  UNCHANGED stores
  BY <1>1 DEF Submit
<1>2. ASSUME NEW s \in Session, RootCreate(s)
      PROVE  NS!Next /\ UNCHANGED accountVars
  <2>1. stmt[s].name \in Namespace
    BY <1>2, Running DEF RootCreate, Fits
  <2>. QED  BY <1>2, <2>1 DEF RootCreate, NS!Next
<1>3. ASSUME NEW s \in Session, CreateChild(s)
      PROVE  [NS!Next]_namespaceVars /\ UNCHANGED accountVars
  <2>1. /\ stmt[s] \in Statement
        /\ stmt[s].op = "CREATE" /\ stmt[s].name \notin Root
    BY <1>3, Running DEF CreateChild, Fits
  <2>2. stmt[s].name \in Namespace \ Root
    BY <2>1 DEF Statement
  <2>3. Parent[stmt[s].name] \in Namespace
    BY <2>2, ExecutorAssumption
  <2>. QED  BY <1>3, <2>2, <2>3 DEF CreateChild, NS!Next
<1>4. ASSUME NEW s \in Session, Handler(s), ~ RootCreate(s), ~ CreateChild(s)
      PROVE  UNCHANGED stores
  BY <1>4 DEF Handler, Failure, Step, Execute, KeyspaceFails, CreateFails, UseGet, UseList,
       CreateExists, RootGet, ReadRoles, GetParent, CheckRole, ShowNamespaces
<1>5. CASE OtherCall
  BY <1>5 DEF OtherCall
<1>6. CASE UNCHANGED vars
  BY <1>6 DEF vars
<1>. QED  BY <1>1, <1>2, <1>3, <1>4, <1>5, <1>6 DEF Next

LEMMA StoresKeepTheirParts ==
  ASSUME Inv, [Next]_vars
  PROVE  NS!TypeOK' /\ US!TypeOK' /\ NS!NestedInBuckets'
<1>1. [NS!Next]_namespaceVars /\ [US!Next]_accountVars
  BY StoreSteps
<1>2. NS!TypeOK'
  BY <1>1, StoreFacts DEF Inv, TypeOK, NS!TypeOK, namespaceVars
<1>3. US!TypeOK'
  BY <1>1, StoreFacts DEF Inv, TypeOK, US!TypeOK, accountVars
<1>4. NS!NestedInBuckets'
  BY <1>1, StoreFacts DEF Inv, TypeOK, NS!NestedInBuckets, namespaceVars
<1>. QED  BY <1>2, <1>3, <1>4

-----------------------------------------------------------------------------
(* The rest of the invariant.  A step of a handler returns, or goes on to a
   call that fits. *)

LEMMA LeaveKeeps ==
  ASSUME Inv, NEW s \in Session, NEW status \in Status \cup {"none"},
         Leave(s, status),
         current' \in [Session -> Namespace \cup {NoNamespace}],
         output' \in [Session -> SUBSET Namespace]
  PROVE  SessionTypeOK' /\ ControlOK'
<1>1. SessionTypeOK'
  BY DEF Inv, TypeOK, SessionTypeOK, Leave, Call
<1>2. ASSUME NEW t \in Session
      PROVE  IF pc'[t] = "idle" THEN stmt'[t] = NoStatement
             ELSE stmt'[t] \in Statement /\ Fits(t, pc[t])'
  <2>1. CASE t = s
    BY <2>1 DEF Inv, TypeOK, SessionTypeOK, Leave
  <2>2. CASE t # s
    BY <2>2 DEF Inv, TypeOK, SessionTypeOK, ControlOK, Leave, Fits, IsAdmin
  <2>. QED  BY <2>1, <2>2
<1>. QED  BY <1>1, <1>2 DEF ControlOK

LEMMA AdvanceKeeps ==
  ASSUME Inv, NEW s \in Session, NEW call \in Call \ {"idle"}, pc[s] # "idle",
         pc' = [pc EXCEPT ![s] = call], stmt' = stmt, user' = user,
         Fits(s, call)',
         \A t \in Session \ {s} : access'[t] = access[t]
  PROVE  pc' \in [Session -> Call] /\ ControlOK'
<1>1. pc' \in [Session -> Call] /\ pc'[s] = call
  BY DEF Inv, TypeOK, SessionTypeOK
<1>2. ASSUME NEW t \in Session
      PROVE  IF pc'[t] = "idle" THEN stmt'[t] = NoStatement
             ELSE stmt'[t] \in Statement /\ Fits(t, pc[t])'
  <2>1. CASE t = s
    BY <1>1, <2>1 DEF Inv, ControlOK, Fits, IsAdmin
  <2>2. CASE t # s
    <3>1. pc'[t] = pc[t] /\ access'[t] = access[t]
      BY <2>2 DEF Inv, TypeOK, SessionTypeOK
    <3>. QED  BY <3>1 DEF Inv, ControlOK, Fits, IsAdmin
  <2>. QED  BY <2>1, <2>2
<1>. QED  BY <1>1, <1>2 DEF ControlOK

LEMMA GotoKeeps ==
  ASSUME Inv, NEW s \in Session, NEW call \in Call \ {"idle"}, pc[s] # "idle",
         Goto(s, call), Fits(s, call)
  PROVE  SessionTypeOK' /\ ControlOK'
<1>1. Fits(s, call)'
  BY DEF Goto, Fits, IsAdmin
<1>2. pc' \in [Session -> Call] /\ ControlOK'
  BY <1>1, AdvanceKeeps DEF Goto
<1>. QED  BY <1>2 DEF Inv, TypeOK, SessionTypeOK, Goto

LEMMA ReturnKeeps ==
  ASSUME Inv, NEW s \in Session, NEW status \in Status \cup {"none"},
         Return(s, status)
  PROVE  SessionTypeOK' /\ ControlOK'
BY LeaveKeeps DEF Return, Inv, TypeOK, SessionTypeOK

LEMMA EnterKeeps ==
  ASSUME Inv, NEW s \in Session, NEW n \in Namespace, Enter(s, n)
  PROVE  SessionTypeOK' /\ ControlOK'
BY LeaveKeeps DEF Enter, Inv, TypeOK, SessionTypeOK, Status

\* By the actions of a session.
LEMMA SessionSteps ==
  ASSUME Inv, [Next]_vars
  PROVE  SessionTypeOK' /\ ControlOK'
<1>. USE DEF Call, Status
<1>1. ASSUME NEW s \in Session, NEW st \in Statement, Submit(s, st)
      PROVE  SessionTypeOK' /\ ControlOK'
  <2>1. SessionTypeOK'
    BY <1>1 DEF Submit, Inv, TypeOK, SessionTypeOK
  <2>2. ASSUME NEW t \in Session
        PROVE  IF pc'[t] = "idle" THEN stmt'[t] = NoStatement
               ELSE stmt'[t] \in Statement /\ Fits(t, pc[t])'
    <3>1. CASE t = s
      <4>1. pc'[s] = "dispatch" /\ stmt'[s] = st
        BY <1>1 DEF Submit, Inv, TypeOK, SessionTypeOK
      <4>. QED  BY <3>1, <4>1 DEF Fits
    <3>2. CASE t # s
      <4>1. /\ pc'[t] = pc[t] /\ stmt'[t] = stmt[t]
            /\ user' = user /\ access' = access
        BY <1>1, <3>2 DEF Submit, Inv, TypeOK, SessionTypeOK
      <4>. QED  BY <4>1 DEF Inv, ControlOK, Fits, IsAdmin
    <3>. QED  BY <3>1, <3>2
  <2>. QED  BY <2>1, <2>2 DEF ControlOK
<1>2. ASSUME NEW s \in Session, Execute(s) PROVE SessionTypeOK' /\ ControlOK'
  <2>1. pc[s] # "idle"
    BY <1>2 DEF Execute
  <2>. QED  BY <1>2, <2>1, ReturnKeeps, GotoKeeps DEF Execute, Fits
<1>3. ASSUME NEW s \in Session, Failure(s)
      PROVE  SessionTypeOK' /\ ControlOK'
  BY <1>3, ReturnKeeps DEF Failure, KeyspaceFails, CreateFails
<1>4. ASSUME NEW s \in Session, UseGet(s) PROVE SessionTypeOK' /\ ControlOK'
  <2>1. pc[s] # "idle" /\ stmt[s].name \in Namespace /\ Fits(s, "use.get")
    BY <1>4, Running DEF UseGet, Fits
  <2>. QED  BY <1>4, <2>1, ReturnKeeps, EnterKeeps, GotoKeeps DEF UseGet, Fits
<1>5. ASSUME NEW s \in Session, UseList(s) PROVE SessionTypeOK' /\ ControlOK'
  <2>1. stmt[s].name \in Namespace
    BY <1>5, Running DEF UseList, Fits
  <2>. QED  BY <1>5, <2>1, ReturnKeeps, EnterKeeps DEF UseList
<1>6. ASSUME NEW s \in Session, CreateExists(s)
      PROVE  SessionTypeOK' /\ ControlOK'
  <2>1. pc[s] # "idle" /\ Fits(s, "create.exists")
    BY <1>6, Running DEF CreateExists
  <2>. QED  BY <1>6, <2>1, ReturnKeeps, GotoKeeps DEF CreateExists, Fits
<1>7. ASSUME NEW s \in Session, RootGet(s) PROVE SessionTypeOK' /\ ControlOK'
  <2>1. pc[s] # "idle" /\ Fits(s, "root.get")
    BY <1>7, Running DEF RootGet
  <2>. QED  BY <1>7, <2>1, ReturnKeeps, GotoKeeps DEF RootGet, Fits
<1>8. ASSUME NEW s \in Session, RootCreate(s) PROVE SessionTypeOK' /\ ControlOK'
  BY <1>8, ReturnKeeps DEF RootCreate
<1>9. ASSUME NEW s \in Session, ReadRoles(s) PROVE SessionTypeOK' /\ ControlOK'
  <2>1. pc[s] # "idle" /\ Fits(s, "create.roles")
    BY <1>9, Running DEF ReadRoles
  <2>2. Fits(s, "create.parent")'
    BY <1>9, <2>1 DEF ReadRoles, Fits, IsAdmin
  <2>3. pc' \in [Session -> Call] /\ ControlOK'
    BY <1>9, <2>1, <2>2, AdvanceKeeps DEF ReadRoles
  <2>4. user[s] \in User
    BY <2>1, ExecutorAssumption DEF Fits, IsAdmin, Inv, TypeOK, SessionTypeOK
  <2>5. US!Roles(user[s], Parent[stmt[s].name]) \in SUBSET Role
    BY <2>4, <2>1, Running, ExecutorAssumption
       DEF US!Roles, US!Entries, Fits, Inv, TypeOK, US!TypeOK
  <2>. QED  BY <1>9, <2>3, <2>5 DEF ReadRoles, Inv, TypeOK, SessionTypeOK
<1>10. ASSUME NEW s \in Session, GetParent(s)
       PROVE  SessionTypeOK' /\ ControlOK'
  <2>1. pc[s] # "idle" /\ Fits(s, "create.parent")
    BY <1>10, Running DEF GetParent
  <2>. QED  BY <1>10, <2>1, ReturnKeeps, GotoKeeps DEF GetParent, Fits
<1>11. ASSUME NEW s \in Session, NEW r \in Role, CheckRole(s, r)
       PROVE  SessionTypeOK' /\ ControlOK'
  <2>. DEFINE granted == access[s] \/ NS!HasPermission(Parent[stmt[s].name], r,
                                                        CreateNamespace)
              rest == pending[s] \ {r}
              next == IF rest = {} THEN "create.child" ELSE "create.permission"
  <2>1. pc[s] = "create.permission" /\ Fits(s, "create.permission")
    BY <1>11, Running DEF CheckRole
  <2>2. CASE Return(s, "Unauthorized")
    BY <2>2, ReturnKeeps
  <2>3. CASE /\ rest # {} \/ granted
             /\ pending' = [pending EXCEPT ![s] = rest]
             /\ access' = [access EXCEPT ![s] = granted]
             /\ pc' = [pc EXCEPT ![s] = next]
             /\ UNCHANGED <<user, current, stmt, reply, output>>
    <3>1. granted \in BOOLEAN
      BY DEF Inv, TypeOK, SessionTypeOK, NS!HasPermission
    <3>2. /\ access' \in [Session -> BOOLEAN] /\ access'[s] = granted
          /\ \A t \in Session \ {s} : access'[t] = access[t]
      BY <2>3, <3>1 DEF Inv, TypeOK, SessionTypeOK
    <3>3. ASSUME rest = {} PROVE pc' \in [Session -> Call] /\ ControlOK'
      <4>1. Fits(s, "create.child")'
        BY <2>1, <2>3, <3>2, <3>3 DEF Fits, IsAdmin
      <4>. QED  BY <2>1, <2>3, <3>2, <3>3, <4>1, AdvanceKeeps
    <3>4. ASSUME rest # {} PROVE pc' \in [Session -> Call] /\ ControlOK'
      <4>1. Fits(s, "create.permission")'
        BY <2>1, <2>3, <3>2, <3>4 DEF Fits, IsAdmin
      <4>. QED  BY <2>1, <2>3, <3>2, <3>4, <4>1, AdvanceKeeps
    <3>5. pc' \in [Session -> Call] /\ ControlOK'
      BY <3>3, <3>4
    <3>. QED  BY <2>3, <3>2, <3>5 DEF Inv, TypeOK, SessionTypeOK
  <2>. QED  BY <1>11, <2>1, <2>2, <2>3 DEF CheckRole
<1>12. ASSUME NEW s \in Session, CreateChild(s)
       PROVE  SessionTypeOK' /\ ControlOK'
  BY <1>12, ReturnKeeps DEF CreateChild
<1>13. ASSUME NEW s \in Session, ShowNamespaces(s)
       PROVE  SessionTypeOK' /\ ControlOK'
  <2>1. pc[s] # "idle" /\ Fits(s, "show")
    BY <1>13, Running DEF ShowNamespaces
  <2>2. user[s] \in User \cup {Admin}
    BY <2>1, ExecutorAssumption DEF Fits, Inv, TypeOK, SessionTypeOK
  <2>3. (IF IsAdmin(s) THEN buckets ELSE US!Namespaces(user[s])) \in SUBSET Namespace
    BY <2>2 DEF IsAdmin, US!Namespaces, Inv, TypeOK, NS!TypeOK, US!TypeOK
  <2>. QED
    BY <1>13, <2>3, LeaveKeeps DEF ShowNamespaces, Inv, TypeOK, SessionTypeOK
<1>14. CASE OtherCall \/ UNCHANGED vars
  BY <1>14 DEF OtherCall, vars, sessions, Inv, TypeOK, SessionTypeOK, ControlOK,
               Fits, IsAdmin
<1>. QED
  BY <1>1, <1>2, <1>3, <1>4, <1>5, <1>6, <1>7, <1>8, <1>9, <1>10, <1>11, <1>12,
     <1>13, <1>14 DEF Next, Handler, Step

LEMMA InvKept == Inv /\ [Next]_vars => Inv'
BY StoresKeepTheirParts, SessionSteps DEF Inv, TypeOK

LEMMA InvHolds == Spec => []Inv
BY InitInv, InvKept, PTL DEF Spec

\* The stores and the sessions keep their types, whatever number of sessions
\* and other callers interleave.
THEOREM TypeCorrect == Spec => []TypeOK
<1>1. Inv => TypeOK
  BY DEF Inv
<1>. QED  BY <1>1, InvHolds, PTL

\* A handler is never at a call that its statement and its user do not lead to.
THEOREM ControlCorrect == Spec => []ControlOK
<1>1. Inv => ControlOK
  BY DEF Inv
<1>. QED  BY <1>1, InvHolds, PTL

-----------------------------------------------------------------------------
(* What a statement may do. *)

\* A statement that returns is over, and answered.
LEMMA LeaveAnswers ==
  ASSUME Inv, NEW s \in Session, NEW status, Leave(s, status)
  PROVE  pc'[s] = "idle" /\ reply'[s] = status
BY DEF Inv, TypeOK, SessionTypeOK, Leave

\* Before its last step a statement has changed nothing, and the last step
\* changes something only with the answer OK.
THEOREM StatementsAreAllOrNothing == Spec => OnlySuccessChangesAnything
<1>1. ASSUME Inv, NEW s \in Session, Handler(s),
             reply'[s] # "OK" \/ pc'[s] # "idle"
      PROVE  stores' = stores /\ current'[s] = current[s]
  <2>1. ~ Return(s, "OK") /\ \A n \in Namespace : ~ Enter(s, n)
    BY <1>1, LeaveAnswers DEF Return, Enter
  <2>2. CASE \/ Execute(s) \/ CreateExists(s) \/ RootGet(s) \/ ReadRoles(s)
             \/ GetParent(s) \/ (\E r \in Role : CheckRole(s, r))
             \/ ShowNamespaces(s)
    BY <2>2 DEF Execute, CreateExists, RootGet, ReadRoles, GetParent, CheckRole,
                ShowNamespaces, Return, Goto
  <2>3. CASE UseGet(s) \/ UseList(s)
    <3>1. stmt[s].name \in Namespace
      BY <1>1, <2>3, Running DEF UseGet, UseList, Fits
    <3>. QED  BY <2>1, <2>3, <3>1 DEF UseGet, UseList, Return, Goto
  <2>4. CASE RootCreate(s)
    BY <2>1, <2>4 DEF RootCreate
  <2>5. CASE CreateChild(s)
    BY <2>1, <2>5 DEF CreateChild, Return
  <2>6. CASE Failure(s)
    BY <2>6 DEF Failure, KeyspaceFails, CreateFails, Return
  <2>. QED  BY <1>1, <2>2, <2>3, <2>4, <2>5, <2>6 DEF Handler, Step
<1>2. Inv => [\A s \in Session :
                Handler(s) /\ (reply'[s] # "OK" \/ pc'[s] # "idle") =>
                  stores' = stores /\ current'[s] = current[s]]_vars
  BY <1>1
<1>. QED  BY <1>2, InvHolds, PTL DEF OnlySuccessChangesAnything

\* A session enters a namespace only for the admin or for a user whose account
\* lists it at that instant.
THEOREM OnlyMembersEnter == Spec => EnteredByMembers
<1>1. ASSUME Inv, Next, NEW s \in Session, current'[s] # current[s]
      PROVE  /\ current'[s] = stmt[s].name /\ reply'[s] = "OK"
             /\ IsAdmin(s) \/ current'[s] \in US!Namespaces(user[s])
  <2>1. ASSUME NEW t \in Session, NEW n, Enter(t, n)
        PROVE  s = t /\ current'[s] = n /\ reply'[s] = "OK"
    <3>1. s = t /\ current'[s] = n
      BY <1>1, <2>1 DEF Enter, Inv, TypeOK, SessionTypeOK
    <3>. QED  BY <1>1, <2>1, <3>1, LeaveAnswers DEF Enter
  <2>2. PICK t \in Session : Enter(t, stmt[t].name) /\ (UseGet(t) \/ UseList(t))
    <3>1. ASSUME NEW t \in Session, NEW st \in Statement, Submit(t, st)
          PROVE  FALSE
      BY <1>1, <3>1 DEF Submit
    <3>2. ASSUME NEW t \in Session, UseGet(t) \/ UseList(t)
          PROVE  Enter(t, stmt[t].name)
      BY <1>1, <3>2 DEF UseGet, UseList, Return, Goto
    <3>3. ASSUME NEW t \in Session, Handler(t), ~ UseGet(t), ~ UseList(t)
          PROVE  FALSE
      BY <1>1, <3>3 DEF Handler, Failure, Step, Execute, KeyspaceFails, CreateFails, CreateExists, RootGet,
           RootCreate, ReadRoles, GetParent, CheckRole, CreateChild, ShowNamespaces,
           Return, Goto
    <3>4. ~ OtherCall
      BY <1>1 DEF OtherCall, sessions
    <3>. QED  BY <1>1, <3>1, <3>2, <3>3, <3>4 DEF Next
  <2>3. s = t /\ current'[s] = stmt[s].name /\ reply'[s] = "OK"
    BY <2>1, <2>2
  <2>4. CASE UseGet(s)
    BY <1>1, <2>3, <2>4 DEF UseGet, Return, Goto
  <2>5. CASE UseList(s)
    BY <1>1, <2>3, <2>5 DEF UseList, Return
  <2>. QED  BY <2>2, <2>3, <2>4, <2>5
<1>2. Inv /\ [Next]_vars =>
        [\A s \in Session :
           current'[s] # current[s] =>
             /\ current'[s] = stmt[s].name /\ reply'[s] = "OK"
             /\ IsAdmin(s) \/ current'[s] \in US!Namespaces(user[s])]_vars
  BY <1>1
<1>. QED  BY <1>2, InvHolds, PTL DEF Spec, EnteredByMembers

\* A statement creates the namespace it names, a root for the admin only and a
\* child only below a parent, with the parent's roles and permissions.
THEOREM NamespacesAreCreatedFromTheirParents == Spec => CreatedFromItsParent
<1>1. ASSUME Inv, NEW s \in Session, NEW n \in Namespace, Handler(s),
             n \in buckets' \ buckets
      PROVE  /\ n = stmt[s].name /\ reply'[s] = "OK"
             /\ n \in Root => IsAdmin(s)
             /\ n \notin Root =>
                  /\ Parent[n] \in buckets
                  /\ roles'[n] = roles[Parent[n]]
                  /\ perms'[n] = perms[Parent[n]]
  <2>1. /\ roles[n] = {}
        /\ \A r \in Role : perms[n][r] = NS!NoEntries(Permission)
        /\ \A m \in Namespace, r \in Role :
             r \notin roles[m] => perms[m][r] = NS!NoEntries(Permission)
    BY <1>1 DEF Inv, NS!NestedInBuckets
  <2>2. RootCreate(s) \/ CreateChild(s)
    BY <1>1 DEF Handler, Failure, KeyspaceFails, CreateFails, Step, Execute, UseGet,
         UseList, CreateExists, RootGet, ReadRoles, GetParent, CheckRole,
         ShowNamespaces, stores, namespaceVars
  <2>3. CASE RootCreate(s)
    <3>1. Fits(s, "root.create")
      BY <1>1, <2>3, Running DEF RootCreate
    <3>2. reply'[s] = "OK"
      BY <1>1, <2>3, LeaveAnswers DEF RootCreate, Return
    <3>. QED  BY <1>1, <2>1, <2>3, <3>1, <3>2 DEF RootCreate, NS!Create, Fits
  <2>4. CASE CreateChild(s)
    <3>. DEFINE p == Parent[n]
    <3>1. Fits(s, "create.child")
      BY <1>1, <2>4, Running DEF CreateChild
    <3>2. n = stmt[s].name /\ NS!CreateChild(p, n) /\ Return(s, "OK")
      BY <1>1, <2>4 DEF CreateChild, NS!CreateChild, stores, namespaceVars
    <3>3. reply'[s] = "OK"
      BY <1>1, <3>2, LeaveAnswers DEF Return
    <3>4. p \in Namespace /\ p \in buckets
      BY <1>1, <3>2 DEF NS!CreateChild, Inv, TypeOK, NS!TypeOK
    <3>5. roles'[n] = roles[p]
      BY <1>1, <2>1, <3>2, <3>4 DEF NS!CreateChild, Inv, TypeOK, NS!TypeOK
    <3>6. perms'[n] = [r \in Role |-> IF r \in roles[p] THEN perms[p][r]
                                                        ELSE perms[n][r]]
      BY <1>1, <3>2 DEF NS!CreateChild, Inv, TypeOK, NS!TypeOK
    <3>7. perms[p] = [r \in Role |-> perms[p][r]]
      BY <1>1, <3>4 DEF Inv, TypeOK, NS!TypeOK
    <3>8. \A r \in Role : r \notin roles[p] => perms[n][r] = perms[p][r]
      BY <2>1, <3>4
    <3>9. perms'[n] = perms[p]
      BY <3>6, <3>7, <3>8
    <3>. QED  BY <3>1, <3>2, <3>3, <3>4, <3>5, <3>9 DEF Fits
  <2>. QED  BY <2>2, <2>3, <2>4
<1>2. Inv => [\A s \in Session, n \in Namespace :
                Handler(s) /\ n \in buckets' \ buckets =>
                  /\ n = stmt[s].name /\ reply'[s] = "OK"
                  /\ n \in Root => IsAdmin(s)
                  /\ n \notin Root =>
                       /\ Parent[n] \in buckets
                       /\ roles'[n] = roles[Parent[n]]
                       /\ perms'[n] = perms[Parent[n]]]_vars
  BY <1>1
<1>. QED  BY <1>2, InvHolds, PTL DEF CreatedFromItsParent

-----------------------------------------------------------------------------
(* How statements are decided.  While a statement runs, what the session has
   found so far is true of the stores if nobody has written to them since. *)

\* The roles a session has still to check were its user's during this
\* statement, and access was granted by one that was permitted too.
Warranted(s) ==
  /\ pending[s] \subseteq held[s]
  /\ access[s] => held[s] \cap permitted[s] # {}

\* A session that executes nothing has no local variables; access is decided
\* by the scan.
LocalsFit(s) ==
  /\ pc[s] = "idle" => pending[s] = {}
  /\ pc[s] \notin {"create.permission", "create.child"} => ~ access[s]

\* What the calls made before this one say of the stores.
FoundBefore(s, call, left, granted) ==
  LET n == stmt[s].name
      may == HeldNow(s) \cap PermittedNow(s) # {}
  IN
  /\ call = "use.list" => NS!Exists(n)
  /\ call \in {"root.get", "root.create", "create.roles", "create.parent",
               "create.permission", "create.child"} => ~ NS!Exists(n)
  /\ call = "create.parent" /\ ~ IsAdmin(s) => left = HeldNow(s)
  /\ call \in {"create.permission", "create.child"} => NS!Exists(Parent[n])
  /\ call = "create.permission" =>
       (may <=> granted \/ left \cap PermittedNow(s) # {})
  /\ call = "create.child" /\ ~ IsAdmin(s) => may

Found(s) == FoundBefore(s, pc[s], pending[s], access[s])

\* Undisturbed, the statement still deserves the verdict it did, and has it when
\* it is over.
OnCourse(s) ==
  quiet[s] => IF pc[s] = "idle" THEN reply[s] = verdict[s]
              ELSE verdict[s] = Verdict(s) /\ Found(s)

AuditInv ==
  /\ Inv
  /\ DOMAIN verdict = Session
  /\ \A s \in Session : LocalsFit(s) /\ Warranted(s) /\ OnCourse(s)

LEMMA AuditStepsAreSteps ==
  ASSUME [AuditNext]_auditVars
  PROVE  [Next]_vars
BY DEF AuditNext, auditVars, Next, Handler

\* What is said of a statement depends on the stores, its user and its text.
LEMMA SameStores ==
  ASSUME NEW s \in Session, stores' = stores,
         user'[s] = user[s], stmt'[s] = stmt[s]
  PROVE  /\ HeldNow(s)' = HeldNow(s)
         /\ PermittedNow(s)' = PermittedNow(s)
         /\ Verdict(s)' = Verdict(s)
<1>1. /\ buckets' = buckets /\ roles' = roles /\ perms' = perms
      /\ accounts' = accounts /\ joined' = joined /\ memberRoles' = memberRoles
  BY DEF stores, namespaceVars, accountVars
<1>2. NeedsPermission(s)' <=> NeedsPermission(s)
  BY DEF NeedsPermission
<1>3. HeldNow(s)' = HeldNow(s)
  BY <1>1, <1>2 DEF HeldNow, US!Roles
<1>4. PermittedNow(s)' = PermittedNow(s)
  BY <1>1, <1>2 DEF PermittedNow, NS!HasPermission
<1>5. Verdict(s)' = Verdict(s)
  BY <1>1, <1>3, <1>4 DEF Verdict, US!Namespaces, NS!Exists, IsAdmin
<1>. QED  BY <1>3, <1>4, <1>5

LEMMA SameFindings ==
  ASSUME NEW s \in Session, stores' = stores,
         user'[s] = user[s], stmt'[s] = stmt[s]
  PROVE  Found(s)' <=> FoundBefore(s, pc'[s], pending'[s], access'[s])
<1>1. HeldNow(s)' = HeldNow(s) /\ PermittedNow(s)' = PermittedNow(s)
  BY SameStores
<1>2. buckets' = buckets
  BY DEF stores, namespaceVars
<1>. QED  BY <1>1, <1>2 DEF Found, FoundBefore, NS!Exists, IsAdmin

\* A statement that others run beside is no worse off than undisturbed.
LEMMA BystanderKeeps ==
  ASSUME AuditInv, NEW s \in Session, NEW by, s \notin by, Observe(by),
         user'[s] = user[s], pc'[s] = pc[s], stmt'[s] = stmt[s],
         pending'[s] = pending[s], access'[s] = access[s], reply'[s] = reply[s],
         verdict'[s] = verdict[s]
  PROVE  LocalsFit(s)' /\ Warranted(s)' /\ OnCourse(s)'
<1>. USE DEF AuditInv
<1>1. LocalsFit(s)'
  BY DEF LocalsFit
<1>2. Warranted(s)'
  <2>1. CASE pc[s] = "idle"
    BY <2>1 DEF LocalsFit, Warranted
  <2>2. CASE pc[s] # "idle"
    <3>1. held[s] \subseteq held'[s] /\ permitted[s] \subseteq permitted'[s]
      BY <2>2 DEF Observe
    <3>. QED  BY <3>1 DEF Warranted
  <2>. QED  BY <2>1, <2>2
<1>3. ASSUME quiet'[s] PROVE quiet[s] /\ stores' = stores
  BY <1>3 DEF Observe
<1>4. ASSUME quiet'[s] PROVE Found(s)' <=> Found(s)
  BY <1>3, <1>4, SameFindings DEF Found
<1>5. OnCourse(s)'
  BY <1>3, <1>4, SameStores DEF OnCourse
<1>. QED  BY <1>1, <1>2, <1>5

\* A statement that returns what it deserves.
LEMMA LeaveDecides ==
  ASSUME AuditInv, NEW s \in Session, Observe({s}), pc[s] # "idle",
         NEW status, Leave(s, status), quiet[s] => status = verdict'[s]
  PROVE  LocalsFit(s)' /\ Warranted(s)' /\ OnCourse(s)'
<1>1. /\ pc'[s] = "idle" /\ pending'[s] = {} /\ ~ access'[s]
      /\ reply'[s] = status
  BY DEF AuditInv, Inv, TypeOK, SessionTypeOK, Leave
<1>2. quiet'[s] => quiet[s]
  BY DEF Observe
<1>. QED  BY <1>1, <1>2 DEF LocalsFit, Warranted, OnCourse

\* A statement that goes on knows no more than it has found.
LEMMA ProgressDecides ==
  ASSUME AuditInv, NEW s \in Session, Observe({s}), UNCHANGED <<stores, user, stmt>>,
         verdict' = verdict, pc[s] # "idle", pc'[s] # "idle",
         LocalsFit(s)',
         pending'[s] \subseteq held[s] \cup HeldNow(s),
         access'[s] => access[s] \/ held[s] \cap PermittedNow(s) # {},
         quiet[s] => FoundBefore(s, pc'[s], pending'[s], access'[s])
  PROVE  LocalsFit(s)' /\ Warranted(s)' /\ OnCourse(s)'
<1>1. /\ HeldNow(s)' = HeldNow(s) /\ PermittedNow(s)' = PermittedNow(s)
      /\ Verdict(s)' = Verdict(s)
  BY SameStores
<1>2. /\ held'[s] = held[s] \cup HeldNow(s)
      /\ permitted'[s] = permitted[s] \cup PermittedNow(s)
      /\ quiet'[s] => quiet[s]
  BY <1>1 DEF Observe
<1>3. Warranted(s)'
  BY <1>2 DEF AuditInv, Warranted
<1>4. OnCourse(s)'
  BY <1>1, <1>2, SameFindings DEF AuditInv, OnCourse
<1>. QED  BY <1>3, <1>4

\* A session's step touches no other session's variables.
LEMMA OthersAreLeftAlone ==
  ASSUME Inv, NEW s \in Session,
         (\E st \in Statement : Submit(s, st)) \/ Handler(s),
         NEW t \in Session \ {s}
  PROVE  /\ user'[t] = user[t] /\ pc'[t] = pc[t] /\ stmt'[t] = stmt[t]
         /\ pending'[t] = pending[t] /\ access'[t] = access[t]
         /\ reply'[t] = reply[t]
<1>. USE DEF Inv, TypeOK, SessionTypeOK
<1>1. CASE \E st \in Statement : Submit(s, st)
  BY <1>1 DEF Submit
<1>2. CASE \/ Execute(s) \/ Failure(s) \/ UseGet(s) \/ UseList(s)
           \/ CreateExists(s) \/ RootGet(s)
  BY <1>2 DEF Execute, Failure, KeyspaceFails, CreateFails, UseGet, UseList, CreateExists, RootGet,
              Return, Enter, Leave, Goto
<1>3. CASE \/ RootCreate(s) \/ ReadRoles(s) \/ GetParent(s)
           \/ (\E r \in Role : CheckRole(s, r))
           \/ CreateChild(s) \/ ShowNamespaces(s)
  BY <1>3 DEF RootCreate, ReadRoles, GetParent, CheckRole, CreateChild,
              ShowNamespaces, Return, Leave, Goto
<1>. QED  BY <1>1, <1>2, <1>3 DEF Handler, Step

\* Submit asks for the verdict anew.
LEMMA SubmitDecides ==
  ASSUME AuditInv, NEW s \in Session, NEW st \in Statement, Submit(s, st),
         Observe({s}), verdict' = [verdict EXCEPT ![s] = Verdict(s)']
  PROVE  LocalsFit(s)' /\ Warranted(s)' /\ OnCourse(s)'
<1>1. /\ pc'[s] = "dispatch" /\ pending'[s] = {} /\ ~ access'[s]
      /\ verdict'[s] = Verdict(s)'
  BY DEF AuditInv, Inv, TypeOK, SessionTypeOK, LocalsFit, Submit
<1>. QED  BY <1>1 DEF LocalsFit, Warranted, OnCourse, Found, FoundBefore

\* Every step of a handler keeps to the verdict.
LEMMA StepDecides ==
  ASSUME AuditInv, NEW s \in Session, Step(s), Observe({s}), verdict' = verdict
  PROVE  LocalsFit(s)' /\ Warranted(s)' /\ OnCourse(s)'
<1>. DEFINE n == stmt[s].name
            Good == LocalsFit(s)' /\ Warranted(s)' /\ OnCourse(s)'
<1>1. /\ pc[s] # "idle" /\ stmt[s] \in Statement /\ Fits(s, pc[s])
      /\ LocalsFit(s) /\ Warranted(s)
      /\ quiet[s] => verdict'[s] = Verdict(s) /\ Found(s)
      /\ Inv
  <2>1. pc[s] # "idle"
    BY DEF Step, Execute, UseGet, UseList, CreateExists, RootGet, RootCreate,
           ReadRoles, GetParent, CheckRole, CreateChild, ShowNamespaces
  <2>. QED  BY <2>1, Running DEF AuditInv, OnCourse
<1>2. ASSUME NEW status, Return(s, status), quiet[s] => status = Verdict(s)
      PROVE  Good
  BY <1>1, <1>2, LeaveDecides DEF Return
<1>3. ASSUME NEW m, Enter(s, m), quiet[s] => "OK" = Verdict(s)
      PROVE  Good
  BY <1>1, <1>3, LeaveDecides DEF Enter
\* From call to call without an answer, the roles not yet read.
<1>4. ASSUME NEW call \in Call \ {"idle"}, Goto(s, call), stores' = stores,
             call \notin {"create.child"} => ~ access[s],
             quiet[s] => FoundBefore(s, call, pending[s], access[s])
      PROVE  Good
  <2>1. /\ UNCHANGED <<user, stmt>> /\ pc'[s] = call
        /\ pending'[s] = pending[s] /\ access'[s] = access[s]
    BY <1>1, <1>4 DEF Goto, Inv, TypeOK, SessionTypeOK
  <2>2. LocalsFit(s)'
    BY <1>4, <2>1 DEF LocalsFit
  <2>. QED  BY <1>1, <1>4, <2>1, <2>2, ProgressDecides DEF Warranted
<1>5. stmt[s].op \in {"USE", "CREATE", "DROP"} => n \in Namespace
  BY <1>1 DEF Statement
<1>. USE DEF Call, Fits
<1>6. CASE Execute(s)
  <2>1. CASE user[s] = NoUser
    BY <1>1, <1>2, <1>6, <2>1 DEF Execute, Verdict
  <2>2. CASE user[s] # NoUser /\ stmt[s].op = "USE"
    BY <1>1, <1>4, <1>6, <2>2 DEF Execute, LocalsFit, FoundBefore
  <2>3. CASE user[s] # NoUser /\ stmt[s].op = "CREATE"
    BY <1>1, <1>4, <1>6, <2>3 DEF Execute, LocalsFit, FoundBefore
  <2>4. CASE user[s] # NoUser /\ stmt[s].op = "SHOW"
    BY <1>1, <1>4, <1>6, <2>4 DEF Execute, LocalsFit, FoundBefore
  <2>5. CASE user[s] # NoUser /\ stmt[s].op = "DROP"
    BY <1>1, <1>2, <1>6, <2>5 DEF Execute, Verdict
  <2>. QED  BY <1>6, <2>1, <2>2, <2>3, <2>4, <2>5 DEF Execute
<1>7. CASE UseGet(s)
  <2>1. user[s] # NoUser /\ stmt[s].op = "USE" /\ ~ access[s] /\ stores' = stores
    BY <1>1, <1>7 DEF UseGet, LocalsFit
  <2>2. CASE ~ NS!Exists(n) /\ Return(s, "NamespaceDoesNotExist")
    BY <1>1, <1>2, <2>1, <2>2 DEF Verdict
  <2>3. CASE NS!Exists(n) /\ IsAdmin(s) /\ Enter(s, n)
    BY <1>1, <1>3, <2>1, <2>3 DEF Verdict
  <2>4. CASE NS!Exists(n) /\ ~ IsAdmin(s) /\ Goto(s, "use.list")
    BY <1>1, <1>4, <2>1, <2>4 DEF FoundBefore
  <2>. QED  BY <1>7, <2>2, <2>3, <2>4 DEF UseGet
<1>8. CASE UseList(s)
  <2>1. /\ user[s] # NoUser /\ stmt[s].op = "USE" /\ ~ IsAdmin(s)
        /\ quiet[s] => NS!Exists(n)
    BY <1>1, <1>8 DEF UseList, Found, FoundBefore
  <2>2. CASE n \in US!Namespaces(user[s]) /\ Enter(s, n)
    BY <1>1, <1>3, <2>1, <2>2 DEF Verdict
  <2>3. CASE n \notin US!Namespaces(user[s]) /\ Return(s, "Unauthorized")
    BY <1>1, <1>2, <2>1, <2>3 DEF Verdict
  <2>. QED  BY <1>8, <2>2, <2>3 DEF UseList
<1>9. CASE CreateExists(s)
  <2>1. user[s] # NoUser /\ stmt[s].op = "CREATE" /\ ~ access[s] /\ stores' = stores
    BY <1>1, <1>9 DEF CreateExists, LocalsFit
  <2>2. CASE NS!Exists(n) /\ Return(s, "NamespaceAlreadyExists")
    BY <1>1, <1>2, <2>1, <2>2 DEF Verdict
  <2>3. CASE ~ NS!Exists(n) /\ n \in Root /\ Goto(s, "root.get")
    BY <1>1, <1>4, <2>1, <2>3 DEF FoundBefore
  <2>4. CASE ~ NS!Exists(n) /\ IsAdmin(s) /\ Goto(s, "create.parent")
    BY <1>1, <1>4, <2>1, <2>4 DEF FoundBefore
  <2>5. CASE ~ NS!Exists(n) /\ ~ IsAdmin(s) /\ Goto(s, "create.roles")
    BY <1>1, <1>4, <2>1, <2>5 DEF FoundBefore
  <2>. QED  BY <1>9, <2>2, <2>3, <2>4, <2>5 DEF CreateExists
<1>10. CASE RootGet(s)
  <2>1. /\ user[s] # NoUser /\ stmt[s].op = "CREATE" /\ n \in Root /\ ~ access[s]
        /\ stores' = stores
        /\ quiet[s] => ~ NS!Exists(n)
    BY <1>1, <1>10 DEF RootGet, LocalsFit, Found, FoundBefore
  <2>2. CASE NS!Exists(n) /\ Return(s, "NamespaceAlreadyExists")
    BY <1>2, <2>1, <2>2
  <2>3. CASE ~ NS!Exists(n) /\ IsAdmin(s) /\ Goto(s, "root.create")
    BY <1>1, <1>4, <2>1, <2>3 DEF FoundBefore
  <2>4. CASE ~ NS!Exists(n) /\ ~ IsAdmin(s) /\ Return(s, "Unauthorized")
    BY <1>1, <1>2, <2>1, <2>4 DEF Verdict
  <2>. QED  BY <1>10, <2>2, <2>3, <2>4 DEF RootGet
<1>11. CASE RootCreate(s)
  <2>1. /\ user[s] # NoUser /\ stmt[s].op = "CREATE" /\ n \in Root /\ IsAdmin(s)
        /\ quiet[s] => ~ NS!Exists(n)
    BY <1>1, <1>11 DEF RootCreate, Found, FoundBefore
  <2>. QED  BY <1>1, <1>2, <1>11, <2>1 DEF RootCreate, Verdict
<1>12. CASE ReadRoles(s)
  <2>1. /\ stmt[s].op = "CREATE" /\ n \notin Root /\ ~ IsAdmin(s)
        /\ user[s] # NoUser /\ ~ access[s]
        /\ quiet[s] => ~ NS!Exists(n)
    BY <1>1, <1>12 DEF ReadRoles, LocalsFit, Found, FoundBefore
  <2>2. HeldNow(s) = US!Roles(user[s], Parent[n])
    BY <2>1 DEF HeldNow, NeedsPermission, IsAdmin
  <2>3. /\ pc'[s] = "create.parent" /\ pending'[s] = HeldNow(s) /\ ~ access'[s]
        /\ UNCHANGED <<stores, user, stmt>>
    BY <1>1, <1>12, <2>1, <2>2 DEF ReadRoles, Inv, TypeOK, SessionTypeOK
  <2>4. quiet[s] => FoundBefore(s, pc'[s], pending'[s], access'[s])
    BY <2>1, <2>3 DEF FoundBefore
  <2>. QED  BY <1>1, <2>3, <2>4, ProgressDecides DEF LocalsFit
<1>13. CASE GetParent(s)
  <2>. DEFINE exists == NS!Exists(Parent[n])
  <2>1. /\ stmt[s].op = "CREATE" /\ n \notin Root /\ user[s] # NoUser /\ ~ access[s]
        /\ stores' = stores
        /\ quiet[s] => ~ NS!Exists(n) /\ (~ IsAdmin(s) => pending[s] = HeldNow(s))
    BY <1>1, <1>13 DEF GetParent, LocalsFit, Found, FoundBefore
  <2>2. CASE IsAdmin(s) /\ ~ exists /\ Return(s, "InternalServerError")
    BY <1>2, <2>1, <2>2 DEF Verdict
  <2>3. CASE IsAdmin(s) /\ exists /\ Goto(s, "create.child")
    BY <1>4, <2>1, <2>3 DEF FoundBefore
  <2>4. CASE ~ IsAdmin(s) /\ ~ exists /\ Return(s, "NamespaceDoesNotExist")
    BY <1>2, <2>1, <2>4 DEF Verdict
  <2>5. CASE ~ IsAdmin(s) /\ exists /\ pending[s] = {} /\ Return(s, "Unauthorized")
    BY <1>2, <2>1, <2>5 DEF Verdict
  <2>6. CASE ~ IsAdmin(s) /\ exists /\ Goto(s, "create.permission")
    BY <1>4, <2>1, <2>6 DEF FoundBefore
  <2>. QED  BY <1>13, <2>2, <2>3, <2>4, <2>5, <2>6 DEF GetParent
<1>14. ASSUME NEW r \in Role, CheckRole(s, r) PROVE Good
  <2>. DEFINE has == NS!HasPermission(Parent[n], r, CreateNamespace)
              may == HeldNow(s) \cap PermittedNow(s) # {}
              rest == pending[s] \ {r}
  <2>1. /\ stmt[s].op = "CREATE" /\ n \notin Root /\ ~ IsAdmin(s)
        /\ user[s] # NoUser /\ r \in pending[s] /\ r \in held[s]
        /\ pc[s] = "create.permission"
    BY <1>1, <1>14 DEF CheckRole, Warranted
  <2>2. has <=> r \in PermittedNow(s)
    BY <2>1 DEF PermittedNow, NeedsPermission, IsAdmin
  <2>3. quiet[s] => /\ ~ NS!Exists(n) /\ NS!Exists(Parent[n])
                    /\ may <=> access[s] \/ pending[s] \cap PermittedNow(s) # {}
    BY <1>1, <2>1 DEF Found, FoundBefore
  <2>4. quiet[s] => (may <=> access[s] \/ has \/ rest \cap PermittedNow(s) # {})
    BY <2>1, <2>2, <2>3
  <2>5. CASE rest = {} /\ ~ (access[s] \/ has) /\ Return(s, "Unauthorized")
    <3>1. quiet[s] => Verdict(s) = "Unauthorized"
      BY <2>1, <2>3, <2>4, <2>5 DEF Verdict
    <3>. QED  BY <1>2, <2>5, <3>1
  <2>6. CASE /\ rest # {} \/ access[s] \/ has
             /\ pending' = [pending EXCEPT ![s] = rest]
             /\ access' = [access EXCEPT ![s] = access[s] \/ has]
             /\ pc' = [pc EXCEPT ![s] = IF rest = {} THEN "create.child" ELSE @]
             /\ UNCHANGED <<user, current, stmt, reply, output, stores>>
    <3>1. /\ pc'[s] = IF rest = {} THEN "create.child" ELSE "create.permission"
          /\ pending'[s] = rest /\ access'[s] = (access[s] \/ has)
      BY <1>1, <2>1, <2>6 DEF Inv, TypeOK, SessionTypeOK
    <3>2. quiet[s] => FoundBefore(s, pc'[s], pending'[s], access'[s])
      <4>1. CASE rest = {}
        BY <2>1, <2>3, <2>4, <2>6, <3>1, <4>1 DEF FoundBefore
      <4>2. CASE rest # {}
        BY <2>1, <2>3, <2>4, <2>6, <3>1, <4>2 DEF FoundBefore
      <4>. QED  BY <4>1, <4>2
    <3>3. LocalsFit(s)'
      BY <3>1 DEF LocalsFit
    <3>4. /\ pending'[s] \subseteq held[s]
          /\ access'[s] => access[s] \/ held[s] \cap PermittedNow(s) # {}
      BY <1>1, <2>1, <2>2, <3>1 DEF Warranted
    <3>5. pc'[s] # "idle"
      BY <3>1
    <3>. QED  BY <1>1, <2>6, <3>2, <3>3, <3>4, <3>5, ProgressDecides
  <2>. QED  BY <1>14, <2>5, <2>6 DEF CheckRole
<1>15. CASE CreateChild(s)
  <2>1. /\ stmt[s].op = "CREATE" /\ n \notin Root /\ user[s] # NoUser
        /\ quiet[s] => /\ ~ NS!Exists(n) /\ NS!Exists(Parent[n])
                       /\ IsAdmin(s) \/ HeldNow(s) \cap PermittedNow(s) # {}
    BY <1>1, <1>15 DEF CreateChild, Found, FoundBefore
  <2>2. quiet[s] => Verdict(s) = "OK"
    BY <2>1 DEF Verdict
  <2>3. CASE Return(s, "OK")
    BY <1>2, <2>2, <2>3
  <2>4. CASE ~ NS!Exists(Parent[n]) /\ Return(s, "CreateNamespaceError")
    BY <1>2, <2>1, <2>4
  <2>. QED  BY <1>15, <2>3, <2>4 DEF CreateChild
<1>16. CASE ShowNamespaces(s)
  <2>1. user[s] # NoUser /\ (quiet[s] => verdict'[s] = "OK")
    BY <1>1, <1>16 DEF ShowNamespaces, Verdict, Found, FoundBefore
  <2>. QED  BY <1>1, <1>16, <2>1, LeaveDecides DEF ShowNamespaces
<1>. QED
  BY <1>6, <1>7, <1>8, <1>9, <1>10, <1>11, <1>12, <1>13, <1>14, <1>15, <1>16 DEF Step

LEMMA FailureDecides ==
  ASSUME AuditInv, NEW s \in Session, Failure(s), Observe({s}),
         verdict' = [verdict EXCEPT ![s] = reply'[s]]
  PROVE  LocalsFit(s)' /\ Warranted(s)' /\ OnCourse(s)'
<1>1. PICK status \in Status : pc[s] # "idle" /\ Leave(s, status)
  BY DEF Failure, KeyspaceFails, CreateFails, Return, Status
<1>2. verdict'[s] = status
  BY <1>1, LeaveAnswers DEF AuditInv
<1>. QED  BY <1>1, <1>2, LeaveDecides DEF AuditInv

LEMMA InitAuditInv == AuditInit => AuditInv
<1>. SUFFICES ASSUME AuditInit PROVE AuditInv
  OBVIOUS
<1>1. Inv /\ DOMAIN verdict = Session
  BY InitInv DEF AuditInit
<1>. QED
  BY <1>1 DEF AuditInit, Init, AuditInv, LocalsFit, Warranted, OnCourse

LEMMA NextAuditInv == AuditInv /\ [AuditNext]_auditVars => AuditInv'
<1>. SUFFICES ASSUME AuditInv, [AuditNext]_auditVars PROVE AuditInv'
  OBVIOUS
<1>. DEFINE Good(t) == LocalsFit(t)' /\ Warranted(t)' /\ OnCourse(t)'
<1>1. Inv /\ Inv'
  BY AuditStepsAreSteps, InvKept DEF AuditInv
<1>2. DOMAIN verdict' = Session
  BY DEF AuditInv, AuditNext, auditVars, audit
\* A session takes a step.
<1>3. ASSUME NEW s \in Session, Observe({s}), Good(s),
             (\E st \in Statement : Submit(s, st)) \/ Handler(s),
             \A t \in Session \ {s} : verdict'[t] = verdict[t],
             NEW t \in Session
      PROVE  Good(t)
  <2>1. CASE t # s
    BY <1>1, <1>3, <2>1, OthersAreLeftAlone, BystanderKeeps
  <2>. QED  BY <1>3, <2>1
<1>4. ASSUME NEW s \in Session, \E st \in Statement : Submit(s, st), Observe({s}),
             verdict' = [verdict EXCEPT ![s] = Verdict(s)'], NEW t \in Session
      PROVE  Good(t)
  BY <1>3, <1>4, SubmitDecides DEF AuditInv
<1>5. ASSUME NEW s \in Session, Step(s), Observe({s}), UNCHANGED verdict,
             NEW t \in Session
      PROVE  Good(t)
  BY <1>3, <1>5, StepDecides DEF Handler
<1>6. ASSUME NEW s \in Session, Failure(s), Observe({s}), NEW t \in Session,
             verdict' = [verdict EXCEPT ![s] = reply'[s]]
      PROVE  Good(t)
  BY <1>3, <1>6, FailureDecides DEF AuditInv, Handler
<1>7. ASSUME OtherCall, Observe({}), UNCHANGED verdict, NEW t \in Session
      PROVE  Good(t)
  BY <1>7, BystanderKeeps DEF OtherCall, sessions
<1>8. ASSUME UNCHANGED auditVars, NEW t \in Session
      PROVE  Good(t)
  <2>1. UNCHANGED <<stores, user, pc, stmt, pending, access, reply, held, permitted,
                    verdict, quiet>>
    BY <1>8 DEF auditVars, audit, vars, sessions
  <2>2. Found(t)' <=> Found(t)
    BY <2>1, SameFindings DEF Found
  <2>3. Verdict(t)' = Verdict(t)
    BY <2>1, SameStores
  <2>. QED  BY <2>1, <2>2, <2>3 DEF AuditInv, LocalsFit, Warranted, OnCourse
<1>9. \A t \in Session : Good(t)
  BY <1>4, <1>5, <1>6, <1>7, <1>8 DEF AuditNext
<1>. QED  BY <1>1, <1>2, <1>9 DEF AuditInv

\* A session nobody disturbs answers what one look at both stores would, and a
\* child namespace is made only by right of a role the user had during the
\* statement (DecidedByTheStores).
THEOREM StatementsAreDecidedByTheStores == AuditSpec => []DecidedByTheStores
<1>1. AuditInv => DecidedByTheStores
  <2>. SUFFICES ASSUME AuditInv PROVE DecidedByTheStores
    OBVIOUS
  <2>1. UndisturbedVerdict
    BY DEF AuditInv, OnCourse, UndisturbedVerdict
  <2>2. ASSUME NEW s \in Session, pc[s] = "create.child", ~ IsAdmin(s)
        PROVE  held[s] \cap permitted[s] # {}
    BY <2>2, Running DEF AuditInv, Fits, Warranted
  <2>. QED  BY <2>1, <2>2 DEF DecidedByTheStores, CreationIsAuthorized
<1>. QED  BY <1>1, InitAuditInv, NextAuditInv, PTL DEF AuditSpec
=============================================================================
