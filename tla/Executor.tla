------------------------------- MODULE Executor -------------------------------
(***************************************************************************)
(* The executor of SKL statements over the two stores.  Each session runs  *)
(* its statements one after the other on its own goroutine.  A handler     *)
(* makes several calls on the stores, each one transaction, and between    *)
(* two of them other sessions and other callers of the data model may make *)
(* calls of their own; so a handler is one action per transaction, and     *)
(* pc[s] names the call that session s makes next.                         *)
(***************************************************************************)
EXTENDS CommaList

CONSTANTS
  Namespace, User, Role, Permission, Key, Password, NoPassword, MaxCopies,
  Session,           \* sessions, each with an executor of its own
  SessionUsers,      \* who the sessions may belong to
  Admin,             \* the account named "admin"
  NoUser,            \* a session whose user could not be determined
  Root,              \* the namespaces whose name has no period
  Parent,            \* for the others, the name up to the last period
  CreateNamespace,   \* the permission "create.namespace"
  NoNamespace

ASSUME ExecutorAssumption ==
  /\ MaxCopies \in Nat \ {0}
  /\ Empty \notin User \cup Namespace \cup Role
  /\ NoPassword \notin Password
  /\ SessionUsers \subseteq User \cup {Admin, NoUser}
  /\ Admin # NoUser /\ NoUser \notin User
  /\ Root \subseteq Namespace
  /\ Parent \in [Namespace \ Root -> Namespace]
  /\ NoNamespace \notin Namespace

VARIABLES
  buckets, users, roles, perms,                        \* namespaces keyspace
  accounts, joined, memberRoles, keys, password,       \* users keyspace
  user,      \* the user of each session
  current,   \* session.namespace
  pc,        \* the next call of each session
  stmt,      \* the statement each session is executing
  pending,   \* the user's roles a session has still to check
  access,    \* the local variable of the same name
  reply,     \* the status of the last statement
  output     \* the namespaces SHOW wrote

NS == INSTANCE NamespaceStore
US == INSTANCE UserStore

namespaceVars == <<buckets, users, roles, perms>>
accountVars == <<accounts, joined, memberRoles, keys, password>>
stores == <<namespaceVars, accountVars>>
sessions == <<user, current, pc, stmt, pending, access, reply, output>>
vars == <<stores, sessions>>

Statement ==
  [op : {"USE", "CREATE", "DROP"}, name : Namespace]
    \cup {[op |-> "SHOW", name |-> NoNamespace]}
NoStatement == [op |-> "none", name |-> NoNamespace]

Status == {"OK", "NamespaceAlreadyExists", "NamespaceDoesNotExist",
           "Unauthorized", "InternalServerError", "CreateNamespaceError"}

Call == {"idle", "dispatch", "use.get", "use.list", "create.exists",
         "root.get", "root.create", "create.roles", "create.parent",
         "create.permission", "create.child", "show"}

SessionTypeOK ==
  /\ user \in [Session -> SessionUsers]
  /\ current \in [Session -> Namespace \cup {NoNamespace}]
  /\ pc \in [Session -> Call]
  /\ stmt \in [Session -> Statement \cup {NoStatement}]
  /\ pending \in [Session -> SUBSET Role]
  /\ access \in [Session -> BOOLEAN]
  /\ reply \in [Session -> Status \cup {"none"}]
  /\ output \in [Session -> SUBSET Namespace]

TypeOK == NS!TypeOK /\ US!TypeOK /\ SessionTypeOK

Init ==
  /\ NS!Init
  /\ US!Init
  /\ user \in [Session -> SessionUsers]
  /\ current = [s \in Session |-> NoNamespace]
  /\ pc = [s \in Session |-> "idle"]
  /\ stmt = [s \in Session |-> NoStatement]
  /\ pending = [s \in Session |-> {}]
  /\ access = [s \in Session |-> FALSE]
  /\ reply = [s \in Session |-> "none"]
  /\ output = [s \in Session |-> {}]

IsAdmin(s) == user[s] = Admin

-----------------------------------------------------------------------------
(* Steps of a handler.  The local variables die when it returns. *)

Goto(s, call) ==
  /\ pc' = [pc EXCEPT ![s] = call]
  /\ UNCHANGED <<user, current, stmt, pending, access, reply, output>>

Leave(s, status) ==
  /\ pc' = [pc EXCEPT ![s] = "idle"]
  /\ stmt' = [stmt EXCEPT ![s] = NoStatement]
  /\ pending' = [pending EXCEPT ![s] = {}]
  /\ access' = [access EXCEPT ![s] = FALSE]
  /\ reply' = [reply EXCEPT ![s] = status]
  /\ UNCHANGED user

Return(s, status) == Leave(s, status) /\ UNCHANGED <<current, output>>

\* A statement arrives from the client and is parsed.
Submit(s, st) ==
  /\ pc[s] = "idle"
  /\ pc' = [pc EXCEPT ![s] = "dispatch"]
  /\ stmt' = [stmt EXCEPT ![s] = st]
  /\ reply' = [reply EXCEPT ![s] = "none"]
  /\ output' = [output EXCEPT ![s] = {}]
  /\ UNCHANGED <<user, current, pending, access, stores>>

\* The switch on NodeType has no case for DROP: Execute returns without a
\* word to the client.
Execute(s) ==
  /\ pc[s] = "dispatch"
  /\ UNCHANGED stores
  /\ \/ user[s] = NoUser /\ Return(s, "InternalServerError")
     \/ /\ user[s] # NoUser
        /\ \/ stmt[s].op = "USE" /\ Goto(s, "use.get")
           \/ stmt[s].op = "CREATE" /\ Goto(s, "create.exists")
           \/ stmt[s].op = "SHOW" /\ Goto(s, "show")
           \/ stmt[s].op = "DROP" /\ Return(s, "none")

\* system.Namespaces() cannot open the keyspace.
KeyspaceFails(s) ==
  /\ \/ pc[s] \in {"use.get", "create.exists"}
     \/ pc[s] = "show" /\ IsAdmin(s)
  /\ Return(s, "InternalServerError")
  /\ UNCHANGED stores

Enter(s, n) ==
  /\ Leave(s, "OK")
  /\ current' = [current EXCEPT ![s] = n]
  /\ UNCHANGED output

\* Mutant of UseGet: the session moves before access is checked.
UseGetEarly(s) ==
  LET n == stmt[s].name IN
  /\ pc[s] = "use.get"
  /\ UNCHANGED stores
  /\ \/ ~ NS!Exists(n) /\ Return(s, "NamespaceDoesNotExist")
     \/ NS!Exists(n) /\ IsAdmin(s) /\ Enter(s, n)
     \/ /\ NS!Exists(n) /\ ~ IsAdmin(s)
        /\ pc' = [pc EXCEPT ![s] = "use.list"]
        /\ current' = [current EXCEPT ![s] = n]
        /\ UNCHANGED <<user, stmt, pending, access, reply, output>>

\* Mutant of UseGet: everybody may enter a namespace that exists.
UseGetForAll(s) ==
  LET n == stmt[s].name IN
  /\ pc[s] = "use.get"
  /\ UNCHANGED stores
  /\ \/ ~ NS!Exists(n) /\ Return(s, "NamespaceDoesNotExist")
     \/ NS!Exists(n) /\ Enter(s, n)

UseGet(s) ==
  LET n == stmt[s].name IN
  /\ pc[s] = "use.get"
  /\ UNCHANGED stores
  /\ \/ ~ NS!Exists(n) /\ Return(s, "NamespaceDoesNotExist")
     \/ NS!Exists(n) /\ IsAdmin(s) /\ Enter(s, n)
     \/ NS!Exists(n) /\ ~ IsAdmin(s) /\ Goto(s, "use.list")

UseList(s) ==
  LET n == stmt[s].name IN
  /\ pc[s] = "use.list"
  /\ UNCHANGED stores
  /\ \/ n \in US!Namespaces(user[s]) /\ Enter(s, n)
     \/ n \notin US!Namespaces(user[s]) /\ Return(s, "Unauthorized")

-----------------------------------------------------------------------------
(* CREATE NAMESPACE *)

CreateExists(s) ==
  LET n == stmt[s].name IN
  /\ pc[s] = "create.exists"
  /\ UNCHANGED stores
  /\ \/ NS!Exists(n) /\ Return(s, "NamespaceAlreadyExists")
     \/ ~ NS!Exists(n) /\ n \in Root /\ Goto(s, "root.get")
     \/ ~ NS!Exists(n) /\ n \notin Root /\ IsAdmin(s) /\ Goto(s, "create.parent")
     \/ ~ NS!Exists(n) /\ n \notin Root /\ ~ IsAdmin(s) /\ Goto(s, "create.roles")

RootGet(s) ==
  LET n == stmt[s].name IN
  /\ pc[s] = "root.get"
  /\ UNCHANGED stores
  /\ \/ NS!Exists(n) /\ Return(s, "NamespaceAlreadyExists")
     \/ ~ NS!Exists(n) /\ IsAdmin(s) /\ Goto(s, "root.create")
     \/ ~ NS!Exists(n) /\ ~ IsAdmin(s) /\ Return(s, "Unauthorized")

\* store.Create(name)
RootCreate(s) ==
  /\ pc[s] = "root.create"
  /\ NS!Create(stmt[s].name)
  /\ UNCHANGED accountVars
  /\ Return(s, "OK")

\* user.Roles(parentNamespace), for a user who is not the admin.
ReadRoles(s) ==
  /\ pc[s] = "create.roles"
  /\ pending' = [pending EXCEPT ![s] = US!Roles(user[s], Parent[stmt[s].name])]
  /\ pc' = [pc EXCEPT ![s] = "create.parent"]
  /\ UNCHANGED <<user, current, stmt, access, reply, output, stores>>

\* namespaceStore.Get(parentNamespace): the admin's and the others' calls
\* differ in what they make of an error.  With no role there is nothing to
\* scan.
GetParent(s) ==
  LET exists == NS!Exists(Parent[stmt[s].name]) IN
  /\ pc[s] = "create.parent"
  /\ UNCHANGED stores
  /\ \/ IsAdmin(s) /\ ~ exists /\ Return(s, "InternalServerError")
     \/ IsAdmin(s) /\ exists /\ Goto(s, "create.child")
     \/ ~ IsAdmin(s) /\ ~ exists /\ Return(s, "NamespaceDoesNotExist")
     \/ ~ IsAdmin(s) /\ exists /\ pending[s] = {} /\ Return(s, "Unauthorized")
     \/ ~ IsAdmin(s) /\ exists /\ pending[s] # {} /\ Goto(s, "create.permission")

\* Mutant of CheckRole: the role is not taken off the list.
CheckRoleAgain(s, r) ==
  /\ pc[s] = "create.permission"
  /\ r \in pending[s]
  /\ access' = [access EXCEPT ![s] =
                  @ \/ NS!HasPermission(Parent[stmt[s].name], r, CreateNamespace)]
  /\ UNCHANGED <<user, current, pc, stmt, pending, reply, output, stores>>

\* Mutant of CheckRole: the last role alone decides.
CheckRoleLast(s, r) ==
  LET granted == NS!HasPermission(Parent[stmt[s].name], r, CreateNamespace)
      rest == pending[s] \ {r} IN
  /\ pc[s] = "create.permission"
  /\ r \in pending[s]
  /\ UNCHANGED stores
  /\ \/ rest = {} /\ ~ granted /\ Return(s, "Unauthorized")
     \/ /\ rest # {} \/ granted
        /\ pending' = [pending EXCEPT ![s] = rest]
        /\ access' = [access EXCEPT ![s] = granted]
        /\ pc' = [pc EXCEPT ![s] = IF rest = {} THEN "create.child" ELSE @]
        /\ UNCHANGED <<user, current, stmt, reply, output>>

\* One turn of the scan: HasPermission for one more role.  The scan does not
\* stop at the first role that grants access.
CheckRole(s, r) ==
  LET granted == access[s] \/ NS!HasPermission(Parent[stmt[s].name], r,
                                                CreateNamespace)
      rest == pending[s] \ {r} IN
  /\ pc[s] = "create.permission"
  /\ r \in pending[s]
  /\ UNCHANGED stores
  /\ \/ /\ rest = {} /\ ~ granted
        /\ Return(s, "Unauthorized")
     \/ /\ rest # {} \/ granted
        /\ pending' = [pending EXCEPT ![s] = rest]
        /\ access' = [access EXCEPT ![s] = granted]
        /\ pc' = [pc EXCEPT ![s] = IF rest = {} THEN "create.child" ELSE @]
        /\ UNCHANGED <<user, current, stmt, reply, output>>

\* parent.CreateChild(namespace); the parent may be gone by now.
CreateChild(s) ==
  LET n == stmt[s].name IN
  /\ pc[s] = "create.child"
  /\ \/ /\ NS!CreateChild(Parent[n], n)
        /\ UNCHANGED accountVars
        /\ Return(s, "OK")
     \/ /\ ~ NS!Exists(Parent[n])
        /\ UNCHANGED stores
        /\ Return(s, "CreateNamespaceError")

\* bolt does not take the name: Create and CreateChild return its error, and have
\* written nothing.
CreateFails(s) ==
  /\ pc[s] \in {"root.create", "create.child"}
  /\ Return(s, "CreateNamespaceError")
  /\ UNCHANGED stores

-----------------------------------------------------------------------------
(* SHOW NAMESPACES: one transaction, for the admin a cursor over the whole
   keyspace, which sees one snapshot of it. *)

ShowNamespaces(s) ==
  /\ pc[s] = "show"
  /\ Leave(s, "OK")
  /\ output' = [output EXCEPT ![s] = IF IsAdmin(s) THEN buckets
                                                   ELSE US!Namespaces(user[s])]
  /\ UNCHANGED <<current, stores>>

-----------------------------------------------------------------------------
Step(s) ==
  \/ Execute(s)
  \/ UseGet(s) \/ UseList(s)
  \/ CreateExists(s) \/ RootGet(s) \/ RootCreate(s)
  \/ ReadRoles(s) \/ GetParent(s) \/ (\E r \in Role : CheckRole(s, r))
  \/ CreateChild(s)
  \/ ShowNamespaces(s)

Failure(s) == KeyspaceFails(s) \/ CreateFails(s)

Handler(s) == Step(s) \/ Failure(s)

\* Calls on the stores by other goroutines of the process.
OtherCall ==
  /\ UNCHANGED sessions
  /\ \/ NS!Next /\ UNCHANGED accountVars
     \/ US!Next /\ UNCHANGED namespaceVars

Next ==
  \/ \E s \in Session, st \in Statement : Submit(s, st)
  \/ \E s \in Session : Handler(s)
  \/ OtherCall

\* A handler waits for nothing but bolt's transactions, which end.
Spec == Init /\ [][Next]_vars /\ \A s \in Session : WF_vars(Handler(s))

-----------------------------------------------------------------------------
(* Properties. *)

\* A session is at a call only in a statement, and for a user, for whom the
\* handlers make it: no call on a parent is made for a root namespace, Create
\* only for the admin, and CreateChild only with access (the branches of
\* handleUseStatement, handleCreateNamespace and handleCreateRootNamespace).
Fits(s, call) ==
  /\ call # "dispatch" => user[s] # NoUser
  /\ call \in {"use.get", "use.list"} => stmt[s].op = "USE"
  /\ call = "show" => stmt[s].op = "SHOW"
  /\ call \in {"create.exists", "root.get", "root.create", "create.roles",
               "create.parent", "create.permission", "create.child"}
       => stmt[s].op = "CREATE"
  /\ call \in {"root.get", "root.create"} => stmt[s].name \in Root
  /\ call \in {"create.roles", "create.parent", "create.permission",
               "create.child"} => stmt[s].name \notin Root
  /\ call \in {"use.list", "create.roles", "create.permission"} => ~ IsAdmin(s)
  /\ call = "root.create" => IsAdmin(s)
  /\ call = "create.child" => IsAdmin(s) \/ access[s]

ControlOK ==
  \A s \in Session :
    IF pc[s] = "idle" THEN stmt[s] = NoStatement
    ELSE stmt[s] \in Statement /\ Fits(s, pc[s])

\* A namespace appears under the name in the statement and is answered OK.
\* "Only the admin can create root namespaces" (executor.go:107), and a child is
\* never created without its parent, whoever deletes it between Get and
\* CreateChild: it has the roles and permissions its parent has at that instant.
\* Of users this says nothing: CreateChild puts the parent's list where no reader
\* looks, although the interface promises "the same users and roles"
\* (namespaces.go:50) and TestCreateChild asks for them.
CreatedFromItsParent ==
  [][\A s \in Session, n \in Namespace :
       Handler(s) /\ n \in buckets' \ buckets =>
         /\ n = stmt[s].name /\ reply'[s] = "OK"
         /\ n \in Root => IsAdmin(s)
         /\ n \notin Root =>
              /\ Parent[n] \in buckets
              /\ roles'[n] = roles[Parent[n]]
              /\ perms'[n] = perms[Parent[n]]]_vars

\* Only the last step of a statement, the one that answers OK, changes the
\* stores or the session's namespace: a statement that is refused or fails
\* leaves nothing half done behind (every handler of executor.go).
OnlySuccessChangesAnything ==
  [][\A s \in Session :
       Handler(s) /\ (reply'[s] # "OK" \/ pc'[s] # "idle") =>
         stores' = stores /\ current'[s] = current[s]]_vars

\* A session enters only a namespace that exists or existed during the
\* statement, for the admin or for a user whose account lists it at that very
\* instant (handleUseStatement against RemoveUser, Delete and AddRole).
EnteredByMembers ==
  [][\A s \in Session :
       current'[s] # current[s] =>
         /\ current'[s] = stmt[s].name /\ reply'[s] = "OK"
         /\ IsAdmin(s) \/ current'[s] \in US!Namespaces(user[s])]_vars

\* CreateChild "makes a new child namespace" (namespaces.go:50): a CREATE
\* statement leaves the roles of a namespace that is there as they are.
ExistingNamespaceIsKept ==
  [][\A s \in Session, n \in buckets :
       Handler(s) => roles'[n] = roles[n] /\ perms'[n] = perms[n]]_vars

\* Every statement the executor has a case for is answered, whatever the other
\* sessions and callers do (no handler waits, and the scan of roles ends).
HandledStatementsAreAnswered ==
  \A s \in Session :
    pc[s] = "dispatch" /\ stmt[s].op # "DROP"
      ~> pc[s] = "idle" /\ reply[s] # "none"
=============================================================================
