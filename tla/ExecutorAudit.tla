---------------------------- MODULE ExecutorAudit ----------------------------
(***************************************************************************)
(* The executor with auxiliary variables that remember what the stores     *)
(* said while a statement was executed, and the properties that need them. *)
(* The variables are only written here; they guard nothing.                *)
(***************************************************************************)
EXTENDS Executor

VARIABLES
  held,       \* roles on the parent the user had at some instant so far
  permitted,  \* roles of the parent that had create.namespace at some instant
  verdict,    \* the status the statement deserves in the state it starts in
  quiet       \* no one else has written to the stores since, and no error

audit == <<held, permitted, verdict, quiet>>
auditVars == <<vars, audit>>

\* CREATE for a child namespace by a user who needs the permission.
NeedsPermission(s) ==
  /\ stmt[s].op = "CREATE" /\ stmt[s].name \notin Root
  /\ user[s] \notin {Admin, NoUser}

HeldNow(s) ==
  IF NeedsPermission(s) THEN US!Roles(user[s], Parent[stmt[s].name]) ELSE {}

PermittedNow(s) ==
  {r \in Role : /\ NeedsPermission(s)
                /\ NS!HasPermission(Parent[stmt[s].name], r, CreateNamespace)}

\* What a reader of the handlers and of their comments expects of a statement
\* when nothing else happens; a failure of bolt deserves what it is answered.
Verdict(s) ==
  LET n == stmt[s].name
      exists == NS!Exists(n)
      mayCreate == IsAdmin(s) \/ HeldNow(s) \cap PermittedNow(s) # {}
  IN  CASE user[s] = NoUser -> "InternalServerError"
        [] user[s] # NoUser /\ stmt[s].op = "SHOW" -> "OK"
        [] user[s] # NoUser /\ stmt[s].op = "DROP" -> "none"
        [] user[s] # NoUser /\ stmt[s].op = "USE" ->
             IF ~ exists THEN "NamespaceDoesNotExist"
             ELSE IF IsAdmin(s) \/ n \in US!Namespaces(user[s]) THEN "OK"
             ELSE "Unauthorized"
        [] user[s] # NoUser /\ stmt[s].op = "CREATE" ->
             IF exists THEN "NamespaceAlreadyExists"
             ELSE IF n \in Root
                    THEN IF IsAdmin(s) THEN "OK" ELSE "Unauthorized"
             ELSE IF ~ NS!Exists(Parent[n])
                    THEN IF IsAdmin(s) THEN "InternalServerError"
                                       ELSE "NamespaceDoesNotExist"
             ELSE IF mayCreate THEN "OK" ELSE "Unauthorized"

AuditInit ==
  /\ Init
  /\ held = [s \in Session |-> {}]
  /\ permitted = [s \in Session |-> {}]
  /\ verdict = [s \in Session |-> "none"]
  /\ quiet = [s \in Session |-> FALSE]

\* What every step adds for a session that is executing a statement; by is
\* the session that takes the step, or none.
Observe(by) ==
  /\ held' = [s \in Session |->
                IF pc'[s] = "idle" THEN {} ELSE held[s] \cup HeldNow(s)']
  /\ permitted' = [s \in Session |->
                     IF pc'[s] = "idle" THEN {}
                                        ELSE permitted[s] \cup PermittedNow(s)']
  /\ quiet' = [s \in Session |->
                 IF s \in by /\ pc[s] = "idle" THEN TRUE
                 ELSE quiet[s] /\ (s \in by \/ stores' = stores)]

AuditNext ==
  \/ \E s \in Session :
       /\ \E st \in Statement : Submit(s, st)
       /\ Observe({s})
       /\ verdict' = [verdict EXCEPT ![s] = Verdict(s)']
  \/ \E s \in Session :
       /\ Step(s)
       /\ Observe({s})
       /\ UNCHANGED verdict
  \/ \E s \in Session :
       /\ Failure(s)
       /\ Observe({s})
       /\ verdict' = [verdict EXCEPT ![s] = reply'[s]]
  \/ OtherCall /\ Observe({}) /\ UNCHANGED verdict

AuditSpec == AuditInit /\ [][AuditNext]_auditVars

-----------------------------------------------------------------------------
(* Properties. *)

\* A session that no other call disturbs answers as documented: the chain of
\* separate calls in handleUseStatement, handleCreateNamespace and
\* handleCreateRootNamespace decides what one look at both stores would.
UndisturbedVerdict ==
  \A s \in Session : pc[s] = "idle" /\ quiet[s] => reply[s] = verdict[s]

\* Whatever others do meanwhile, a user who is not the admin gets as far as
\* CreateChild only by a role on the parent that was the user's, and that had
\* create.namespace, at instants of this statement (handleCreateNamespace).
CreationIsAuthorized ==
  \A s \in Session :
    pc[s] = "create.child" /\ ~ IsAdmin(s) => held[s] \cap permitted[s] # {}

\* Statements are decided by the stores, not by the order of the calls.
DecidedByTheStores == UndisturbedVerdict /\ CreationIsAuthorized
=============================================================================
