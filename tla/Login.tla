-------------------------------- MODULE Login --------------------------------
(***************************************************************************)
(* PublicKeyCallback, the function by which the SSH server admits a user:  *)
(* Get, then Contains on the key ring, two transactions on the users       *)
(* keyspace with any other call possible in between.  Attempts run on the  *)
(* goroutines of their connections.                                        *)
(***************************************************************************)
EXTENDS UserStore

CONSTANT Attempt   \* connections that may be in the callback at one time

VARIABLES
  stage,   \* where each attempt is: idle, get, contains, accepted, refused
  claim,   \* the user name and the key the client offers
  seen     \* auxiliary: the key was in the ring at an instant of the attempt

loginVars == <<stage, claim, seen>>
vars == <<usVars, loginVars>>

Claim == [user : User, key : Key]
NoClaim == [user |-> "none", key |-> "none"]

LoginTypeOK ==
  /\ stage \in [Attempt -> {"idle", "get", "contains", "accepted", "refused"}]
  /\ claim \in [Attempt -> Claim \cup {NoClaim}]
  /\ seen \in [Attempt -> BOOLEAN]

LoginInit ==
  /\ Init
  /\ stage = [a \in Attempt |-> "idle"]
  /\ claim = [a \in Attempt |-> NoClaim]
  /\ seen = [a \in Attempt |-> FALSE]

Begin(a, c) ==
  /\ stage[a] = "idle"
  /\ stage' = [stage EXCEPT ![a] = "get"]
  /\ claim' = [claim EXCEPT ![a] = c]
  /\ seen' = [seen EXCEPT ![a] = Contains(c.user, c.key)]
  /\ UNCHANGED usVars

\* users.Get(conn.User())
GetUser(a) ==
  /\ stage[a] = "get"
  /\ stage' = [stage EXCEPT ![a] =
                 IF Exists(claim[a].user) THEN "contains" ELSE "refused"]
  /\ UNCHANGED <<claim, seen, usVars>>

\* Mutant of CheckKey: any key of an account will do.
CheckAnyKey(a) ==
  /\ stage[a] = "contains"
  /\ stage' = [stage EXCEPT ![a] = IF Exists(claim[a].user) THEN "accepted"
                                                           ELSE "refused"]
  /\ UNCHANGED <<claim, seen, usVars>>

\* keyring.Contains(key.Marshal())
CheckKey(a) ==
  /\ stage[a] = "contains"
  /\ stage' = [stage EXCEPT ![a] =
                 IF Contains(claim[a].user, claim[a].key) THEN "accepted"
                                                          ELSE "refused"]
  /\ UNCHANGED <<claim, seen, usVars>>

\* The connection is over.
Forget(a) ==
  /\ stage[a] \in {"accepted", "refused"}
  /\ stage' = [stage EXCEPT ![a] = "idle"]
  /\ claim' = [claim EXCEPT ![a] = NoClaim]
  /\ seen' = [seen EXCEPT ![a] = FALSE]
  /\ UNCHANGED usVars

Running(a) == stage[a] \in {"get", "contains"}

\* A call on the users keyspace by another goroutine.
OtherCall ==
  /\ Next
  /\ UNCHANGED <<stage, claim>>
  /\ seen' = [a \in Attempt |->
               \/ seen[a]
               \/ Running(a) /\ Contains(claim[a].user, claim[a].key)']

Callback(a) == GetUser(a) \/ CheckKey(a)

LoginNext ==
  \/ \E a \in Attempt, c \in Claim : Begin(a, c)
  \/ \E a \in Attempt : Callback(a) \/ Forget(a)
  \/ OtherCall

LoginSpec == LoginInit /\ [][LoginNext]_vars

-----------------------------------------------------------------------------
(* Properties. *)

\* A client is only let in by a key that was in the ring of the account with
\* its name at some instant of this very attempt: a key removed, or an
\* account deleted, before the attempt began never admits anybody
\* (PublicKeyCallback against Delete, RemovePublicKey and Create).
AdmittedByCurrentKey == \A a \in Attempt : stage[a] = "accepted" => seen[a]
=============================================================================
