------------------------------ MODULE Lifecycle ------------------------------
(***************************************************************************)
(* A kappa server's process, from one command line to the next: NewServer  *)
(* with everything it reads and makes, Start, the signal, Stop in its      *)
(* order, and the end of the process.  Its files are those of Pki, its     *)
(* goroutines around serf those of EventPipeline; the database keeps the   *)
(* admin's key ring.  The process may be killed at any moment.             *)
(***************************************************************************)
EXTENDS Pki, EventPipeline

CONSTANTS
  SshKey,      \* --ssh-key and --admin-cert, by the names new-cert was given
  AdminCert,
  Bootstrap    \* --bootstrap

ASSUME LifecycleAssumption ==
  {SshKey, AdminCert} \subseteq Name /\ Bootstrap \in BOOLEAN

VARIABLES
  pc,       \* where the main goroutine is
  read,     \* the admin's certificate, as NewServer has read it
  ring,     \* the admin's key ring in the database, or no admin
  ssh,      \* the SSH server
  client,   \* somebody is connected to it
  steady    \* auxiliary: no command has run since the process began

processVars == <<pc, read, ring, ssh, client, steady>>
vars == <<pkiVars, pipelineVars, processVars>>

NoAdmin == {0}

\* NewServer, and in it setupSerf.
Creating ==
  {"open", "key", "cert", "admin", "ring", "roots", "bind", "serf", "alive",
   "create"}
Starting == Creating \cup {"start", "start.serfer", "join"}
Stopping ==
  {"stop.ssh", "leave.snapshot", "leave.intent", "leave.memberlist",
   "leave.sent", "shutdown", "shutdown.memberlist", "shutdown.wait",
   "stop.serfer"}

TypeOK ==
  /\ PkiTypeOK /\ PipelineTypeOK
  /\ pc \in Starting \cup Stopping \cup {"down", "running", "panicked"}
  /\ read \in Pems
  /\ ring \subseteq 0..MaxKeys
  /\ ssh \in {"none", "bound", "serving", "stopping", "stopped"}
  /\ client \in BOOLEAN /\ steady \in BOOLEAN

Init ==
  /\ PkiInit
  /\ pc = "down" /\ read = Missing /\ ssh = "none" /\ client = FALSE
  /\ NoPipeline
  /\ ring = NoAdmin
  /\ steady = TRUE

-----------------------------------------------------------------------------
(* NewServer. *)

At(here) == pc = here
Goto(there) == pc' = there

Exit ==
  /\ Goto("down")
  /\ read' = Missing /\ ssh' = "none" /\ client' = FALSE
  /\ PipelineGone
  /\ UNCHANGED <<pkiVars, ring, steady>>

Launch ==
  /\ At("down") /\ Goto("open")
  /\ steady' = Idle
  /\ UNCHANGED <<pkiVars, pipelineVars, read, ring, ssh, client>>

\* The data directory, the working directory, the database.
Open ==
  /\ At("open") /\ Goto("key")
  /\ UNCHANGED <<pkiVars, steady, pipelineVars, read, ring, ssh, client>>

ReadPrivateKey ==
  /\ At("key") /\ Goto("cert")
  /\ file[Key(SshKey)].type = "key"
  /\ UNCHANGED <<pkiVars, steady, pipelineVars, read, ring, ssh, client>>

\* What the file holds is looked at later.
ReadAdminCert ==
  /\ At("cert") /\ Goto("admin")
  /\ file[Crt(AdminCert)] # Missing
  /\ read' = file[Crt(AdminCert)]
  /\ UNCHANGED <<pkiVars, steady, pipelineVars, ring, ssh, client>>

CreateAdmin ==
  /\ At("admin") /\ Goto("ring")
  /\ ring' = ring \ NoAdmin
  /\ UNCHANGED <<pkiVars, steady, pipelineVars, read, ssh, client>>

\* Mutant of AddPublicKey: an admin who has a key needs no other.
AddFirstPublicKey ==
  /\ At("ring") /\ Goto("roots")
  /\ read.type = "certificate"
  /\ ring' = IF ring = {} THEN {read.key} ELSE ring
  /\ UNCHANGED <<pkiVars, steady, pipelineVars, read, ssh, client>>

AddPublicKey ==
  /\ At("ring") /\ Goto("roots")
  /\ read.type = "certificate"
  /\ ring' = ring \cup {read.key}
  /\ UNCHANGED <<pkiVars, steady, pipelineVars, read, ssh, client>>

\* A file that is there and holds no certificate makes NewServer return
\* neither a server nor an error, and ServerCmd calls Start of it.
ReadRoots ==
  /\ At("roots")
  /\ file[CaCrt] # Missing
  /\ Goto(IF file[CaCrt].type = "certificate" THEN "bind" ELSE "panicked")
  /\ UNCHANGED <<pkiVars, steady, pipelineVars, read, ring, ssh, client>>

NewSSHServer ==
  /\ At("bind") /\ Goto("serf")
  /\ ssh' = "bound"
  /\ UNCHANGED <<pkiVars, steady, pipelineVars, read, ring, client>>

\* serf.Create, up to memberlist's listeners: from here on it hears gossip.
SetupSerf ==
  /\ At("serf") /\ Goto("alive")
  /\ snapshotter' = "selecting" /\ queries' = "selecting"
  /\ UNCHANGED <<pkiVars, steady, channels, serfer, sender, shutdown, read,
                 ring, ssh, client>>

\* memberlist declares its own node alive, and this goroutine sends the event.
SetAlive ==
  /\ At("alive") /\ Goto("create")
  /\ TakeLock("main")
  /\ UNCHANGED <<pkiVars, read, ring, ssh, client, steady>>

Created ==
  /\ At("create") /\ Goto("start")
  /\ sender # "main"
  /\ UNCHANGED <<pkiVars, steady, pipelineVars, read, ring, ssh, client>>

\* Every step of NewServer up to setAlive may return an error, some must.  When
\* that fails, memberlist.Shutdown takes nodeLock.
NewServerFails ==
  /\ pc \in Creating \ {"create"}
  /\ pc = "alive" => ~ NodeLocked
  /\ Exit

-----------------------------------------------------------------------------
(* Start. *)

Start ==
  /\ At("start") /\ Goto("start.serfer")
  /\ ssh' = "serving"
  /\ UNCHANGED <<pkiVars, steady, pipelineVars, read, ring, client>>

StartSerfer ==
  /\ At("start.serfer") /\ Goto("join")
  /\ serfer' = "selecting"
  /\ UNCHANGED <<pkiVars, steady, channels, snapshotter, queries, sender,
                 shutdown, read, ring, ssh, client>>

\* Join merges what another node knows, and sends an event for each change.
JoinSends ==
  /\ At("join")
  /\ TakeLock("main")
  /\ UNCHANGED <<pkiVars, processVars>>

Joined ==
  /\ At("join") /\ Goto("running")
  /\ sender # "main"
  /\ UNCHANGED <<pkiVars, steady, pipelineVars, read, ring, ssh, client>>

JoinFails ==
  /\ At("join") /\ Goto("stop.ssh")
  /\ sender # "main"
  /\ ~ Bootstrap
  /\ ssh' = "stopping"
  /\ UNCHANGED <<pkiVars, steady, pipelineVars, read, ring, client>>

-----------------------------------------------------------------------------
(* Stop. *)

Signal ==
  /\ At("running") /\ Goto("stop.ssh")
  /\ ssh' = "stopping"
  /\ UNCHANGED <<pkiVars, steady, pipelineVars, read, ring, client>>

\* Mutant of StopSsh: it does not wait for the clients.
StopSshAtOnce ==
  /\ At("stop.ssh") /\ Goto("leave.snapshot")
  /\ ssh' = "stopped"
  /\ UNCHANGED <<pkiVars, steady, pipelineVars, read, ring, client>>

\* Mutant of StopSsh: the serfer is stopped with it.
StopSshAndSerfer ==
  /\ At("stop.ssh") /\ Goto("leave.snapshot")
  /\ ~ client
  /\ ssh' = "stopped" /\ serfer' = "ended"
  /\ UNCHANGED <<pkiVars, steady, channels, snapshotter, queries, sender,
                 shutdown, read, ring, client>>

\* The tomb of the SSH server is dead when its clients are gone.
StopSsh ==
  /\ At("stop.ssh") /\ Goto("leave.snapshot")
  /\ ~ client
  /\ ssh' = "stopped"
  /\ UNCHANGED <<pkiVars, steady, pipelineVars, read, ring, client>>

\* Snapshotter.Leave: stream takes it when it selects.
LeaveSnapshot ==
  /\ At("leave.snapshot") /\ Goto("leave.intent")
  /\ snapshotter = "selecting"
  /\ UNCHANGED <<pkiVars, steady, pipelineVars, read, ring, ssh, client>>

\* handleNodeLeaveIntent and hasAliveMembers take memberLock for a moment; the
\* broadcast may time out, which ends Leave.
LeaveIntent ==
  /\ At("leave.intent")
  /\ sender = "nobody"
  /\ pc' \in {"leave.memberlist", "shutdown"}
  /\ UNCHANGED <<pkiVars, steady, pipelineVars, read, ring, ssh, client>>

\* memberlist declares its own node dead, and this goroutine sends the event.
LeaveMemberlist ==
  /\ At("leave.memberlist") /\ Goto("leave.sent")
  /\ TakeLock("main")
  /\ UNCHANGED <<pkiVars, read, ring, ssh, client, steady>>

LeaveSent ==
  /\ At("leave.sent") /\ Goto("shutdown")
  /\ sender # "main"
  /\ UNCHANGED <<pkiVars, steady, pipelineVars, read, ring, ssh, client>>

Shutdown ==
  /\ At("shutdown") /\ Goto("shutdown.memberlist")
  /\ shutdown' = TRUE
  /\ UNCHANGED <<pkiVars, steady, channels, goroutines, sender, read, ring,
                 ssh, client>>

\* memberlist.Shutdown takes nodeLock.
ShutdownMemberlist ==
  /\ At("shutdown.memberlist") /\ Goto("shutdown.wait")
  /\ ~ NodeLocked
  /\ UNCHANGED <<pkiVars, steady, pipelineVars, read, ring, ssh, client>>

\* Snapshotter.Wait; then the serfer's tomb is killed.
ShutdownWait ==
  /\ At("shutdown.wait") /\ Goto("stop.serfer")
  /\ snapshotter = "ended"
  /\ serfer' = "dying"
  /\ UNCHANGED <<pkiVars, steady, channels, snapshotter, queries, sender,
                 shutdown, read, ring, ssh, client>>

StopSerfer == At("stop.serfer") /\ serfer = "ended" /\ Exit

Crash == ~ At("down") /\ Exit

-----------------------------------------------------------------------------
(* Everybody else. *)

\* memberlist hears of other nodes once it has its listeners; serf's reaper, which
\* forgets members, starts when memberlist is made.
Gossiping ==
  IF pc \in {"alive", "create"} THEN {"gossip"}
  ELSE IF pc \in {"start", "start.serfer", "join", "running"}
            \cup (Stopping \ {"shutdown.wait", "stop.serfer"})
    THEN {"gossip", "reaper"} ELSE {}
Gossip ==
  /\ \E who \in Gossiping : TakeLock(who)
  /\ UNCHANGED <<pkiVars, processVars>>

\* The goroutines of the pipeline, and whoever sends to it.
Delivers == Send /\ UNCHANGED <<pkiVars, processVars>>
SnapshotterRuns ==
  (SnapshotterTakes \/ SnapshotterSends) /\ UNCHANGED <<pkiVars, processVars>>
SnapshotterReturns == SnapshotterEnds /\ UNCHANGED <<pkiVars, processVars>>
QueriesRun == (QueriesTake \/ QueriesSend) /\ UNCHANGED <<pkiVars, processVars>>
QueriesReturn == QueriesEnd /\ UNCHANGED <<pkiVars, processVars>>
SerferRuns == SerferTakes /\ UNCHANGED <<pkiVars, processVars>>
SerferReturns == SerferEnds /\ UNCHANGED <<pkiVars, processVars>>
Goroutine ==
  \/ Delivers \/ SnapshotterRuns \/ SnapshotterReturns
  \/ QueriesRun \/ QueriesReturn \/ SerferRuns \/ SerferReturns

Connect ==
  /\ ssh = "serving" /\ ~ client
  /\ client' = TRUE
  /\ UNCHANGED <<pkiVars, pipelineVars, pc, read, ring, ssh, steady>>

HangUp ==
  /\ client
  /\ client' = FALSE
  /\ UNCHANGED <<pkiVars, pipelineVars, pc, read, ring, ssh, steady>>

\* Nobody reads the files once NewServer has its certificates, so commands are
\* not run from then on until the process ends.
RunCommand ==
  /\ pc = "down" \/ pc \in Creating \ {"bind", "serf", "alive", "create"}
  /\ Command
  /\ steady' = FALSE
  /\ UNCHANGED <<pipelineVars, pc, read, ring, ssh, client>>

\* What the main goroutine does on its own, but for its failures.
Main ==
  \/ Open \/ ReadPrivateKey \/ ReadAdminCert \/ CreateAdmin \/ AddPublicKey
  \/ ReadRoots \/ NewSSHServer \/ SetupSerf \/ SetAlive \/ Created \/ Start
  \/ StartSerfer \/ Joined
  \/ StopSsh \/ LeaveSnapshot \/ LeaveIntent \/ LeaveMemberlist \/ LeaveSent
  \/ Shutdown \/ ShutdownMemberlist \/ ShutdownWait \/ StopSerfer

Next ==
  \/ Launch \/ Main \/ NewServerFails \/ JoinSends \/ JoinFails \/ Signal
  \/ Gossip \/ Goroutine \/ Connect \/ HangUp \/ RunCommand \/ Crash

\* Go runs every goroutine, and of the ready cases of a select it takes one at
\* random, as it gives a mutex to every goroutine in the end: what becomes
\* possible again and again is done.
Fairness ==
  /\ SF_vars(Main \/ NewServerFails)
  /\ WF_vars(Delivers) /\ WF_vars(SnapshotterRuns) /\ WF_vars(QueriesRun)
  /\ WF_vars(SerferRuns) /\ WF_vars(SerferReturns)
  /\ SF_vars(SnapshotterReturns) /\ SF_vars(QueriesReturn)

Spec == Init /\ [][Next]_vars /\ Fairness

-----------------------------------------------------------------------------
(* Properties. *)

\* "using the admin key we generated earlier in setup" (README.md): the key
\* under private/ is one the server admits the admin by, however often it was
\* made anew and the server restarted or killed, unless a command failed or
\* was at work while the server started.
AdminIsAdmitted ==
  pc = "running" /\ steady /\ faults = 0 => file[Key(AdminCert)].key \in ring

\* Clients are served only by a node of the cluster whose list of servers is
\* kept, and not once serf has begun to leave; but Start lets them in just before
\* it starts the serfer, so for a moment nobody reads the events of those.
ClientsAreServedByMembers ==
  client =>
    /\ serfer = "selecting" \/ pc = "start.serfer"
    /\ snapshotter # "ended" /\ ~ shutdown
    /\ pc \notin Stopping \ {"stop.ssh"}

\* Stop returns when its clients have left, if none of serf's channels is full
\* when its reader ends: then the snapshotter, or whoever holds memberlist's
\* lock, waits for good, and Stop with it.
StopReturnsOnceClientsLeave ==
  (pc \in Stopping ~> ~ client) =>
    (pc \in Stopping ~> pc \notin Stopping \/ Clogged)

\* Nobody holds memberLock for good, up to the same full channels: not the
\* main goroutine while it joins, nor gossip while it stops.  But in NewServer
\* the events of other nodes may fill all channels before the serfer reads any;
\* then their lock is kept, or the main goroutine keeps it.
LocksAreReleased ==
  sender # "nobody" ~>
    sender = "nobody" \/ Clogged \/ (pc \in {"alive", "create"} /\ Overfull)

\* Neither Stop nor a goroutine of serf waits for good.
NobodyWaitsForGood == StopReturnsOnceClientsLeave /\ LocksAreReleased

\* What the main goroutine waits for has come.
MainCanRun ==
  \/ pc \in {"start", "start.serfer", "shutdown"}
  \/ pc \in {"create", "join", "leave.sent"} /\ sender # "main"
  \/ pc = "stop.ssh" /\ ~ client
  \/ pc = "leave.snapshot" /\ snapshotter = "selecting"
  \/ pc \in {"alive", "leave.intent", "leave.memberlist"} /\ sender = "nobody"
  \/ pc = "shutdown.memberlist" /\ ~ NodeLocked
  \/ pc = "shutdown.wait" /\ snapshotter = "ended"
  \/ pc = "stop.serfer" /\ serfer = "ended"

\* No circle of goroutines waits for each other: while a lock is held, and where
\* the main goroutine waits in NewServer, Start or Stop, what is waited for is
\* there or some goroutine can run towards it.  The exceptions are a client that
\* stays; once serf is shut down, a full channel whose reader has ended; and until
\* the serfer is started, its channel full.  That last one does not stop Start,
\* which starts the serfer, but NewServer may wait for good.
NobodyIsStuck ==
  /\ sender # "nobody" => PipelineCanRun \/ Clogged \/ Overfull
  /\ pc \in Stopping \cup {"alive", "create", "start", "start.serfer", "join"} =>
       \/ MainCanRun \/ PipelineCanRun
       \/ Clogged \/ Overfull \/ (pc = "stop.ssh" /\ client)
  /\ Clogged => shutdown
  /\ Overfull => pc \in {"alive", "create"} \/ MainCanRun

\* Goroutines only run down what is left of the events there are, and only who
\* finds the lock free adds to it: a lock is held for no more than StepsLeft of
\* their steps.
WorkRunsOut ==
  [][ /\ Goroutine => StepsLeft' < StepsLeft
      /\ StepsLeft' > StepsLeft => sender = "nobody" \/ pc' = "down" ]_vars
=============================================================================
