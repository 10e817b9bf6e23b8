# kappa in TLA+

kappa is a small database server written in Go. Clients log in over SSH with a
public key; SKL statements (`USE`, `CREATE NAMESPACE`, `DROP NAMESPACE`, `SHOW
NAMESPACES`) are parsed and executed against a data model that keeps
namespaces, users, roles and permissions in bolt; the servers of a cluster find
each other with serf. This directory specifies that program: TLA+ modules
translated from its source, TLC configurations that check them on small
instances, and TLAPS proofs that carry the main results to every instance.
Paths below are relative to `src/`.

## 1. The system

| Component | State | Operations | Talks to |
|---|---|---|---|
| `datamodel/namespaces.go` | the `namespaces` keyspace: one bucket per namespace, in it the key `users` (a comma separated list) and the bucket `roles` (role -> comma separated permissions) | `NamespaceStore`: Create, Get, Delete, Stream; `Namespace`: AddUser, RemoveUser, HasAccess, Users, AddRole, RemoveRole, Roles, GrantPermissions, RevokePermission, HasPermission, CreateChild | bolt transactions |
| `datamodel/users.go`, `auth.go` | the `users` keyspace: one bucket per account with `namespaces` (namespace -> comma separated roles), `keys` (fingerprint -> key), salt and salted password | `UserStore`: Create, Get, Delete; `User`: Roles, AddRole, RemoveRole, Namespaces, passwords; `PublicKeyRing`: AddPublicKey, RemovePublicKey, ListPublicKeys, Contains | bolt transactions |
| `executor/executor.go` | per session: its user and its current namespace | Execute and one handler per statement | both keyspaces, several transactions per statement |
| `skl/`, `eliquious/lexer` | a scanner over runes with a ring of the last three, a ring of the last three tokens, a parser | ParseStatement | the executor takes its statements |
| `server/ssh.go` | per connection | PublicKeyCallback (login), EchoHandler (the channel) | users keyspace, sshh |
| `server/server.go`, `config.go`, `commands/server.go` | the parts of a running server | NewServer, Start, Stop, setupSerf; the command around them | everything |
| `server/serf.go`, `manager.go`, `merge.go`, `utils.go` | `nodeList`: address -> details of the servers of the cluster | event handlers for join, update, leave, fail, reap and user events; merge check | serf through serfer's goroutine |
| `serf` (vendored) | the table of members, two lists beside it, a Lamport clock, two buffers of intents; the channels its events go through; the snapshot file | what memberlist tells, intents, push/pull, Join, Leave, reaping; compaction and replay | memberlist, the serfer |
| `commands/cli.go`, the terminal (vendored) | lines of this session, a ring of lines, the history file | the client's loop, one statement and its answer at a time | the server, the file |
| `commands/init-ca.go`, `new-cert.go`, `auth/keys.go` | the files under `pki/` | keys, requests, certificates | NewServer reads the files |
| `client/`, `common/`, `pkg/uuid` | none | messages, status codes, terminal colours, UUIDs | - |

What is hard here:

* **Many transactions per operation.** Each call of the data model is one bolt
  transaction, but a statement makes up to five of them, a login two. Other
  sessions write in between.
* **Handles are names.** A `Namespace`, `User` or `PublicKeyRing` keeps a name
  and no state, so it outlives what it named.
* **Two keyspaces, one relation.** Who belongs to a namespace is written in the
  namespace's user list and in the account's role lists; nothing keeps them equal.
* **Lists as text.** Appending never looks for duplicates; removing filters;
  the empty list and the list of one empty string are stored alike.
* **Concurrency.** Goroutines under tombs, bounded channels whose senders hold
  locks, a shutdown that waits for everybody.
* **Gossip.** What other nodes announce comes in any order, late, twice or
  never, from former lives of the same node too.
* **Files.** The snapshot, the certificates and the history are written in
  several steps by processes that may die between any two of them.

## 2. Modules, state and actions

Lower modules are instanced or extended by higher ones; nothing is modelled
twice.

```
CommaList --> NamespaceStore --> NamespaceRefinement --> AccessControl (abstract)
     \               \
      \               +--> Executor --> ExecutorAudit
       +--> UserStore --+
                  \--> Login
Tomb --> EchoHandler --> SshServer
Gossip --> Membership        Serf --> Gossip (abstract)
UnreadRing --> Lexer --> Parser
HistoryRing --> Terminal --> Client
Pki, EventPipeline --> Lifecycle
Snapshot
```

`Gossip` is both a part and a specification: `Membership` handles the events it
sends, and `Serf` shows that serf's own handlers send no others.

| Module | Models | State | Actions |
|---|---|---|---|
| `CommaList` | the encoded lists of `namespaces.go` and `users.go` | none: a list is a function from elements to copies | `Appended`, `Filtered`, `Stored` are what Join, Split and the filter loops do to it |
| `NamespaceStore` | the namespaces keyspace | `buckets` (names), `users[n]` (list), `roles[n]` (keys of the bucket `roles`), `perms[n][r]` (list) | one per method that writes: `Create`, `Delete`, `AddUser`, ..., `CreateChild`; methods that read are operators |
| `AccessControl` | what the interfaces promise, in sets | `spaces`, `members`, `defined`, `grants` | the same names |
| `NamespaceRefinement` | that the first implements the second | - | the mapping forgets copies |
| `UserStore` | the users keyspace | `accounts`, `joined[u]` (keys of `namespaces`), `memberRoles[u][n]` (list), `keys`, `password` | one per method that writes |
| `Login` | `PublicKeyCallback` | `stage[a]` of each connection, its claim | `GetUser`, `CheckKey` (one per transaction), `Begin`, `Forget`, and `OtherCall`, any action of `UserStore` |
| `Executor` | `Execute` and its handlers | both keyspaces; per session `user`, `current`, the statement, the local variables `pending`, `access`, the reply, and `pc[s]`, which names the next call | one per transaction; `OtherCall` is any call of the data model; `Failure` is `KeyspaceFails`, a keyspace that cannot be opened, or `CreateFails`, a name that bolt does not take |
| `ExecutorAudit` | the same, with history variables that guard nothing | what was held and permitted during the statement | - |
| `Tomb` | `tomb.v2`: the reason a tomb dies of | - | `Killed` keeps the first reason other than nil |
| `EchoHandler` | `EchoHandler.Handle` | two goroutines per channel, `main` and `reader`, the unbuffered channel between them, the tomb | one per select outcome or blocking call |
| `SshServer` | `sshh`: `listen`, `handleTCPConnection` | accept loop, connections, their dispatchers, three kinds of tombs | one per select outcome or blocking call; the client is `Dial`, `OpenChannel`, `UseChannel`, `HangUp` |
| `Gossip` | serf as `setupSerf` configures it | `members`, serf's table; `events`, its channel | one per change that serf reports, and `Intent`, which it does not |
| `Serf` | serf's table: `serf.go`, `delegate.go`, `lamport.go` of serf | for one member, `view[i]` is what each node has of it, with the node's clock, lists and buffers; `state` of the member, `intents` ever broadcast, `events` of the server | one per message, call or notification of memberlist; `Start` and `Down` |
| `Membership` | `serf.go`, `manager.go`, the serfer's loop | `nodes`, address to details; the number in the reconciler's channel; the goroutine; auxiliary `abandoned` and `disputed`, addresses that a member moved away from or two members are at | one per kind of event |
| `UnreadRing` | the ring of three elements with a count of unread ones | none: a record | `Stored`, `Reread`, `Unread`; `Curr` is the element read |
| `Lexer` | the scanner of `eliquious/lexer` under SKL | the runes read, the ring, the place in the scan | one per rune |
| `Parser` | `skl/parser.go`, `skl/scanner.go` | the ring of tokens, the statement so far | one per token |
| `HistoryRing`, `Terminal` | the ring of lines and the keys that browse it | `history`, `historyIndex`, `historyPending`, `line` | one per key |
| `Client` | `cli.go`'s loop and `History` | the file, its old and new entries, bytes on their way both ways | one per line, read or delivery; `WriteToFile` writes all of the entries, some, or the last of them in part; `Kill`, `LoseConnection`, `OtherSession` |
| `Snapshot` | serf's snapshotter | file, new file, buffer, offset, `broken` (bufio keeps the first error of a write); what memory has | one per line appended and step of a compaction; `FlushFails` under those that write; `Crash`, `Spill` |
| `Pki` | `init-ca`, `new-cert` | what each file holds, whole or cut off | `Create` and `Encode` of one file; `SaveFails`, `Kill` |
| `EventPipeline` | the three channels serf's events pass and their goroutines | how full each is, who holds the lock and sends | one per select outcome or send |
| `Lifecycle` | `commands/server.go`, `server/server.go`, `Leave` and `Shutdown` of serf | where the main goroutine is, what it read, the admin's key ring, the SSH server | one per step of NewServer, Start and Stop: `SetupSerf` starts serf's goroutines and memberlist's listeners, `SetAlive` sends the first event, `Start` the SSH server, `StartSerfer` the serfer; `Gossip`, `Crash`, `RunCommand` |

How code maps to TLA+:

* A bolt transaction is one action: bolt runs one writer at a time and gives
  readers a snapshot. A method of the data model makes exactly one. Commits are
  taken to succeed, and so are reads of an open database; what `Create` refuses, a
  name that is empty or too long, is `CreateFails`.
* bolt nests a namespace's users, roles and permissions in its bucket, and an
  account's keys, password and roles in its own. The stores keep one variable for
  each, and deleting a bucket empties them together. `NestedInBuckets`, which says
  so, follows from the layout: it is a lemma of the proofs and nothing that is
  claimed of the code.
* Handles are names in the code and so in the model; nothing is remembered of a
  bucket between two calls.
* Names hold no comma, and no user is named `users` or `roles`, the two keys
  the namespaces keyspace uses itself. The order of a list is left out since no
  caller can see it; copies are kept, because removals must remove them all.
* `strings.Join` of nothing and of one empty string are both the empty value;
  readers take it for no list. `Stored` and `Appended` keep that, and `Empty`
  is the element.
* Salted hashes and the constant time compare stand for the password.
* The account of the admin is not read by any handler, so `Executor` has only
  its name. A role the account lists twice is checked twice with the same
  outcome; `pending` is a set. `Submit` chooses any statement: parsing is not
  part of it.
* `tomb.Go` copies tombs by value in `sshh/server.go:105,174`: a copy made while
  `run` holds the mutex is locked for good. `stuck` and `copied` are that
  outcome, chosen at random, since it is a data race in the code.
* A member of serf is what `GetKappaServer` reads of it: an address and tags. Tags
  other than role, cluster, port and bootstrap are left out, and so is whatever
  never differs (`NodeDetails.Role`, and `DataCenter`, `Service` and `Expect`,
  which nothing sets).
* A line of runes is chosen while it is read: letters that make a keyword are
  one rune of the model, since the scanner treats letters alike and looks the
  word up at its end. The scanner's end of input is the rune 0, so `nul` in a line
  is the end of it until it is read on; a keyword with a NUL in it is left out.
* A line of the client is a sequence of words, a line of the snapshot two halves
  with the line feed in the second, because bufio may write the first alone. What
  is appended to half a line makes another line with it or none: `Glued` has the
  two combinations that replay takes for a line, under `HarmfulCuts`.
* The three functions that save a file of `pki/` (`auth/keys.go:146-179,216-224`) each
  create the file and encode one block to it; they differ in the block's type, which
  the model takes from the command, and are one `Create`, `Encode` and `SaveFails`.
* `memberlist.Create` starts its listeners before `setAlive` (`memberlist.go:123-139`),
  so gossip may hold serf's lock, and send, before the first event of the node.
* `Serf` follows one member: what a table says of two is independent but for the
  clock and the slots of the buffers. Every intent ever broadcast may reach any
  node at any time or never. A push/pull is read and merged in one step.
* kappa's node name is the operator's, so a node that is started again has the
  name of its last life and another `id` tag; its clock comes from the snapshot
  and may be late.
* The command line client and the server meet in `Client` as bytes, because the
  defect of the echo is one of bytes.

## 3. What is checked

Every run is TLC over the whole reachable state graph, but for `audit`, which
has the constraint described there.

| Run | Instance | Properties | What it shows |
|---|---|---|---|
| `namespaces` | parent and child, two users, one role, one permission and the empty string, 2 copies | `ImplementsAccessControl`, `CallsDoAsPromised` | in any sequence of calls every one is the call of the same name on sets, for all the copies the lists hold |
| `login` | one namespace, two accounts, two keys, one connection | `RoleCallsDoAsPromised`, `AdmittedByCurrentKey` | a role is added and removed alone, however many copies there are; a client is admitted only by a key that was there during the attempt |
| `executor` | `acme` and `acme.dev`, bob, the admin, nobody; one session | `CreatedFromItsParent`, `OnlySuccessChangesAnything`, `EnteredByMembers`, `HandledStatementsAreAnswered` | statements are all or nothing, whoever writes between their calls; a child has the roles and permissions its parent has when it appears (of its users, see below) |
| `audit` | the same with two roles | `DecidedByTheStores` (`UndisturbedVerdict`, `CreationIsAuthorized`) | undisturbed, the chain of calls answers what one look at both stores would; disturbed, a child is only created on a role that was held and permitted during the statement |
| `ssh_server` | a connection with two channels, two messages on the first, and Stop | `EchoesAreInOrder`, `StopKillsEverything`, `NobodyIsStuck`, `ConnectionsAreServed`, `StopReturnsOnceClientsLeave` | the selects of the handler and the dispatcher miss nothing; nobody waits in a circle once the client has gone; nothing outlives Stop; Stop returns when the clients have gone |
| `membership` | two members, of which one may be at the other's address, four tags each at most, two ports, 3 events | `MembersAreListed`, `ListedAreMembers`, `ClustersStayApart`, `EventsAreHandled` | whatever the order of joins, updates, leaves, failures and reapings, the list becomes the members', but for addresses that two were at (`disputed`) or one moved from (`abandoned`) |
| `serf` | a member and the server that follows it, two lives, times up to 3, buffers of 2 | `TypeOK`, `ListsTellStatuses`, `TimesAreInThePast`, `OnlyLeaveLeaves`, `TimesNeverGoBack`, `ImplementsGossip` | the lists agree with the statuses, no old intent undoes a newer one, a live member refutes leaves of its former life, and the server's events are those `Membership` starts from |
| `parser` | every line of up to three runes beyond the words of a statement, over 16 runes, NUL among them | `UnreadRunesAreKept`, `BareNamesAreVerbatim`, `StatementsRoundTrip` | no rune or token is unread that the ring has lost; names come out as they stood, without quotes and NULs; statements print as what parses to them; parsing ends |
| `client` | two sessions of three lines, two statements, others' sessions, writes that fail or are cut off | `ClientTypeOK`, `RecallIsExact`, `FileIsTheLog`, `StatementsAreFinished` | the ring recalls what was entered, the file is the log of the sessions that ended until a write ends within a line (`cut`), every statement is finished |
| `snapshot` | one node, two starts, one error of a write, flush or compaction, a file of up to 6 halves before compaction | `TypeOK`, `FileTellsTheMemory`, `RecallIsRecent` | until a write fails, file, buffer and pending lines replay to memory at every step and the offset that decides on compaction is the length of the file; always, what a restart recalls is no older than the last flush that succeeded, but for what half a line spoils |
| `lifecycle` | one name, three keys, one fault, channels of 1, no bootstrap | `NobodyIsStuck`, `KeysFitCertificates`, `AdminIsAdmitted`, `ClientsAreServedByMembers`, `NobodyWaitsForGood` (`StopReturnsOnceClientsLeave`, `LocksAreReleased`) | whatever is killed, and restarted, a certificate never stands with another's key unless a save failed, the admin's last key is admitted, no order of Start and Stop makes goroutines wait in a circle or holds a lock for good, and Stop returns, but for full channels nobody reads (`Clogged`, `Overfull`) |

The types, lists and control states of the data model, the login, the executor, the
SSH server, the membership, the parser and the lifecycle (`TypeOK`, `ListsAreStable`,
`ControlOK`, `LoginTypeOK`, `ParserTypeOK`) are theorems of section 4 or, of `Login`,
part of its invariant there; their runs leave them to the proofs. The type invariants
of the other modules are in their runs, and theorems too.

`NobodyIsStuck` of `Lifecycle` and of `SshServer` is the safety that their liveness
rests on: where a goroutine waits, what it waits for is there or some goroutine can
run towards it. What a goroutine needs to run is written out (`PipelineCanRun`,
`MainCanRun`, `CanHandle`, `CanServe`), one disjunct for each case of a select,
send or wait in the code, because ENABLED is beyond the provers. The exceptions are
named: a client that stays, a tomb copied while it was locked (`Lost`), and two of
full channels. `Clogged`: after Shutdown a reader has ended and left its channel full.
`Overfull`: before `serfer.Start` nobody reads the serfer's channel, and gossip may
have filled it and those before it, some three thousand events; `Start` gets over
that, but NewServer, which sends or waits for serf's lock, never returns.
`ClientsAreServedByMembers` leaves out the moment between `server/server.go:223`,
which accepts clients, and 226, which starts the serfer. The other half, that the
steps taken are not taken over and over (`WorkRunsOut` of either module), is left to
the theorems of section 4.

One run checks what a comment of the code says and finds it violated:

| Run | The comment | What the code does |
|---|---|---|
| `create_race` | CreateChild "makes a new child namespace" (`datamodel/namespaces.go:50`) | CREATE looks whether the name exists and creates it in separate transactions; if someone creates it in between, the parent's roles are put over it |

Met on the way and without a run, in the data model and the executor:

* **A child has its parent's roles and none of its users.** CreateChild is to make
  it "with the same users and roles" (`datamodel/namespaces.go:50`), but puts the
  list of users under a key that is the list itself (`namespaces.go:466`), where no
  reader looks. `TestCreateChild` asks that the parent's users have access to the child
  (`namespaces_test.go:892-897`), and passes because the child it makes has the name of
  the parent. The model has what the code does: `users` is left alone by `CreateChild`.
  `CreatedFromItsParent` speaks of roles and permissions and says nothing of users.
* USE asks the account's list, never the namespace's `HasAccess`
  (`executor/executor.go:91-94`), so `AddUser` alone lets nobody in.
* The roles of the user and the permissions of a role are read in separate
  transactions (`executor.go:157,174`): the two need never have held together.
  `CreationIsAuthorized` says what remains true.
* DROP has no case in `Execute` (`executor.go:43`) and is never answered;
  `HandledStatementsAreAnswered` leaves it out.

In the servers:

* Echoes carry everything received so far and not the message
  (`server/ssh.go:95,107`); `EchoesAreInOrder` says so exactly. The client reads
  as many bytes as the length says, so from the third statement of a session on
  it reads the size of an answer from the middle of an earlier one: four letters
  of a statement, for which it allocates up to two gigabytes, or panics when the
  fourth is no ASCII. `StatementsAreFinished` says that it never waits for good.
* An error of any connection but the end of input, a failed handshake for one,
  kills the tomb that all dispatchers watch (`sshh/server.go:105-109,182`): the
  server goes on and serves no channel.
* `Stop` waits for clients to hang up (`sshh/server.go:61,134`).
* The main goroutine of `Handle` does not look at its own tomb
  (`server/ssh.go:115`); it ends by the parent's.
* Entries of the list are deleted by address (`server/manager.go:54`): a server
  that came back under another name at its old address is deleted when the old
  name fails or is reaped. `MembersAreListed` leaves out such addresses (`disputed`).
* A server that changes its SSH port leaves its old entry in the list for good;
  `ListedAreMembers` leaves out such addresses (`abandoned`).
* `NewServer` leaves `IsLeaderEvent` nil (`server/server.go:151`), which the serfer
  calls on every user event: the first one ends the process, long before the
  channel of 256 that user events are sent to, and nobody reads, is full
  (`server/serf.go:41`).
* The list of "remote nodes" (`server/manager.go:5`) has the local one, and
  `FindByDataCenter` and `FindByService` only match the empty string.
* A root certificate that does not parse makes NewServer return neither a server
  nor an error (`server/server.go:107`), and the caller starts what it did not get.
* The snapshotter sends events without looking at `shutdownCh`, to a reader that
  does. If the internal queries end with their channel full, which takes over a
  thousand waiting events, `Stop` never returns; `StopReturnsOnceClientsLeave` of
  `Lifecycle` names the case (`Clogged`).

In serf:

* A push/pull turns the time of a leave that is known into a join of that time
  (`delegate.go:216-226`), since only members that have left are sent as leaves.
  The leave itself is then an old message, and a member that left gracefully is
  reported as failed.
* `recentIntent` stops at the first slot that is zero (`serf.go:1484`), and an
  artificial join of time zero puts a zero there: what is behind it is not found.
  A second intent for a member that is not known is dropped, the newer one too.
* A refutation takes its time when its goroutine is started (`serf.go:1001`); a
  `Leave` before the goroutine runs takes the same time, and whoever hears the
  join first ignores the leave.
* A crash between `os.Remove` and `os.Rename` in the snapshot's compaction leaves
  no file under its name, and the next start begins anew, though
  it is there to "recall a list of known nodes to re-join" (`snapshot.go:22-25`). The
  new file has everything and is not looked for; `RecallIsRecent` says what it tells.
* The error of a write or flush of the snapshot is only logged
  (`snapshot.go:184-186,216-218,292-303`). The maps have changed and the line is lost;
  bufio returns the error again for every later one, none of which is counted in
  `offset`, so nothing is recorded or compacted until the next start.
  `FileTellsTheMemory` ends there.
* Half a line at the end of the snapshot is not cut off: the next line is glued to
  it, and both are lost, or read as a third.

In the commands:

* `init-ca --overwrite` is not looked at: only the flag of `new-cert` is bound
  (`commands/new-cert.go:135`).
* `new-cert --name=ca` writes its key over the authority's. `Pki` assumes that
  nobody asks for the name.
* After RemoveLast the size of the terminal's ring stays, so Up may recall blank
  lines and rejected ones. Enter on an empty line leaves the history where it was.
* Statements of earlier sessions are read without the line feed that new ones
  are compared with (`commands/cli.go:247`), so a line repeated across two
  sessions is written twice. Errors of OpenChannel, Read and Write are ignored, and so is that of the
  history's WriteString (`commands/cli.go:262-264`): an entry that is cut off makes one
  line with the first of the next session.
* The lexer's `eof` is `rune(0)` (`lexer/utils.go:11`), so a NUL ends a word, and
  the rest of the line is read on or ignored (`utils.go:132-134`,
  `scanner.go:186-203`): `USE a`, NUL, `b` names `ab`.
* `a"b"` is the name `b` (`lexer/scanner.go:190`), `acme.1dev` and `acme-dev` are
  `acme` with the rest ignored, `""` and `a.""` give a name that is empty or ends
  on a period, and `a..b` is accepted, though parseNamespace reads a "period
  delimited list of identifiers" (`skl/parser.go:150`). `BareNamesAreVerbatim`
  says what holds without quotes and NULs.

### Bounds

| Bound | Value | Why it is enough |
|---|---|---|
| `MaxCopies` | 2 (1 under `Executor`) | a removal tells one copy from several; under `Executor` copies only repeat what `namespaces` and `login` check |
| `Session` | 1 | sessions share only the stores, and `OtherCall` makes every call on them another session could |
| `Namespace`, `User`, `Role` | 2, 1 to 2, 1 to 2 | a parent and a child; a second user to be left alone; a second role for the scan |
| `ScanFocus` (`audit` only) | states where the child has roles, a namespace has users, or bob has roles elsewhere are checked but not explored further | the two properties read only the parent's roles and permissions and bob's roles on it, and whether names exist |
| `MaxMessages` | two and none | order and the buffer need two messages on one channel, interference a busy second channel |
| `Conn` | 1 | connections share only the server's tomb; `NothingOutlivesStop` is proved for any number |
| `QueueLimit` | 3 (256 in the code) | an event that undoes another, and one of the other member between them |
| `ReconcileLimit` | 1 (32 in the code) | full and not full |
| `Home` | one member at one address, one at two | an address that is another's, taken over or shared |
| `Observer`, `EventLimit` | 1, 1 | views of the member differ only by the order of what they hear, and the member's own view is a second one to exchange states with; with two observers the graph has more than two million states at times up to 2; `SerfProofs` is about any number |
| `MaxTime`, `MaxLives`, `RecentLimit` | 3, 2, 2 | a join, a leave and a removal with times of their own; a former life; a slot behind a zero |
| `MaxRunes` | 3 beyond the words | unreading reaches two runes back; a name of two parts takes three runes |
| `DefaultEntries`, `MaxLines`, `MaxSessions` | 3, 3, 2 (100 in the code for the first) | the ring wraps; a repetition within a session and across two |
| `MaxSize`, `MaxClock`, `MaxStarts`, `MaxErrors`, `HarmfulCuts` | 6 halves, 1, 2, 1, true | a file that holds less than a compaction needs; a start that finds half a line and appends to it; an error, and everything refused after it. The order of several nodes in an image is left to `SnapshotProofs` |
| `MaxKeys`, `MaxFaults`, the channels | 3, 1, 1 | the authority's, the admin's and a new one; full and not full |

### Fairness

`Handler(s)`, `Listen`, `Serve(c)`, `Handle(h)`, `HandleEvent`, the
parser, the client's reads and the goroutines of `EventPipeline` are weakly fair:
each is a goroutine's next step, and Go runs a goroutine that can run. `Arrive`
is, because TCP delivers while the connection holds. The main goroutine of
`Lifecycle` is strongly fair, because a mutex that others take again and again is
given to every waiter in the end, and so are the ends of its selects, because Go
takes one of the ready cases at random. Nothing is assumed of clients, of serf's
peers, or of `Stop` being called: `StopReturnsOnceClientsLeave` and
`EventsAreHandled` name what they need in their antecedents, that clients hang up
and that gossip falls silent. `Serf` and `Snapshot` state safety only.

Deadlock is checked for the data model, the login, the executor and the lifecycle. The
SSH server may end with every client gone, the membership may stop, a line and a
client's last session end, and `Serf` and `Snapshot` run out of their bounds: their
configurations say `CHECK_DEADLOCK FALSE`.

## 4. What is proved

TLAPS proves these for all values of the constants, under the modules' named
assumptions (bounds such as `MaxCopies` are natural numbers, the empty
string is no name, channels have owners, tags have the four fields, the runes that
mean something to the scanner are no letters or digits).

| Module | Theorems | The argument |
|---|---|---|
| `NamespaceStoreProofs` | `TypeCorrect`, `ListsStayStable`, `EveryCallDoesAsPromised`, `StoreImplementsAccessControl` | what `Appended`, `Filtered` and `Stored` do, by cases on whether the result is one empty string, comes first. The types, the nesting of the buckets and the stability of the lists are inductive together; each call is then matched with the call of its name, using stability of lists where the mapping must not see the empty string |
| `LoginProofs` | `TypeCorrect`, `RolesAreAsCalled`, `OnlyCurrentKeysAdmit` | the keyspace's invariants are inductive as they are; a key that is in the ring while the callback runs has been seen since it began; one that admitted a client too |
| `ExecutorProofs` | `TypeCorrect`, `ControlCorrect`, `StatementsAreAllOrNothing`, `OnlyMembersEnter`, `NamespacesAreCreatedFromTheirParents`, `StatementsAreDecidedByTheStores` | the layout of the stores gives that a name without a bucket has no roles, which the copying of the parent's to a child relies on; `ControlOK` gives what a call may assume. For the verdicts `AuditInv` says at each `pc` what the calls so far have found: it is true of the stores as long as nobody has written since, and the roles that are left to look up are roles the user held during the statement, so what is granted was held and permitted |
| `SessionProofs` | of `Parser`: `ParserTypeCorrect`, `UnreadIsKept`, `BareNamesStand`; of `Client`: `ClientTypeCorrect`, `RecallIsRight`, `FileIsRight`; of `SshServer`: `TypeCorrect`, `NothingOutlivesStop`, `EchoesComeInOrder`, `NobodyWaitsInACircle`, `TheServersWorkRunsOut` | the invariant has two positions in the line, where the token begins and where the scanner is. As many runes are before the second as were read less those unread, the slots hold the last three (`Window`), and each place of the scanner unreads no more than it has read since (`Depth`). On a line without quotes and NULs each place says what the line holds between the two (`TokenFits`), and each place of the parser what it holds before the first (`ParseFits`); two identifiers never touch (`NothingSpelled`), so a name comes after a blank and only a period lengthens it. Of the client's ring the invariant says that it gives back the kept lines as far as it can (`Recalls`): a line that is put on it and one that is taken back keep this, by cases on whether the head wraps (`PutRecalls`), and so does loading, line by line (`LoadedRecalls`). `Entries`, `Joined` and `Distinct` are recursive functions: each takes one step per element (`EntriesStepwise` and the like), from a least counterexample (`StepByStep`). As the file always ends a line, an entry that is appended to it is read back as one (`EntriesOfJoined`), and a session's entries are its statements, each run once (`AppendEntryTakes`); that the file always ends a line holds until `cut`. In the server a handler runs only on a connection that is being served or drained; the number of replies is the number taken less the one on offer. For the waits, the tomb of a connection that is drained is dying, a channel's handler was started only by an answered request, and the tomb of a handler whose goroutines are done is dying (`WaitsOK`): so a main goroutine in its select, or a reader at its send, has a tomb to free it, and a connection with no handler left can be closed. `ChannelLeft` and `ConnLeft` count the steps left: each message is two, each end and each stage one |
| `MembershipProofs` | `TypeCorrect`, `ClustersAreApart`, `MembersGetListed`, `ListIsOfMembers` | neither property of a settled list is inductive. `Comes(events, nodes, pl, d)` says what the list will be once the events are handled: the last event about an address decides, or the list. Handling an event never changes it (`TailComes`) and sending one changes it as the table changed (`AppendComes`), so it agrees with the table always, and with the list once there are no events. An address is `disputed` after a step exactly when the event was sent while another member was there, so of any other address the last event is that of the member that is there |
| `SerfProofs` | `TypeCorrect`, `ListsAreRight`, `ClocksAreAhead`, `NobodyIsMadeToLeave`, `EntriesOnlyAge`, `GossipIsImplemented` | every handler is an operator on one node's view: a lemma for each says that it keeps the view sound (clock ahead, lists true) and its time from going back, and every step changes one view. What `recentIntent` finds is below the clock because `Max` of a bounded set is in it, from the well-founded order of the naturals. Only `TypeCorrect` uses the bound on times: no clock passes `MaxTime` but by a refutation, and a member that has refuted has an entry of its own that is too new to be refuted again, so there is one per life (`Bounds`). For the refinement, what the server's handler makes of its view is matched with the event of the same name of `Gossip`, in order, and every other step changes nothing `Gossip` sees |
| `LifecycleProofs` | `TypeCorrect`, `KeysBelongToCertificates`, `TheAdminIsAdmitted`, `OnlyMembersServeClients`, `NobodyWaitsInACircle`, `LocksAreHeldForSoManySteps` | without a fault a command has saved a prefix of its files, and a key and its certificate fit unless the second is still to be saved (`PkiFits`); while a process is steady its key ring is what is on disk; clients are there only between two places of the main goroutine (`ClientsFit`). `PlacesFit` says at which places of the main goroutine each of the three goroutines is there, and who may hold the lock; then a sender waits for the snapshotter, which waits for the queries, which wait for the serfer, which waits for nobody (`WaitersAreServed`), unless a reader ended after Shutdown or the serfer is still to be started. `StepsLeft` gives each event the number of steps from its place to the serfer, 6 to 1: each step of a goroutine takes one away (`GoroutinesRunDown`) |
| `SnapshotProofs` | `TypeCorrect`, `FileIsTheMemory`, `WhatIsRecalledIsRecent` | replay is a recursive function and no induction theorem can be used of it: that it exists, that it depends on what was read only and that a line at the end of whole lines is replayed after them are proved from a least counterexample each. The image that a compaction writes tells the memory whatever the order of the nodes (`ImageTells`). The invariant says that the file and the buffer end on a whole line and tell the memory but for the line in hand (`Tells`) until a write has failed, when only the new file of a compaction is known to be right, and that a crash after any of the halves not yet written leaves something written since the last flush (`Recallable`) |

Only model-checked: every liveness property (`HandledStatementsAreAnswered`,
`ConnectionsAreServed`, both `StopReturnsOnceClientsLeave`, `EventsAreHandled`,
`StatementsAreFinished`, `NobodyWaitsForGood`, and that parsing ends in
`StatementsRoundTrip`), which is out of the provers' reach, though for the SSH server
and the lifecycle its two safe halves are theorems: that some goroutine can run, and
that there is only so much left to run. What joins the halves, the fairness of each
goroutine, stays with TLC. So does that what `Written` gives parses as itself, in
`StatementsRoundTrip`. Every other property of a passing run is a theorem.

## 5. Not modelled

* The SSH protocol, bolt, memberlist and Go's x509 themselves; they appear as what
  their callers can see. Writes to a channel are taken not to block.
* serf's user events and queries, which kappa does not send and its handlers drop,
  its coalescing, which kappa does not configure, and its resolution of name
  conflicts, which kappa turns off; the filters of `NodeList`, which only read.
* Flags, configuration files, logging, colours and the writing of answers
  (`commands`, `common`): no state. The screen and the keys that edit within a line.
* `client/messages.go`: nothing sends or reads the messages. `skl/encoder.go` is
  empty. `pkg/uuid`: sixteen random bytes.
* The rest of the vendored code: yaml, msgpack, cobra, viper, codecs and loggers,
  nine lines of ten in the repository, none of which has state of kappa's in it.

## 6. Plan

The modules the code calls for are there, the safety properties of their runs are
theorems, and so is the safety that the liveness of the SSH server and of the
lifecycle rests on. One theorem is left: for `StatementsRoundTrip`, that a parse of
`Written(s)` that ends has accepted `s`. `ParseFits` says what the line holds before
each token, and would have to say which statement it is.
