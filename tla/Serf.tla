--------------------------------- MODULE Serf ---------------------------------
(***************************************************************************)
(* How serf keeps its table of members.  Memberlist tells every node who   *)
(* came, changed and went; why somebody went is told by intents, messages  *)
(* to join or to leave with a Lamport time, which gossip carries to        *)
(* everybody in any order, any number of times or never, and by the states *)
(* that two nodes exchange now and then.  The model follows one member,    *)
(* the subject, in the tables of several nodes, the subject's own among    *)
(* them: what a table says of two members is independent but for the       *)
(* clock.  The subject leaves, dies and comes back with its clock from the *)
(* snapshot or with a new one.                                             *)
(***************************************************************************)
EXTENDS Naturals, Sequences, FiniteSets, FiniteSetsExt

CONSTANTS
  Observer,       \* the other nodes
  Server,         \* the one whose events kappa handles
  Subject,
  RecentLimit,    \* length of the two buffers of intents
  EventLimit,     \* capacity of the channel
  MaxTime,        \* no intent is made at this time or later
  MaxLives        \* bounds the starts of the subject

ASSUME SerfAssumption ==
  /\ Server \in Observer /\ Subject \notin Observer
  /\ RecentLimit \in Nat \ {0} /\ EventLimit \in Nat
  /\ MaxTime \in Nat \ {0} /\ MaxLives \in Nat

VARIABLES
  view,       \* each node's clock, buffers, and entry about the subject, with
              \* the life whose tags it has
  lives,      \* how often the subject was started
  state,      \* the subject: down, alive or leaving
  refuting,   \* times of the joins its goroutines are about to broadcast
  intents,    \* all that was ever broadcast
  events      \* the server's channel

vars == <<view, lives, state, refuting, intents, events>>

Node == Observer \cup {Subject}

\* A refutation is later than what it refutes, once in every life.
Time == 0..(MaxTime + MaxLives)

\* A buffer of intents: zeros are slots that hold none.
NoIntents == [slots |-> [k \in 1..RecentLimit |-> 0], next |-> 1]

NewView(clock) ==
  [clock |-> clock, joins |-> NoIntents, leaves |-> NoIntents,
   status |-> "none", time |-> 0, life |-> 0, failed |-> 0, left |-> 0]

Intent == [type : {"join", "leave"}, time : Time]
Event == [type : {"join", "update", "leave", "failed", "reap"},
          status : {"alive", "leaving", "left", "failed"}, life : 1..MaxLives]

TypeOK ==
  /\ \A n \in Node :
       LET v == view[n] IN
       /\ v.clock \in Time /\ v.time \in Time
       /\ v.status \in {"none", "alive", "leaving", "left", "failed"}
       /\ v.life \in 0..MaxLives
       /\ \A ring \in {v.joins, v.leaves} :
            ring.slots \in [1..RecentLimit -> Time] /\ ring.next \in 1..RecentLimit
       /\ v.failed \in 0..1 /\ v.left \in 0..1
  /\ lives \in 0..MaxLives
  /\ state \in {"down", "alive", "leaving"}
  /\ refuting \subseteq Time
  /\ intents \subseteq Intent
  /\ events \in Seq(Event) /\ Len(events) <= EventLimit

Init ==
  /\ view = [n \in Node |-> NewView(1)]
  /\ lives = 0
  /\ state = "down"
  /\ refuting = {}
  /\ intents = {}
  /\ events = <<>>

-----------------------------------------------------------------------------
(* What the handlers make of a node's view v. *)

\* Mutant of Witness: not ahead of what it has seen.
WitnessNoMore(v, t) == IF t < v.clock THEN v ELSE [v EXCEPT !.clock = t]

Witness(v, t) == IF t < v.clock THEN v ELSE [v EXCEPT !.clock = t + 1]

\* The latest of the slots before the first zero, or zero.
RecentIntent(ring) ==
  Max({0} \cup {ring.slots[k] : k \in
                  {j \in 1..RecentLimit : \A i \in 1..j : ring.slots[i] # 0}})

\* Mutant of Buffer: the index does not wrap.
BufferOnwards(ring, t) ==
  IF RecentIntent(ring) # 0 THEN ring
    ELSE [slots |-> [ring.slots EXCEPT ![ring.next] = t], next |-> ring.next + 1]

\* The first intent of a kind is kept for when the subject turns up.
Buffer(ring, t) ==
  IF RecentIntent(ring) # 0 THEN ring
    ELSE [slots |-> [ring.slots EXCEPT ![ring.next] = t],
          next |-> (ring.next % RecentLimit) + 1]

Present(v) == v.status \in {"alive", "leaving"}

\* handleNodeLeaveIntent, but for the subject's refutation.
AfterLeaveIntent(v0, t) ==
  LET v == Witness(v0, t) IN
  CASE v.status = "none" -> [v EXCEPT !.leaves = Buffer(@, t)]
    [] v.status = "alive" /\ t > v.time ->
         [v EXCEPT !.status = "leaving", !.time = t]
    [] v.status = "failed" /\ t > v.time ->
         [v EXCEPT !.status = "left", !.time = t, !.failed = 0, !.left = @ + 1]
    [] OTHER -> v

\* Mutant of AfterJoinIntent: any join is news.
AfterAnyJoinIntent(v0, t) ==
  LET v == Witness(v0, t) IN
  IF v.status = "none" THEN [v EXCEPT !.joins = Buffer(@, t)]
    ELSE [v EXCEPT !.time = t,
                   !.status = IF @ = "leaving" THEN "alive" ELSE @]

AfterJoinIntent(v0, t) ==
  LET v == Witness(v0, t) IN
  CASE v.status = "none" -> [v EXCEPT !.joins = Buffer(@, t)]
    [] v.status # "none" /\ t > v.time ->
         [v EXCEPT !.time = t,
                   !.status = IF @ = "leaving" THEN "alive" ELSE @]
    [] OTHER -> v

\* Mutant of AfterNodeJoin: the lists are left alone.
AfterNodeJoinKeepingLists(v, life) ==
  LET join == RecentIntent(v.joins)
      leave == RecentIntent(v.leaves)
  IN
  IF v.status # "none" THEN [v EXCEPT !.status = "alive", !.life = life]
  ELSE IF leave > join
    THEN [v EXCEPT !.status = "leaving", !.time = leave, !.life = life]
    ELSE [v EXCEPT !.status = "alive", !.time = join, !.life = life]

\* handleNodeJoin: a member that comes back is alive; of one that is new, the
\* intents that came first say since when it is there, or that it is leaving.
AfterNodeJoin(v, life) ==
  LET join == RecentIntent(v.joins)
      leave == RecentIntent(v.leaves)
  IN
  IF v.status # "none"
    THEN [v EXCEPT !.status = "alive", !.life = life, !.failed = 0, !.left = 0]
  ELSE IF leave > join
    THEN [v EXCEPT !.status = "leaving", !.time = leave, !.life = life]
    ELSE [v EXCEPT !.status = "alive", !.time = join, !.life = life]

\* Mutant of AfterNodeLeave: nobody fails.
AfterNodeLeaveAnyhow(v) == [v EXCEPT !.status = "left", !.left = @ + 1]

\* handleNodeLeave.
AfterNodeLeave(v) ==
  IF v.status = "leaving" THEN [v EXCEPT !.status = "left", !.left = @ + 1]
                          ELSE [v EXCEPT !.status = "failed", !.failed = @ + 1]

\* Mutant of Refutes: the leave is taken for its own.
RefutesNothing(i, v, t) == FALSE

\* A live subject hears that it leaves, from its last life or from an operator.
Refutes(i, v, t) ==
  i = Subject /\ state = "alive" /\ v.status # "none" /\ t > v.time

-----------------------------------------------------------------------------
(* Intents.  Every one that is broadcast may reach every node, at any time. *)

Up(i) == i = Subject => state # "down"

\* A node whose view is v gets an intent of time t.
HearLeave(i, v, t) ==
  \/ /\ Refutes(i, v, t)
     /\ LET w == Witness(v, t) IN
        /\ view' = [view EXCEPT ![i] = w]
        /\ refuting' = refuting \cup {w.clock}
  \/ /\ ~ Refutes(i, v, t)
     /\ view' = [view EXCEPT ![i] = AfterLeaveIntent(v, t)]
     /\ UNCHANGED refuting

HearJoin(i, v, t) ==
  /\ view' = [view EXCEPT ![i] = AfterJoinIntent(v, t)]
  /\ UNCHANGED refuting

NotifyMsg(i) ==
  /\ Up(i)
  /\ \E m \in intents :
       \/ m.type = "leave" /\ HearLeave(i, view[i], m.time)
       \/ m.type = "join" /\ HearJoin(i, view[i], m.time)
  /\ UNCHANGED <<lives, state, intents, events>>

\* What LocalState says at j comes to i as artificial intents.
MergeRemoteState(i, j) ==
  /\ i # j /\ Up(i) /\ Up(j)
  /\ LET w == view[j]
         v == Witness(view[i], w.clock - 1)
     IN
     \/ w.left > 0 /\ HearLeave(i, v, w.time)
     \/ w.left = 0 /\ w.status # "none" /\ HearJoin(i, v, w.time)
     \/ w.status = "none" /\ view' = [view EXCEPT ![i] = v] /\ UNCHANGED refuting
  /\ UNCHANGED <<lives, state, intents, events>>

\* broadcastJoin.
BroadcastJoin(t) ==
  /\ view' = [view EXCEPT ![Subject] = AfterJoinIntent(@, t)]
  /\ intents' = intents \cup {[type |-> "join", time |-> t]}

Join ==
  /\ state = "alive" /\ view[Subject].clock < MaxTime
  /\ BroadcastJoin(view[Subject].clock)
  /\ UNCHANGED <<lives, state, refuting, events>>

\* The goroutine that refutes took the time when it was started.
Refute ==
  /\ state # "down"
  /\ \E t \in refuting : BroadcastJoin(t) /\ refuting' = refuting \ {t}
  /\ UNCHANGED <<lives, state, events>>

\* Leave takes the time, increments the clock and goes on as if it heard the
\* leave.
Leave ==
  /\ state = "alive" /\ view[Subject].clock < MaxTime
  /\ state' = "leaving"
  /\ LET v == view[Subject] IN
     /\ view' = [view EXCEPT ![Subject] =
                   AfterLeaveIntent([v EXCEPT !.clock = @ + 1], v.clock)]
     /\ intents' = intents \cup {[type |-> "leave", time |-> v.clock]}
  /\ UNCHANGED <<lives, refuting, events>>

\* An operator gives up a member, or takes one for another.
RemoveFailedNode(i) ==
  LET v == view[i] IN
  /\ v.clock < MaxTime
  /\ HearLeave(i, [v EXCEPT !.clock = @ + 1], v.clock)
  /\ intents' = intents \cup {[type |-> "leave", time |-> v.clock]}
  /\ UNCHANGED <<lives, state, events>>

-----------------------------------------------------------------------------
(* What memberlist tells, and the events of it.  memberLock is held while    *)
(* the channel is full.                                                      *)

\* Only the events of the server are followed.
Send(i, type, v) ==
  IF i = Server
    THEN /\ Len(events) < EventLimit
         /\ events' = Append(events, [type |-> type, status |-> v.status,
                                      life |-> v.life])
    ELSE UNCHANGED events

\* Create.  The clock is that of the snapshot, which may be late or missing.
Start ==
  /\ state = "down" /\ lives < MaxLives
  /\ state' = "alive" /\ lives' = lives + 1
  /\ \E clock \in 1..view[Subject].clock :
       view' = [view EXCEPT ![Subject] = AfterNodeJoin(NewView(clock), lives + 1)]
  /\ UNCHANGED <<refuting, intents, events>>

\* A node hears of a member that is there, or that another believes there.
NodeJoin(i) ==
  /\ lives > 0 /\ ~ Present(view[i])
  /\ state # "down" \/ \E j \in Observer : Present(view[j])
  /\ view' = [view EXCEPT ![i] = AfterNodeJoin(@, lives)]
  /\ Send(i, "join", view'[i])
  /\ UNCHANGED <<lives, state, refuting, intents>>

\* The subject is back before i missed it.
NodeUpdate(i) ==
  /\ Present(view[i]) /\ view[i].life # lives
  /\ view' = [view EXCEPT ![i].life = lives]
  /\ Send(i, "update", view'[i])
  /\ UNCHANGED <<lives, state, refuting, intents>>

\* An observer misses the subject, rightly or not, or the subject leaves.
NodeLeave(i) ==
  /\ Present(view[i])
  /\ i = Subject => state = "leaving"
  /\ view' = [view EXCEPT ![i] = AfterNodeLeave(@)]
  /\ Send(i, IF view'[i].status = "left" THEN "leave" ELSE "failed", view'[i])
  /\ UNCHANGED <<lives, state, refuting, intents>>

\* A member that was on one of the lists for long is forgotten.
Reap(i) ==
  /\ \/ /\ view[i].failed > 0
        /\ view' = [view EXCEPT ![i].status = "none", ![i].time = 0,
                                ![i].life = 0, ![i].failed = @ - 1]
     \/ /\ view[i].left > 0
        /\ view' = [view EXCEPT ![i].status = "none", ![i].time = 0,
                                ![i].life = 0, ![i].left = @ - 1]
  /\ Send(i, "reap", view[i])
  /\ UNCHANGED <<lives, state, refuting, intents>>

\* The subject dies, or has left.  Only its clock may survive.
Down ==
  /\ state # "down"
  /\ state' = "down" /\ refuting' = {}
  /\ view' = [view EXCEPT ![Subject] = NewView(@.clock)]
  /\ UNCHANGED <<lives, intents, events>>

\* The server takes an event.
TakeEvent ==
  /\ events # <<>>
  /\ events' = Tail(events)
  /\ UNCHANGED <<view, lives, state, refuting, intents>>

Next ==
  \/ Start \/ Join \/ Refute \/ Leave \/ Down \/ TakeEvent
  \/ NodeLeave(Subject)
  \/ \E i \in Node : NotifyMsg(i) \/ \E j \in Node : MergeRemoteState(i, j)
  \/ \E i \in Observer :
       \/ NodeJoin(i) \/ NodeUpdate(i) \/ NodeLeave(i)
       \/ Reap(i) \/ RemoveFailedNode(i)

Spec == Init /\ [][Next]_vars

-----------------------------------------------------------------------------
\* A member is on the list of the failed or of the left exactly once, and only
\* while it is one of them, or reap forgets a member that came back and the
\* states exchanged say that it left.
ListsTellStatuses ==
  \A i \in Node :
    /\ view[i].failed = IF view[i].status = "failed" THEN 1 ELSE 0
    /\ view[i].left = IF view[i].status = "left" THEN 1 ELSE 0

\* A node's clock is ahead of every time it has heard of, so that what it
\* announces next is news to whoever knows no more than it does.
TimesAreInThePast ==
  \A i \in Node :
    LET v == view[i] IN
    /\ v.time < v.clock
    /\ \A k \in 1..RecentLimit : v.joins.slots[k] < v.clock /\ v.leaves.slots[k] < v.clock

\* While a node knows the subject, no late or repeated message takes it back to
\* an earlier time.
TimesNeverGoBack ==
  [][\A i \in Observer :
       view[i].status # "none" /\ view'[i].status # "none"
         => view'[i].time >= view[i].time]_vars

\* A subject that did not leave never believes that it does, whatever leaves of
\* its former lives, or of an operator, come round.
OnlyLeaveLeaves == state = "alive" => view[Subject].status = "alive"

\* A member as kappa sees it; let the subject bootstrap the cluster when it is
\* first started.
Seen(v) ==
  IF v.status = "none" THEN [status |-> "none"]
    ELSE [addr |-> "home", status |-> v.status,
          tags |-> [server |-> TRUE, cluster |-> "one", port |-> 1,
                    bootstrap |-> v.life = 1]]

G ==
  INSTANCE Gossip WITH
    Node <- {Subject}, Address <- {"home"}, Port <- {1}, Cluster <- "one",
    Tags <- [n \in {Subject} |->
              {[server |-> TRUE, cluster |-> "one", port |-> 1, bootstrap |-> b] :
                 b \in BOOLEAN}],
    Home <- [n \in {Subject} |-> {"home"}],
    QueueLimit <- EventLimit,
    members <- [n \in {Subject} |-> Seen(view[Server])],
    events <- [k \in DOMAIN events |->
                 [type |-> events[k].type, node |-> Subject,
                  member |-> Seen(events[k])]]

\* Seen from the server, all this is the gossip that Membership starts from: a
\* node joins, changes, leaves or fails and is reaped in an order that its
\* events tell, one at a time and none left out.
ImplementsGossip ==
  G!GossipInit /\ [][G!Change(Subject) \/ TakeEvent]_(G!gossipVars)
=============================================================================
