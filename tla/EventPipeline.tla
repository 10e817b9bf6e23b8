---------------------------- MODULE EventPipeline ----------------------------
(***************************************************************************)
(* The way of serf's events to the serfer.  Whoever changes the table of   *)
(* members sends the event while it holds memberLock, and memberlist's     *)
(* nodeLock too unless it is the reaper; the snapshotter passes the event  *)
(* on to serf's internal queries, and those to the channel of NewServer,   *)
(* which the serfer drains.  All three channels are bounded and every send *)
(* waits.  The events themselves are left out: the queues are numbers.     *)
(***************************************************************************)
EXTENDS Naturals

CONSTANTS
  SnapshotterLimit,   \* capacity of the snapshotter's channel
  QueriesLimit,       \* capacity of the internal queries' channel
  SerferLimit         \* capacity of serfEventCh

ASSUME PipelineAssumption ==
  {SnapshotterLimit, QueriesLimit, SerferLimit} \subseteq Nat \ {0}

VARIABLES
  toSnapshotter, toQueries, toSerfer,   \* the events in each channel
  snapshotter, queries, serfer,         \* the three goroutines
  sender,                               \* who holds memberLock to send an event
  shutdown                              \* shutdownCh is closed

channels == <<toSnapshotter, toQueries, toSerfer>>
goroutines == <<snapshotter, queries, serfer>>
pipelineVars == <<channels, goroutines, sender, shutdown>>

PipelineTypeOK ==
  /\ toSnapshotter \in 0..SnapshotterLimit
  /\ toQueries \in 0..QueriesLimit
  /\ toSerfer \in 0..SerferLimit
  /\ {snapshotter, queries} \subseteq {"none", "selecting", "sending", "ended"}
  /\ serfer \in {"none", "selecting", "dying", "ended"}
  /\ sender \in {"nobody", "gossip", "reaper", "main"}
  /\ shutdown \in BOOLEAN

\* A process without serf.
NoPipeline ==
  /\ toSnapshotter = 0 /\ toQueries = 0 /\ toSerfer = 0
  /\ snapshotter = "none" /\ queries = "none" /\ serfer = "none"
  /\ sender = "nobody"
  /\ shutdown = FALSE

PipelineGone ==
  /\ toSnapshotter' = 0 /\ toQueries' = 0 /\ toSerfer' = 0
  /\ snapshotter' = "none" /\ queries' = "none" /\ serfer' = "none"
  /\ sender' = "nobody"
  /\ shutdown' = FALSE

NodeLocked == sender \in {"gossip", "main"}

\* A reader is gone and left a channel nobody can send to.
Clogged ==
  \/ snapshotter = "ended" /\ toSnapshotter = SnapshotterLimit
  \/ queries = "ended" /\ toQueries = QueriesLimit

\* No reader has come yet, and there is no room left before it.
Overfull == serfer = "none" /\ toSerfer = SerferLimit

-----------------------------------------------------------------------------
(* The steps. *)

\* handleNodeJoin and the like take the lock.
TakeLock(who) ==
  /\ sender = "nobody"
  /\ sender' = who
  /\ UNCHANGED <<channels, goroutines, shutdown>>

\* The event is in the channel, and the lock is free.
Send ==
  /\ sender # "nobody"
  /\ toSnapshotter < SnapshotterLimit
  /\ toSnapshotter' = toSnapshotter + 1
  /\ sender' = "nobody"
  /\ UNCHANGED <<toQueries, toSerfer, goroutines, shutdown>>

SnapshotterTakes ==
  /\ snapshotter = "selecting" /\ toSnapshotter > 0
  /\ toSnapshotter' = toSnapshotter - 1
  /\ snapshotter' = "sending"
  /\ UNCHANGED <<toQueries, toSerfer, queries, serfer, sender, shutdown>>

\* Forward the event, then record it.
SnapshotterSends ==
  /\ snapshotter = "sending" /\ toQueries < QueriesLimit
  /\ toQueries' = toQueries + 1
  /\ snapshotter' = "selecting"
  /\ UNCHANGED <<toSnapshotter, toSerfer, queries, serfer, sender, shutdown>>

SnapshotterEnds ==
  /\ snapshotter = "selecting" /\ shutdown
  /\ snapshotter' = "ended"
  /\ UNCHANGED <<channels, queries, serfer, sender, shutdown>>

\* An internal query is answered by another goroutine and goes no further.
QueriesTake ==
  /\ queries = "selecting" /\ toQueries > 0
  /\ toQueries' = toQueries - 1
  /\ queries' \in {"sending", "selecting"}
  /\ UNCHANGED <<toSnapshotter, toSerfer, snapshotter, serfer, sender,
                 shutdown>>

QueriesSend ==
  /\ queries = "sending" /\ toSerfer < SerferLimit
  /\ toSerfer' = toSerfer + 1
  /\ queries' = "selecting"
  /\ UNCHANGED <<toSnapshotter, toQueries, snapshotter, serfer, sender,
                 shutdown>>

QueriesEnd ==
  /\ queries = "selecting" /\ shutdown
  /\ queries' = "ended"
  /\ UNCHANGED <<channels, snapshotter, serfer, sender, shutdown>>

\* HandleEvent waits for nothing.
SerferTakes ==
  /\ serfer \in {"selecting", "dying"} /\ toSerfer > 0
  /\ toSerfer' = toSerfer - 1
  /\ UNCHANGED <<toSnapshotter, toQueries, goroutines, sender, shutdown>>

SerferEnds ==
  /\ serfer = "dying"
  /\ serfer' = "ended"
  /\ UNCHANGED <<channels, snapshotter, queries, sender, shutdown>>

-----------------------------------------------------------------------------
(* What the goroutines have before them. *)

\* A goroutine has its select ready, or the channel it sends to has room.
PipelineCanRun ==
  \/ sender # "nobody" /\ toSnapshotter < SnapshotterLimit
  \/ snapshotter = "selecting" /\ (toSnapshotter > 0 \/ shutdown)
  \/ snapshotter = "sending" /\ toQueries < QueriesLimit
  \/ queries = "selecting" /\ (toQueries > 0 \/ shutdown)
  \/ queries = "sending" /\ toSerfer < SerferLimit
  \/ serfer \in {"selecting", "dying"} /\ toSerfer > 0
  \/ serfer = "dying"

\* The most steps they can take before another event is sent: those of each
\* event, from where it is, and the end of each goroutine.
One(holds) == IF holds THEN 1 ELSE 0
StepsLeft ==
  6 * One(sender # "nobody") + 5 * toSnapshotter + 4 * One(snapshotter = "sending")
    + 3 * toQueries + 2 * One(queries = "sending") + toSerfer
    + One(snapshotter # "ended") + One(queries # "ended") + One(serfer # "ended")
=============================================================================
