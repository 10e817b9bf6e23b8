------------------------------ MODULE Membership ------------------------------
(***************************************************************************)
(* The server's list of nodes.  One goroutine, the serfer, takes serf's    *)
(* events one by one: join and update put the member into the list under   *)
(* the address its SSH server has, leave, failure and reaping delete what  *)
(* is under that address, and every event about a member is offered to     *)
(* the reconciler's channel, which nobody reads.                           *)
(***************************************************************************)
EXTENDS Gossip

CONSTANT ReconcileLimit   \* capacity of the reconciler's channel

ASSUME MembershipAssumption == ReconcileLimit \in Nat

VARIABLES
  nodes,      \* the list: what is under each address
  reconcile,  \* the number of members in the reconciler's channel
  serfer,     \* the goroutine: running, dying, stopped or crashed
  abandoned,  \* auxiliary: addresses a member left for another without leaving
  disputed    \* auxiliary: addresses about which serf last said something of one
              \* member while another one was there

listVars == <<nodes, reconcile, serfer>>
auxVars == <<abandoned, disputed>>
vars == <<gossipVars, listVars, auxVars>>

Place == Address \X Port
NoDetails == [name |-> "none"]
Details == [name : Node, cluster : {t.cluster : t \in AllTags},
            bootstrap : BOOLEAN]

TypeOK ==
  /\ GossipTypeOK
  /\ nodes \in [Place -> Details \cup {NoDetails}]
  /\ reconcile \in 0..ReconcileLimit
  /\ serfer \in {"running", "dying", "stopped", "crashed"}
  /\ abandoned \subseteq Place
  /\ disputed \subseteq Place

Init ==
  /\ GossipInit
  /\ nodes = [p \in Place |-> NoDetails]
  /\ reconcile = 0
  /\ serfer = "running"
  /\ abandoned = {}
  /\ disputed = {}

\* Mutant of AddNode: what is there stays.
AddNewNode(p, d) ==
  nodes' = [nodes EXCEPT ![p] = IF @ = NoDetails THEN d ELSE @]

AddNode(p, d) == nodes' = [nodes EXCEPT ![p] = d]
RemoveNode(p) == nodes' = [nodes EXCEPT ![p] = NoDetails]

GetNodes == {nodes[p] : p \in Place} \ {NoDetails}

\* Mutant of Reconcile: the send has no default.
ReconcileOrWait ==
  /\ reconcile < ReconcileLimit
  /\ reconcile' = reconcile + 1

Reconcile == reconcile' = IF reconcile < ReconcileLimit THEN reconcile + 1
                                                       ELSE reconcile

-----------------------------------------------------------------------------
(* HandleEvent. *)

Taken == Head(events)

Take(types) ==
  /\ serfer \in {"running", "dying"}
  /\ events # <<>> /\ Taken.type \in types
  /\ events' = Tail(events)
  /\ UNCHANGED <<members, auxVars>>

\* The join and update handlers; a member that is no server is skipped.
NodePresent ==
  /\ Take({"join", "update"})
  /\ IF IsServer(Taken.member.tags)
       THEN AddNode(Endpoint(Taken.member), NodeDetails(Taken.node, Taken.member))
       ELSE UNCHANGED nodes
  /\ Reconcile
  /\ UNCHANGED serfer

\* Mutant of NodeAbsent: failed members are kept.
NodeGone ==
  /\ Take({"leave", "failed", "reap"})
  /\ IF IsServer(Taken.member.tags) /\ Taken.type # "failed"
       THEN RemoveNode(Endpoint(Taken.member))
       ELSE UNCHANGED nodes
  /\ Reconcile
  /\ UNCHANGED serfer

NodeAbsent ==
  /\ Take({"leave", "failed", "reap"})
  /\ IF IsServer(Taken.member.tags) THEN RemoveNode(Endpoint(Taken.member))
                                    ELSE UNCHANGED nodes
  /\ Reconcile
  /\ UNCHANGED serfer

\* handleUserEvent first calls IsLeaderEvent, which NewServer leaves nil.
HandleUserEvent ==
  /\ Take({"user"})
  /\ serfer' = "crashed"
  /\ UNCHANGED <<nodes, reconcile>>

HandleEvent == NodePresent \/ NodeAbsent \/ HandleUserEvent

\* Server.Stop, which has shut serf down before.
Stop ==
  /\ serfer = "running"
  /\ serfer' = "dying"
  /\ UNCHANGED <<gossipVars, nodes, reconcile, auxVars>>

End ==
  /\ serfer = "dying"
  /\ serfer' = "stopped"
  /\ UNCHANGED <<gossipVars, nodes, reconcile, auxVars>>

Abandon(n) ==
  abandoned' = IF Present(n) /\ Endpoint(members[n]) # Endpoint(members'[n])
                 THEN abandoned \cup {Endpoint(members[n])}
                 ELSE abandoned

\* Somebody other than n is at the address p.
OthersAt(p, n) == \E k \in Node \ {n} : Present(k) /\ Endpoint(members[k]) = p

\* What serf says of n is about an address that is n's alone, or another's too.
Dispute(n) ==
  IF events' = events
    THEN UNCHANGED disputed
    ELSE LET here == Endpoint(events'[Len(events')].member) IN
         disputed' = IF OthersAt(here, n) THEN disputed \cup {here}
                                          ELSE disputed \ {here}

\* serf's side, until the server shuts it down or the process crashes.
Gossip ==
  /\ serfer = "running"
  /\ \/ \E n \in Node : Change(n) /\ Abandon(n) /\ Dispute(n)
     \/ SendUserEvent /\ UNCHANGED auxVars
  /\ UNCHANGED listVars

Next == Gossip \/ HandleEvent \/ Stop \/ End

\* The serfer's goroutine runs when it can; gossip may be silent.
Spec == Init /\ [][Next]_vars /\ WF_vars(HandleEvent)

-----------------------------------------------------------------------------
(* Properties. *)

Settled == events = <<>> /\ serfer = "running"

\* Once all events are handled, every member that is alive or leaving is in
\* the list, under the address its SSH server has and with the details of its
\* latest tags, whoever had that address before it.  It says nothing of an
\* address about which serf last said something of one member while another one
\* was there: a late failure or reaping of the old name has then deleted the
\* new one's entry, and two that join at one address share one entry.
MembersAreListed ==
  Settled => \A n \in Node :
    Present(n) /\ Endpoint(members[n]) \notin disputed =>
      nodes[Endpoint(members[n])] = NodeDetails(n, members[n])

\* And nobody else is, but under addresses members left without leaving.
ListedAreMembers ==
  Settled => \A p \in Place \ abandoned :
    nodes[p] # NoDetails =>
      \E n \in Node : /\ Present(n) /\ Endpoint(members[n]) = p
                      /\ nodes[p] = NodeDetails(n, members[n])

\* Whatever servers of other clusters gossip, none is ever listed.
ClustersStayApart == \A d \in GetNodes : d.cluster = Cluster

\* The serfer never waits for the reconciler or anything else: when gossip is
\* silent it gets through the events that are left, unless it is stopped or
\* crashes.
GossipEnds == <>[][~ Gossip]_vars
EventsAreHandled == GossipEnds => []<>(events = <<>> \/ serfer # "running")
=============================================================================
