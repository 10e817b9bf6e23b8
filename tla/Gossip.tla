-------------------------------- MODULE Gossip --------------------------------
(***************************************************************************)
(* What the server sees of the cluster: serf's table of members, kept by   *)
(* gossip, and the events serf sends for every change of it, in order, on  *)
(* a channel of limited capacity.  serf asks mergeDelegate about a member  *)
(* before it takes its word, and a member is what its tags say it is.      *)
(***************************************************************************)
EXTENDS Naturals, Sequences

CONSTANTS
  Node,          \* names of members
  Address,       \* IP addresses
  Port,          \* SSH ports
  Tags,          \* the tags each member may come with
  Cluster,       \* the name of this server's cluster
  Home,          \* the addresses each member may come up at
  QueueLimit     \* capacity of the channel

\* A member has tags, or lacks some: role, cluster and port, which is a number
\* or not, and bootstrap.
ASSUME GossipAssumption ==
  /\ \A n \in Node : \A t \in Tags[n] :
       /\ DOMAIN t = {"server", "cluster", "port", "bootstrap"}
       /\ t.server \in BOOLEAN /\ t.bootstrap \in BOOLEAN
  /\ Home \in [Node -> SUBSET Address]
  /\ QueueLimit \in Nat

VARIABLES
  members,   \* serf's table
  events     \* the events that have not been handled

gossipVars == <<members, events>>

Status == {"alive", "leaving", "left", "failed"}
AllTags == UNION {Tags[n] : n \in Node}
Member == [addr : Address, tags : AllTags, status : Status]
Unknown == [status |-> "none"]
Event == [type : {"join", "update", "leave", "failed", "reap"},
          node : Node, member : Member]
UserEvent == [type |-> "user"]

GossipTypeOK ==
  /\ members \in [Node -> Member \cup {Unknown}]
  /\ events \in Seq(Event \cup {UserEvent})

GossipInit ==
  /\ members = [n \in Node |-> Unknown]
  /\ events = <<>>

-----------------------------------------------------------------------------
(* Who is a server of the cluster. *)

IsServer(t) == t.server /\ t.cluster # "missing" /\ t.port \in Port

\* GetKappaServer, of a member for which it returns no error.
NodeDetails(n, m) ==
  [name |-> n, cluster |-> m.tags.cluster, bootstrap |-> m.tags.bootstrap]
Endpoint(m) == <<m.addr, m.tags.port>>

\* Mutant of NotifyMerge: any cluster will do.
NotifyMergeOfAny(ms) == \A m \in ms : IsServer(m.tags)

NotifyMerge(ms) == \A m \in ms : IsServer(m.tags) /\ m.tags.cluster = Cluster

-----------------------------------------------------------------------------
(* What gossip does to the table. *)

Present(n) == members[n].status \in {"alive", "leaving"}

Report(type, n) ==
  /\ Len(events) < QueueLimit
  /\ events' = Append(events, [type |-> type, node |-> n, member |-> members'[n]])

\* A member nobody has heard of may have announced its leave already.
NodeJoin(n) ==
  /\ ~ Present(n)
  /\ \E a \in Home[n], t \in Tags[n], status \in {"alive", "leaving"} :
       LET m == [addr |-> a, tags |-> t, status |-> status] IN
       /\ NotifyMerge({m})
       /\ status = "leaving" => members[n] = Unknown
       /\ members' = [members EXCEPT ![n] = m]
  /\ Report("join", n)

\* A server that is back, at the same address, before anybody missed it: it has
\* at least another id, a tag nobody reads.
NodeUpdate(n) ==
  /\ Present(n)
  /\ \E t \in Tags[n] :
       /\ NotifyMerge({[members[n] EXCEPT !.tags = t]})
       /\ members' = [members EXCEPT ![n].tags = t]
  /\ Report("update", n)

NodeLeave(n) ==
  \/ /\ members[n].status = "leaving"
     /\ members' = [members EXCEPT ![n].status = "left"]
     /\ Report("leave", n)
  \/ /\ members[n].status = "alive"
     /\ members' = [members EXCEPT ![n].status = "failed"]
     /\ Report("failed", n)

\* A member announces its leave, or an operator removes a failed one; a leave
\* announced may be refuted.
Intent(n) ==
  /\ \/ /\ members[n].status = "alive"
        /\ members' = [members EXCEPT ![n].status = "leaving"]
     \/ /\ members[n].status = "failed"
        /\ members' = [members EXCEPT ![n].status = "left"]
     \/ /\ members[n].status = "leaving"
        /\ members' = [members EXCEPT ![n].status = "alive"]
  /\ UNCHANGED events

\* The event carries the member as it was.
Reap(n) ==
  /\ members[n].status \in {"left", "failed"}
  /\ Len(events) < QueueLimit
  /\ members' = [members EXCEPT ![n] = Unknown]
  /\ events' = Append(events, [type |-> "reap", node |-> n, member |-> members[n]])

SendUserEvent ==
  /\ Len(events) < QueueLimit
  /\ events' = Append(events, UserEvent)
  /\ UNCHANGED members

Change(n) == NodeJoin(n) \/ NodeUpdate(n) \/ NodeLeave(n) \/ Intent(n) \/ Reap(n)
=============================================================================
