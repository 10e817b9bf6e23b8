--------------------------- MODULE MembershipProofs ---------------------------
(***************************************************************************)
(* What holds of the list of nodes for any members, addresses, tags and    *)
(* capacities.  The argument for the two properties of a settled list is   *)
(* what the list will be once the events in the channel are handled: that  *)
(* changes with every event serf sends and never by handling one.          *)
(***************************************************************************)
EXTENDS Membership, TLAPS

USE GossipAssumption, MembershipAssumption

AnyEvent == Event \cup {UserEvent}

\* The table, the channel and the list only hold servers of this cluster, at
\* addresses they may come up at.
ServersOnly ==
  /\ \A n \in Node :
       members[n] # Unknown =>
         /\ NotifyMerge({members[n]})
         /\ members[n].addr \in Home[n]
  /\ \A i \in DOMAIN events :
       events[i].type # "user" =>
         /\ NotifyMerge({events[i].member})
         /\ events[i].member.addr \in Home[events[i].node]
  /\ \A pl \in Place : nodes[pl] # NoDetails => nodes[pl].cluster = Cluster

\* The event v is about the address pl, and leaves there what Effect says.
Concerns(v, pl) == v.type # "user" /\ Endpoint(v.member) = pl
Effect(v) == IF v.type \in {"join", "update"} THEN NodeDetails(v.node, v.member)
                                              ELSE NoDetails

\* d is what will be under pl when the events es are handled, in a list.
Comes(es, list, pl, d) ==
  \/ \E i \in DOMAIN es :
       /\ Concerns(es[i], pl) /\ d = Effect(es[i])
       /\ \A j \in DOMAIN es : j > i => ~ Concerns(es[j], pl)
  \/ /\ \A j \in DOMAIN es : ~ Concerns(es[j], pl)
     /\ d = list[pl]

MembersCome ==
  \A n \in Node :
    Present(n) /\ Endpoint(members[n]) \notin disputed =>
      Comes(events, nodes, Endpoint(members[n]), NodeDetails(n, members[n]))

OnlyMembersCome ==
  \A pl \in Place \ abandoned, d \in Details :
    Comes(events, nodes, pl, d) =>
      \E n \in Node : /\ Present(n) /\ Endpoint(members[n]) = pl
                      /\ d = NodeDetails(n, members[n])

Inv == TypeOK /\ ServersOnly

-----------------------------------------------------------------------------
(* Types, and clusters. *)

\* What an append and a tail leave.
LEMMA AppendFacts ==
  ASSUME NEW S, NEW s \in Seq(S), NEW e \in S
  PROVE  /\ Append(s, e) \in Seq(S)
         /\ DOMAIN Append(s, e) = 1..(Len(s) + 1)
         /\ DOMAIN s = 1..Len(s)
         /\ \A i \in 1..Len(s) : Append(s, e)[i] = s[i]
         /\ Append(s, e)[Len(s) + 1] = e
         /\ Len(s) \in Nat
  OBVIOUS

LEMMA TailFacts ==
  ASSUME NEW S, NEW s \in Seq(S), s # <<>>
  PROVE  /\ Tail(s) \in Seq(S)
         /\ DOMAIN Tail(s) = 1..(Len(s) - 1)
         /\ DOMAIN s = 1..Len(s)
         /\ \A i \in 1..(Len(s) - 1) : Tail(s)[i] = s[i + 1]
         /\ Head(s) = s[1] /\ Head(s) \in S
         /\ Len(s) \in Nat /\ Len(s) > 0
  OBVIOUS

LEMMA InitInv == Init => Inv
<1> SUFFICES ASSUME Init PROVE Inv
  OBVIOUS
<1>1. TypeOK
  BY DEF Init, GossipInit, TypeOK, GossipTypeOK
<1>2. ServersOnly
  BY DEF Init, GossipInit, ServersOnly
<1>3. QED
  BY <1>1, <1>2 DEF Inv

\* A member the server takes is one for NotifyMerge, whatever its status.
LEMMA StatusDoesNotMatter ==
  ASSUME NEW m \in Member, NEW status \in Status, NotifyMerge({m})
  PROVE  /\ [m EXCEPT !.status = status] \in Member
         /\ NotifyMerge({[m EXCEPT !.status = status]})
         /\ [m EXCEPT !.status = status].addr = m.addr
         /\ [m EXCEPT !.status = status].status = status
         /\ Endpoint([m EXCEPT !.status = status]) = Endpoint(m)
         /\ \A n : NodeDetails(n, [m EXCEPT !.status = status]) = NodeDetails(n, m)
  BY DEF Member, NotifyMerge, IsServer, Endpoint, NodeDetails

\* What gossip may do to the member n: it comes or changes, it goes, or only
\* its status changes and the channel is left alone.
Arrives(n, v) ==
  /\ v.type \in {"join", "update"} /\ v.member = members'[n]
  /\ Present(n)'
  /\ Present(n) => v.type = "update"
Departs(n, v) ==
  /\ v.type \in {"leave", "failed", "reap"}
  /\ ~ Present(n)'
  /\ Endpoint(v.member) = Endpoint(members[n])
Stays(n) ==
  /\ events' = events
  /\ Present(n)' <=> Present(n)
  /\ Endpoint(members'[n]) = Endpoint(members[n])
  /\ NodeDetails(n, members'[n]) = NodeDetails(n, members[n])

LEMMA ChangeFacts ==
  ASSUME Inv, NEW n \in Node, Change(n)
  PROVE  /\ \E m \in Member \cup {Unknown} :
              /\ members' = [members EXCEPT ![n] = m]
              /\ m # Unknown => NotifyMerge({m}) /\ m.addr \in Home[n]
         /\ \/ Stays(n)
            \/ \E v \in Event :
                 /\ events' = Append(events, v) /\ v.node = n
                 /\ NotifyMerge({v.member}) /\ v.member.addr \in Home[n]
                 /\ Arrives(n, v) \/ Departs(n, v)
<1> USE DEF Present
<1>1. /\ members \in [Node -> Member \cup {Unknown}]
      /\ members[n] # Unknown => /\ members[n] \in Member
                                 /\ NotifyMerge({members[n]})
                                 /\ members[n].addr \in Home[n]
  BY DEF Inv, TypeOK, GossipTypeOK, ServersOnly
<1>2. /\ Present(n) => members[n] # Unknown
      /\ members[n].status \in {"left", "failed"} => members[n] # Unknown
  BY DEF Unknown
<1>3. CASE NodeJoin(n)
  <2>1. PICK a \in Home[n], t \in Tags[n], status \in {"alive", "leaving"} :
          LET m == [addr |-> a, tags |-> t, status |-> status] IN
          /\ NotifyMerge({m})
          /\ members' = [members EXCEPT ![n] = m]
    BY <1>3 DEF NodeJoin
  <2> DEFINE m == [addr |-> a, tags |-> t, status |-> status]
             v == [type |-> "join", node |-> n, member |-> m]
  <2>2. m \in Member /\ m.status = status /\ m.addr = a
    BY DEF Member, AllTags, Status
  <2>3. /\ members' = [members EXCEPT ![n] = m] /\ members'[n] = m
        /\ NotifyMerge({m})
    BY <2>1, <1>1
  <2>4. v \in Event /\ v.type = "join" /\ v.member = m /\ v.node = n
    BY <2>2 DEF Event
  <2>5. events' = Append(events, v)
    BY <1>3, <2>3 DEF NodeJoin, Report
  <2>6. ~ Present(n)
    BY <1>3 DEF NodeJoin
  <2> HIDE DEF m, v
  <2>7. Arrives(n, v)
    BY <2>2, <2>3, <2>4, <2>6 DEF Arrives
  <2>8. QED
    BY <2>2, <2>3, <2>4, <2>5, <2>7
<1>4. CASE NodeUpdate(n)
  <2>1. PICK t \in Tags[n] :
          /\ NotifyMerge({[members[n] EXCEPT !.tags = t]})
          /\ members' = [members EXCEPT ![n].tags = t]
    BY <1>4 DEF NodeUpdate
  <2> DEFINE m == [members[n] EXCEPT !.tags = t]
             v == [type |-> "update", node |-> n, member |-> m]
  <2>2. members[n] \in Member /\ Present(n)
    BY <1>1, <1>2, <1>4 DEF NodeUpdate
  <2>3. /\ m \in Member /\ m.status = members[n].status
        /\ m.addr = members[n].addr
    BY <2>2 DEF Member, AllTags
  <2>4. /\ members' = [members EXCEPT ![n] = m] /\ members'[n] = m
        /\ NotifyMerge({m})
    BY <2>1, <1>1
  <2>5. v \in Event /\ v.type = "update" /\ v.member = m /\ v.node = n
    BY <2>3 DEF Event
  <2>6. events' = Append(events, v)
    BY <1>4, <2>4 DEF NodeUpdate, Report
  <2>7. m.addr \in Home[n]
    BY <1>1, <1>2, <2>2, <2>3
  <2> HIDE DEF m, v
  <2>8. Arrives(n, v)
    BY <2>2, <2>3, <2>4, <2>5 DEF Arrives
  <2>9. QED
    BY <2>3, <2>4, <2>5, <2>6, <2>7, <2>8
<1>5. CASE NodeLeave(n)
  <2>1. PICK status \in {"left", "failed"}, type \in {"leave", "failed"} :
          /\ members[n].status \in {"alive", "leaving"}
          /\ members' = [members EXCEPT ![n].status = status]
          /\ Report(type, n)
    BY <1>5 DEF NodeLeave
  <2> DEFINE m == [members[n] EXCEPT !.status = status]
             v == [type |-> type, node |-> n, member |-> m]
  <2>2. members[n] \in Member /\ NotifyMerge({members[n]})
        /\ members[n].addr \in Home[n]
    BY <1>1, <1>2, <2>1
  <2>3. status \in Status
    BY DEF Status
  <2>4. /\ m \in Member /\ m.status = status /\ m.addr = members[n].addr
        /\ Endpoint(m) = Endpoint(members[n]) /\ NotifyMerge({m})
    BY <2>2, <2>3, StatusDoesNotMatter
  <2>5. members' = [members EXCEPT ![n] = m] /\ members'[n] = m
    BY <2>1, <1>1
  <2>6. v \in Event /\ v.type = type /\ v.member = m /\ v.node = n
    BY <2>4 DEF Event
  <2>7. events' = Append(events, v)
    BY <2>1, <2>5 DEF Report
  <2> HIDE DEF m, v
  <2>8. Departs(n, v)
    BY <2>4, <2>5, <2>6 DEF Departs
  <2>9. QED
    BY <2>2, <2>4, <2>5, <2>6, <2>7, <2>8
<1>6. CASE Intent(n)
  <2>1. PICK status \in {"alive", "leaving", "left"} :
          /\ members[n].status \in {"alive", "leaving", "failed"}
          /\ members' = [members EXCEPT ![n].status = status]
          /\ Present(n) <=> status \in {"alive", "leaving"}
    BY <1>6 DEF Intent
  <2> DEFINE m == [members[n] EXCEPT !.status = status]
  <2>2. members[n] \in Member /\ NotifyMerge({members[n]})
        /\ members[n].addr \in Home[n]
    BY <1>1, <1>2, <2>1
  <2>3. status \in Status
    BY DEF Status
  <2>4. /\ m \in Member /\ m.status = status /\ m.addr = members[n].addr
        /\ Endpoint(m) = Endpoint(members[n]) /\ NotifyMerge({m})
        /\ NodeDetails(n, m) = NodeDetails(n, members[n])
    BY <2>2, <2>3, StatusDoesNotMatter
  <2>5. members' = [members EXCEPT ![n] = m] /\ members'[n] = m
    BY <2>1, <1>1
  <2>6. events' = events
    BY <1>6 DEF Intent
  <2> HIDE DEF m
  <2>7. Stays(n)
    BY <2>1, <2>4, <2>5, <2>6 DEF Stays
  <2>8. QED
    BY <2>2, <2>4, <2>5, <2>7
<1>7. CASE Reap(n)
  <2> DEFINE v == [type |-> "reap", node |-> n, member |-> members[n]]
  <2>1. members[n] \in Member /\ NotifyMerge({members[n]})
        /\ members[n].addr \in Home[n]
    BY <1>1, <1>2, <1>7 DEF Reap
  <2>2. v \in Event /\ v.type = "reap" /\ v.member = members[n] /\ v.node = n
    BY <2>1 DEF Event
  <2>3. events' = Append(events, v)
    BY <1>7 DEF Reap
  <2>4. members' = [members EXCEPT ![n] = Unknown] /\ members'[n].status = "none"
    BY <1>1, <1>7 DEF Reap, Unknown
  <2> HIDE DEF v
  <2>5. Departs(n, v)
    BY <2>2, <2>4 DEF Departs
  <2>6. QED
    BY <2>1, <2>2, <2>3, <2>4, <2>5
<1>8. QED
  BY <1>3, <1>4, <1>5, <1>6, <1>7 DEF Change

\* A server of the cluster has a place in the list, and details.
LEMMA ServerFacts ==
  ASSUME NEW m \in Member, NEW n \in Node, NotifyMerge({m})
  PROVE  /\ IsServer(m.tags)
         /\ Endpoint(m) \in Place
         /\ NodeDetails(n, m) \in Details
         /\ NodeDetails(n, m).cluster = Cluster
<1>1. IsServer(m.tags) /\ m.tags.cluster = Cluster /\ m.tags \in AllTags
      /\ m.addr \in Address
  BY DEF NotifyMerge, Member
<1>2. m.tags.bootstrap \in BOOLEAN
  BY <1>1 DEF AllTags
<1>3. Endpoint(m) \in Place
  BY <1>1 DEF Endpoint, Place, IsServer
<1>4. NodeDetails(n, m) \in Details /\ NodeDetails(n, m).cluster = Cluster
  BY <1>1, <1>2 DEF NodeDetails, Details
<1>5. QED
  BY <1>1, <1>3, <1>4

\* What handling an event does to the list.
LEMMA HandleFacts ==
  ASSUME Inv, HandleEvent
  PROVE  /\ events # <<>> /\ Taken \in AnyEvent /\ events' = Tail(events)
         /\ members' = members /\ auxVars' = auxVars
         /\ \/ Taken.type = "user" /\ nodes' = nodes /\ reconcile' = reconcile
            \/ /\ Taken.type # "user" /\ Taken \in Event
               /\ NotifyMerge({Taken.member})
               /\ nodes' = [nodes EXCEPT ![Endpoint(Taken.member)] = Effect(Taken)]
               /\ reconcile' \in 0..ReconcileLimit
         /\ serfer' \in {"running", "dying", "stopped", "crashed"}
<1>1. events \in Seq(AnyEvent) /\ reconcile \in 0..ReconcileLimit
      /\ serfer \in {"running", "dying", "stopped", "crashed"}
  BY DEF Inv, TypeOK, GossipTypeOK, AnyEvent
<1>2. /\ events # <<>> /\ events' = Tail(events)
      /\ members' = members /\ auxVars' = auxVars
  BY DEF HandleEvent, NodePresent, NodeAbsent, HandleUserEvent, Take
<1>3. Taken \in AnyEvent /\ Taken = events[1] /\ 1 \in DOMAIN events
  BY <1>1, <1>2, TailFacts DEF Taken
<1>4. CASE Taken.type = "user"
  <2>1. HandleUserEvent
    BY <1>4 DEF HandleEvent, NodePresent, NodeAbsent, Take
  <2>2. QED
    BY <1>2, <1>3, <1>4, <2>1 DEF HandleUserEvent
<1>5. CASE Taken.type # "user"
  <2>1. Taken \in Event
    BY <1>3, <1>5 DEF AnyEvent, UserEvent
  <2>2. NotifyMerge({Taken.member}) /\ Taken.member \in Member /\ Taken.node \in Node
    BY <1>3, <1>5, <2>1 DEF Inv, ServersOnly, Event
  <2>3. IsServer(Taken.member.tags)
    BY <2>2, ServerFacts
  <2>4. /\ nodes' = [nodes EXCEPT ![Endpoint(Taken.member)] = Effect(Taken)]
        /\ Reconcile /\ serfer' = serfer
    <3>1. CASE NodePresent
      BY <2>3, <3>1 DEF NodePresent, Take, AddNode, Effect
    <3>2. CASE NodeAbsent
      BY <2>3, <3>2 DEF NodeAbsent, Take, RemoveNode, Effect
    <3>3. CASE HandleUserEvent
      BY <1>5, <3>3 DEF HandleUserEvent, Take
    <3>4. QED
      BY <3>1, <3>2, <3>3 DEF HandleEvent
  <2>5. reconcile' \in 0..ReconcileLimit
    BY <1>1, <2>4 DEF Reconcile
  <2>6. QED
    BY <1>1, <1>2, <1>3, <1>5, <2>1, <2>2, <2>4, <2>5
<1>6. QED
  BY <1>4, <1>5

\* A step of gossip: the member n changes, or a user sends an event.
LEMMA GossipFacts ==
  ASSUME Gossip
  PROVE  /\ nodes' = nodes /\ reconcile' = reconcile /\ serfer' = serfer
         /\ \/ /\ SendUserEvent /\ auxVars' = auxVars
            \/ \E n \in Node : Change(n) /\ Abandon(n) /\ Dispute(n)
  BY DEF Gossip, listVars

\* A change that serf tells of settles whether the address it is about is
\* disputed, and no other.
LEMMA DisputeFacts ==
  ASSUME Inv, NEW n \in Node, Change(n), Dispute(n)
  PROVE  /\ disputed' \subseteq Place
         /\ Stays(n) => disputed' = disputed
         /\ \A v \in Event :
              events' = Append(events, v) /\ NotifyMerge({v.member}) =>
                \A pl \in Place :
                  IF Concerns(v, pl)
                    THEN pl \in disputed' <=> OthersAt(pl, n)
                    ELSE pl \in disputed' <=> pl \in disputed
<1>1. events \in Seq(AnyEvent) /\ disputed \subseteq Place
  BY DEF Inv, TypeOK, GossipTypeOK, AnyEvent
<1>2. Stays(n) => disputed' = disputed
  BY DEF Stays, Dispute
<1>3. ASSUME NEW v \in Event, events' = Append(events, v), NotifyMerge({v.member})
      PROVE  /\ disputed' \subseteq Place
             /\ \A pl \in Place :
                  IF Concerns(v, pl)
                    THEN pl \in disputed' <=> OthersAt(pl, n)
                    ELSE pl \in disputed' <=> pl \in disputed
  <2> DEFINE q == Endpoint(v.member)
  <2>1. /\ v.member \in Member /\ v.node \in Node /\ v.type # "user"
        /\ v \in AnyEvent
    BY DEF Event, AnyEvent
  <2>2. q \in Place
    BY <1>3, <2>1, ServerFacts
  <2>3. events' # events /\ events'[Len(events')] = v
    BY <1>1, <1>3, <2>1, AppendFacts
  <2>4. disputed' = IF OthersAt(q, n) THEN disputed \cup {q} ELSE disputed \ {q}
    BY <2>3 DEF Dispute
  <2>5. \A pl : Concerns(v, pl) <=> pl = q
    BY <2>1 DEF Concerns
  <2> HIDE DEF q
  <2>6. QED
    BY <1>1, <2>2, <2>4, <2>5
<1>4. QED
  BY <1>1, <1>2, <1>3, ChangeFacts

\* An event sent keeps the channel as it should be.
LEMMA SentFacts ==
  ASSUME Inv, NEW v \in AnyEvent, events' = Append(events, v),
         v.type # "user" => NotifyMerge({v.member}) /\ v.member.addr \in Home[v.node]
  PROVE  /\ events' \in Seq(AnyEvent)
         /\ \A i \in DOMAIN events' :
              events'[i].type # "user" =>
                /\ NotifyMerge({events'[i].member})
                /\ events'[i].member.addr \in Home[events'[i].node]
<1>1. events \in Seq(AnyEvent)
  BY DEF Inv, TypeOK, GossipTypeOK, AnyEvent
<1>2. /\ events' \in Seq(AnyEvent)
      /\ DOMAIN events' = 1..(Len(events) + 1) /\ DOMAIN events = 1..Len(events)
      /\ \A i \in 1..Len(events) : events'[i] = events[i]
      /\ events'[Len(events) + 1] = v
      /\ Len(events) \in Nat
  BY <1>1, AppendFacts
<1>3. ASSUME NEW i \in DOMAIN events', events'[i].type # "user"
      PROVE  /\ NotifyMerge({events'[i].member})
             /\ events'[i].member.addr \in Home[events'[i].node]
  <2>1. CASE i = Len(events) + 1
    BY <1>2, <1>3, <2>1
  <2>2. CASE i \in 1..Len(events)
    BY <1>2, <1>3, <2>2 DEF Inv, ServersOnly
  <2>3. i = Len(events) + 1 \/ i \in 1..Len(events)
    BY <1>2
  <2>4. QED
    BY <2>1, <2>2, <2>3
<1>4. QED
  BY <1>2, <1>3

LEMMA NextInv == Inv /\ [Next]_vars => Inv'
<1> SUFFICES ASSUME Inv, [Next]_vars PROVE Inv'
  OBVIOUS
<1>1. /\ members \in [Node -> Member \cup {Unknown}]
      /\ events \in Seq(AnyEvent)
      /\ nodes \in [Place -> Details \cup {NoDetails}]
      /\ reconcile \in 0..ReconcileLimit
      /\ serfer \in {"running", "dying", "stopped", "crashed"}
      /\ abandoned \subseteq Place /\ disputed \subseteq Place
  BY DEF Inv, TypeOK, GossipTypeOK, AnyEvent
<1>2. SUFFICES /\ members' \in [Node -> Member \cup {Unknown}]
               /\ events' \in Seq(AnyEvent)
               /\ nodes' \in [Place -> Details \cup {NoDetails}]
               /\ reconcile' \in 0..ReconcileLimit
               /\ serfer' \in {"running", "dying", "stopped", "crashed"}
               /\ abandoned' \subseteq Place /\ disputed' \subseteq Place
               /\ ServersOnly'
  BY DEF Inv, TypeOK, GossipTypeOK, AnyEvent
<1>3. ASSUME NEW n \in Node, Change(n), nodes' = nodes, reconcile' = reconcile,
             serfer' = serfer, Abandon(n), Dispute(n)
      PROVE  /\ members' \in [Node -> Member \cup {Unknown}]
             /\ events' \in Seq(AnyEvent)
             /\ abandoned' \subseteq Place /\ disputed' \subseteq Place
             /\ ServersOnly'
  <2>1. PICK m \in Member \cup {Unknown} :
          /\ members' = [members EXCEPT ![n] = m]
          /\ m # Unknown => NotifyMerge({m}) /\ m.addr \in Home[n]
    BY <1>3, ChangeFacts
  <2>2. /\ members' \in [Node -> Member \cup {Unknown}]
        /\ \A k \in Node :
             members'[k] # Unknown =>
               NotifyMerge({members'[k]}) /\ members'[k].addr \in Home[k]
    BY <1>1, <2>1 DEF Inv, ServersOnly
  <2>3. /\ events' \in Seq(AnyEvent)
        /\ \A i \in DOMAIN events' :
             events'[i].type # "user" =>
               /\ NotifyMerge({events'[i].member})
               /\ events'[i].member.addr \in Home[events'[i].node]
    <3>1. CASE Stays(n)
      <4>1. events' = events
        BY <3>1 DEF Stays
      <4>2. QED
        BY <4>1, <1>1 DEF Inv, ServersOnly
    <3>2. CASE \E v \in Event :
                 /\ events' = Append(events, v) /\ v.node = n
                 /\ NotifyMerge({v.member}) /\ v.member.addr \in Home[n]
      <4>1. PICK v \in Event :
              /\ events' = Append(events, v) /\ v.node = n
              /\ NotifyMerge({v.member}) /\ v.member.addr \in Home[n]
        BY <3>2
      <4>2. v \in AnyEvent
        BY DEF AnyEvent
      <4>3. QED
        BY <4>1, <4>2, SentFacts
    <3>3. QED
      BY <1>3, <3>1, <3>2, ChangeFacts
  <2>4. abandoned' \subseteq Place
    <3>1. CASE Present(n)
      <4>1. members[n] \in Member /\ NotifyMerge({members[n]})
        BY <1>1, <3>1 DEF Present, Unknown, Inv, ServersOnly
      <4>2. Endpoint(members[n]) \in Place
        BY <4>1, ServerFacts
      <4>3. QED
        BY <1>1, <1>3, <4>2 DEF Abandon
    <3>2. CASE ~ Present(n)
      BY <1>1, <1>3, <3>2 DEF Abandon
    <3>3. QED
      BY <3>1, <3>2
  <2>5. disputed' \subseteq Place
    BY <1>1, <1>3, DisputeFacts
  <2>6. ServersOnly'
    BY <1>3, <2>2, <2>3 DEF Inv, ServersOnly
  <2>7. QED
    BY <2>2, <2>3, <2>4, <2>5, <2>6
<1>4. CASE Gossip
  <2>1. CASE SendUserEvent /\ auxVars' = auxVars
    <3>1. members' = members /\ events' = Append(events, UserEvent)
      BY <2>1 DEF SendUserEvent
    <3>2. UserEvent \in AnyEvent /\ UserEvent.type = "user"
      BY DEF AnyEvent, UserEvent
    <3>3. /\ events' \in Seq(AnyEvent)
          /\ \A i \in DOMAIN events' :
               events'[i].type # "user" =>
                 /\ NotifyMerge({events'[i].member})
                 /\ events'[i].member.addr \in Home[events'[i].node]
      BY <3>1, <3>2, SentFacts
    <3>4. nodes' = nodes
      BY <1>4, GossipFacts
    <3>5. ServersOnly'
      BY <3>1, <3>3, <3>4 DEF Inv, ServersOnly
    <3>6. QED
      BY <1>1, <1>4, <2>1, <3>1, <3>3, <3>5, GossipFacts DEF auxVars
  <2>2. CASE ~ (SendUserEvent /\ auxVars' = auxVars)
    BY <1>1, <1>3, <1>4, <2>2, GossipFacts
  <2>3. QED
    BY <2>1, <2>2
<1>5. CASE HandleEvent
  <2>1. /\ events # <<>> /\ Taken \in AnyEvent /\ events' = Tail(events)
        /\ members' = members /\ auxVars' = auxVars
        /\ serfer' \in {"running", "dying", "stopped", "crashed"}
    BY <1>5, HandleFacts
  <2>2. /\ events' \in Seq(AnyEvent)
        /\ DOMAIN events' = 1..(Len(events) - 1) /\ DOMAIN events = 1..Len(events)
        /\ \A i \in 1..(Len(events) - 1) : events'[i] = events[i + 1]
        /\ Len(events) \in Nat
    BY <1>1, <2>1, TailFacts
  <2>3. ASSUME NEW i \in DOMAIN events', events'[i].type # "user"
        PROVE  /\ NotifyMerge({events'[i].member})
               /\ events'[i].member.addr \in Home[events'[i].node]
    <3>1. i + 1 \in DOMAIN events /\ events'[i] = events[i + 1]
      BY <2>2
    <3>2. QED
      BY <2>3, <3>1 DEF Inv, ServersOnly
  <2>4. /\ nodes' \in [Place -> Details \cup {NoDetails}]
        /\ \A pl \in Place : nodes'[pl] # NoDetails => nodes'[pl].cluster = Cluster
        /\ reconcile' \in 0..ReconcileLimit
    <3>1. CASE nodes' = nodes /\ reconcile' = reconcile
      BY <1>1, <3>1 DEF Inv, ServersOnly
    <3>2. CASE ~ (nodes' = nodes /\ reconcile' = reconcile)
      <4>1. /\ Taken \in Event /\ NotifyMerge({Taken.member})
            /\ nodes' = [nodes EXCEPT ![Endpoint(Taken.member)] = Effect(Taken)]
            /\ reconcile' \in 0..ReconcileLimit
        BY <1>5, <3>2, HandleFacts
      <4>2. Taken.member \in Member /\ Taken.node \in Node
        BY <4>1 DEF Event
      <4>3. /\ NodeDetails(Taken.node, Taken.member) \in Details
            /\ NodeDetails(Taken.node, Taken.member).cluster = Cluster
        BY <4>1, <4>2, ServerFacts
      <4>4. /\ Effect(Taken) \in Details \cup {NoDetails}
            /\ Effect(Taken) # NoDetails => Effect(Taken).cluster = Cluster
        BY <4>3 DEF Effect
      <4>5. QED
        BY <1>1, <4>1, <4>4 DEF Inv, ServersOnly
    <3>3. QED
      BY <3>1, <3>2
  <2>5. ServersOnly'
    BY <2>1, <2>3, <2>4 DEF Inv, ServersOnly
  <2>6. QED
    BY <1>1, <2>1, <2>2, <2>4, <2>5 DEF auxVars
<1>6. CASE Stop \/ End \/ UNCHANGED vars
  <2>1. /\ members' = members /\ events' = events /\ nodes' = nodes
        /\ reconcile' = reconcile /\ auxVars' = auxVars
        /\ serfer' \in {"running", "dying", "stopped", "crashed"}
    BY <1>1, <1>6 DEF Stop, End, vars, gossipVars, listVars
  <2>2. ServersOnly'
    BY <2>1 DEF Inv, ServersOnly
  <2>3. QED
    BY <1>1, <2>1, <2>2 DEF auxVars
<1>7. QED
  BY <1>4, <1>5, <1>6 DEF Next

THEOREM InvHolds == Spec => []Inv
  BY InitInv, NextInv, PTL DEF Spec

\* The table, the channel and the list keep their types, and the reconciler's
\* channel its capacity, for any members and tags.
THEOREM TypeCorrect == Spec => []TypeOK
<1>1. Inv => TypeOK
  BY DEF Inv
<1>2. QED
  BY InvHolds, <1>1, PTL

\* Whatever servers of other clusters gossip, and with any tags, none is ever
\* listed.
THEOREM ClustersAreApart == Spec => []ClustersStayApart
<1>1. Inv => ClustersStayApart
  BY DEF Inv, ServersOnly, ClustersStayApart, GetNodes
<1>2. QED
  BY InvHolds, <1>1, PTL

-----------------------------------------------------------------------------
(* What the list will be. *)

\* An event sent decides for the address it is about.
LEMMA AppendComes ==
  ASSUME NEW es \in Seq(AnyEvent), NEW v \in AnyEvent, NEW list, NEW pl, NEW d
  PROVE  /\ Concerns(v, pl) =>
              (Comes(Append(es, v), list, pl, d) <=> d = Effect(v))
         /\ ~ Concerns(v, pl) =>
              (Comes(Append(es, v), list, pl, d) <=> Comes(es, list, pl, d))
<1> DEFINE s == Append(es, v)
           n == Len(es)
<1>1. /\ DOMAIN s = 1..(n + 1) /\ DOMAIN es = 1..n /\ n \in Nat
      /\ \A i \in 1..n : s[i] = es[i]
      /\ s[n + 1] = v
  BY AppendFacts
<1> HIDE DEF s, n
<1>2. \A i \in 1..(n + 1) : i \in 1..n \/ i = n + 1
  BY <1>1
<1>3. n + 1 \in 1..(n + 1) /\ \A i \in 1..n : i \in 1..(n + 1) /\ n + 1 > i
  BY <1>1
<1>4. \A j \in 1..(n + 1) : ~ (j > n + 1)
  BY <1>1
<1>5. ASSUME Concerns(v, pl) PROVE Comes(s, list, pl, d) <=> d = Effect(v)
  BY <1>1, <1>2, <1>3, <1>4, <1>5 DEF Comes
<1>6. ASSUME ~ Concerns(v, pl)
      PROVE  Comes(s, list, pl, d) <=> Comes(es, list, pl, d)
  BY <1>1, <1>2, <1>3, <1>6 DEF Comes
<1>7. QED
  BY <1>5, <1>6 DEF s

\* An event handled makes of the list what was to come.
LEMMA TailComes ==
  ASSUME NEW es \in Seq(AnyEvent), es # <<>>, NEW list, NEW after, NEW pl, NEW d,
         Concerns(Head(es), pl) => after[pl] = Effect(Head(es)),
         ~ Concerns(Head(es), pl) => after[pl] = list[pl]
  PROVE  Comes(Tail(es), after, pl, d) <=> Comes(es, list, pl, d)
<1> DEFINE s == Tail(es)
           n == Len(es)
<1>1. /\ DOMAIN s = 1..(n - 1) /\ DOMAIN es = 1..n /\ n \in Nat /\ n > 0
      /\ \A i \in 1..(n - 1) : s[i] = es[i + 1]
      /\ Head(es) = es[1]
  BY TailFacts
<1> HIDE DEF s, n
<1>2. /\ 1 \in 1..n
      /\ \A i \in 1..(n - 1) : i + 1 \in 1..n /\ i + 1 > 1
      /\ \A i \in 1..n : i = 1 \/ (i - 1 \in 1..(n - 1) /\ (i - 1) + 1 = i)
  BY <1>1
<1>3. ASSUME Comes(s, after, pl, d) PROVE Comes(es, list, pl, d)
  <2>1. CASE \E i \in DOMAIN s :
               /\ Concerns(s[i], pl) /\ d = Effect(s[i])
               /\ \A j \in DOMAIN s : j > i => ~ Concerns(s[j], pl)
    <3>1. PICK i \in 1..(n - 1) :
            /\ Concerns(s[i], pl) /\ d = Effect(s[i])
            /\ \A j \in 1..(n - 1) : j > i => ~ Concerns(s[j], pl)
      BY <1>1, <2>1
    <3>2. ASSUME NEW j \in 1..n, j > i + 1 PROVE ~ Concerns(es[j], pl)
      <4>1. j - 1 \in 1..(n - 1) /\ (j - 1) + 1 = j /\ j - 1 > i
        BY <1>1, <3>2
      <4>2. QED
        BY <1>1, <3>1, <4>1
    <3>3. /\ i + 1 \in DOMAIN es
          /\ Concerns(es[i + 1], pl) /\ d = Effect(es[i + 1])
          /\ \A j \in DOMAIN es : j > i + 1 => ~ Concerns(es[j], pl)
      BY <1>1, <1>2, <3>1, <3>2
    <3>4. QED
      BY <3>3 DEF Comes
  <2>2. CASE (\A j \in DOMAIN s : ~ Concerns(s[j], pl)) /\ d = after[pl]
    <3>1. ASSUME NEW j \in 1..n, j > 1 PROVE ~ Concerns(es[j], pl)
      <4>1. j - 1 \in 1..(n - 1) /\ (j - 1) + 1 = j
        BY <1>2, <3>1
      <4>2. QED
        BY <1>1, <2>2, <4>1
    <3>2. CASE Concerns(es[1], pl)
      BY <1>1, <1>2, <2>2, <3>1, <3>2 DEF Comes
    <3>3. CASE ~ Concerns(es[1], pl)
      <4>1. \A j \in 1..n : ~ Concerns(es[j], pl)
        BY <1>2, <3>1, <3>3
      <4>2. QED
        BY <1>1, <2>2, <3>3, <4>1 DEF Comes
    <3>4. QED
      BY <3>2, <3>3
  <2>3. QED
    BY <1>3, <2>1, <2>2 DEF Comes
<1>4. ASSUME Comes(es, list, pl, d) PROVE Comes(s, after, pl, d)
  <2>1. CASE \E i \in DOMAIN es :
               /\ Concerns(es[i], pl) /\ d = Effect(es[i])
               /\ \A j \in DOMAIN es : j > i => ~ Concerns(es[j], pl)
    <3>1. PICK i \in 1..n :
            /\ Concerns(es[i], pl) /\ d = Effect(es[i])
            /\ \A j \in 1..n : j > i => ~ Concerns(es[j], pl)
      BY <1>1, <2>1
    <3>2. CASE i = 1
      <4>1. \A j \in 1..(n - 1) : ~ Concerns(s[j], pl)
        BY <1>1, <1>2, <3>1, <3>2
      <4>2. QED
        BY <1>1, <3>1, <3>2, <4>1 DEF Comes
    <3>3. CASE i # 1
      <4>1. i - 1 \in 1..(n - 1) /\ s[i - 1] = es[i]
        BY <1>1, <1>2, <3>3
      <4>2. ASSUME NEW j \in 1..(n - 1), j > i - 1 PROVE ~ Concerns(s[j], pl)
        <5>1. j + 1 \in 1..n /\ j + 1 > i
          BY <1>1, <4>2
        <5>2. QED
          BY <1>1, <3>1, <5>1
      <4>3. QED
        BY <1>1, <3>1, <4>1, <4>2 DEF Comes
    <3>4. QED
      BY <3>2, <3>3
  <2>2. CASE (\A j \in DOMAIN es : ~ Concerns(es[j], pl)) /\ d = list[pl]
    <3>1. ~ Concerns(es[1], pl) /\ \A j \in 1..(n - 1) : ~ Concerns(s[j], pl)
      BY <1>1, <1>2, <2>2
    <3>2. QED
      BY <1>1, <2>2, <3>1 DEF Comes
  <2>3. QED
    BY <1>4, <2>1, <2>2 DEF Comes
<1>5. QED
  BY <1>3, <1>4 DEF s

\* Handling an event changes nothing of what is to come.
LEMMA HandleComes ==
  ASSUME Inv, HandleEvent, NEW pl \in Place, NEW d
  PROVE  Comes(events', nodes', pl, d) <=> Comes(events, nodes, pl, d)
<1>1. /\ events \in Seq(AnyEvent) /\ nodes \in [Place -> Details \cup {NoDetails}]
      /\ events # <<>> /\ events' = Tail(events) /\ Taken = Head(events)
  BY HandleFacts DEF Inv, TypeOK, GossipTypeOK, AnyEvent, Taken
<1>2. /\ Concerns(Taken, pl) => nodes'[pl] = Effect(Taken)
      /\ ~ Concerns(Taken, pl) => nodes'[pl] = nodes[pl]
  <2>1. CASE Taken.type = "user" /\ nodes' = nodes
    BY <2>1 DEF Concerns
  <2>2. CASE /\ Taken.type # "user"
             /\ nodes' = [nodes EXCEPT ![Endpoint(Taken.member)] = Effect(Taken)]
    BY <1>1, <2>2 DEF Concerns
  <2>3. QED
    BY <2>1, <2>2, HandleFacts
<1>3. QED
  BY <1>1, <1>2, TailComes

\* What is under an address is its details or none.
LEMMA NoDetailsIsNone == NoDetails \notin Details
<1>1. ASSUME NEW d \in Details PROVE d # NoDetails
  <2>1. DOMAIN d = {"name", "cluster", "bootstrap"}
    BY DEF Details
  <2>2. DOMAIN NoDetails = {"name"}
    BY DEF NoDetails
  <2>3. QED
    BY <2>1, <2>2
<1>2. QED
  BY <1>1

LEMMA InitComes == Init => MembersCome /\ OnlyMembersCome
<1> SUFFICES ASSUME Init PROVE MembersCome /\ OnlyMembersCome
  OBVIOUS
<1>1. MembersCome
  BY DEF Init, GossipInit, MembersCome, Present, Unknown
<1>2. ASSUME NEW pl \in Place, NEW d \in Details PROVE ~ Comes(events, nodes, pl, d)
  <2>1. events = <<>> /\ nodes[pl] = NoDetails
    BY DEF Init, GossipInit
  <2>2. DOMAIN events = {}
    BY <2>1
  <2>3. QED
    BY <2>1, <2>2, NoDetailsIsNone DEF Comes
<1>3. QED
  BY <1>1, <1>2 DEF OnlyMembersCome

\* A member that is present is a server with a place.
LEMMA PresentFacts ==
  ASSUME Inv, NEW k \in Node, Present(k)
  PROVE  /\ members[k] \in Member /\ NotifyMerge({members[k]})
         /\ members[k].addr \in Home[k]
         /\ Endpoint(members[k]) \in Place
<1>1. members[k] # Unknown
  BY DEF Present, Unknown
<1>2. /\ members[k] \in Member /\ NotifyMerge({members[k]})
      /\ members[k].addr \in Home[k]
  BY <1>1 DEF Inv, ServersOnly, TypeOK, GossipTypeOK
<1>3. QED
  BY <1>2, ServerFacts

LEMMA MembersComeStep ==
  ASSUME Inv, MembersCome, [Next]_vars
  PROVE  MembersCome'
<1>1. /\ events \in Seq(AnyEvent)
      /\ members \in [Node -> Member \cup {Unknown}]
  BY DEF Inv, TypeOK, GossipTypeOK, AnyEvent
<1> SUFFICES ASSUME NEW k \in Node, Present(k)', Endpoint(members'[k]) \notin disputed'
             PROVE  Comes(events', nodes', Endpoint(members'[k]),
                          NodeDetails(k, members'[k]))
  BY DEF MembersCome
<1>2. Present(k) /\ Endpoint(members[k]) \notin disputed =>
        Comes(events, nodes, Endpoint(members[k]), NodeDetails(k, members[k]))
  BY DEF MembersCome
<1>3. ASSUME NEW n \in Node, Change(n), Dispute(n), nodes' = nodes
      PROVE  Comes(events', nodes', Endpoint(members'[k]), NodeDetails(k, members'[k]))
  <2>1. PICK m : members' = [members EXCEPT ![n] = m]
    BY <1>3, ChangeFacts
  <2>2. \A j \in Node : j # n => members'[j] = members[j] /\ (Present(j)' <=> Present(j))
    BY <1>1, <2>1 DEF Present
  <2>3. CASE Stays(n)
    <3>1. CASE k = n
      BY <1>2, <1>3, <2>3, <3>1, DisputeFacts DEF Stays
    <3>2. CASE k # n
      BY <1>2, <1>3, <2>2, <2>3, <3>2, DisputeFacts DEF Stays
    <3>3. QED
      BY <3>1, <3>2
  <2>4. CASE \E v \in Event :
               /\ events' = Append(events, v) /\ v.node = n
               /\ NotifyMerge({v.member}) /\ v.member.addr \in Home[n]
               /\ Arrives(n, v) \/ Departs(n, v)
    <3>1. PICK v \in Event :
            /\ events' = Append(events, v) /\ v.node = n
            /\ NotifyMerge({v.member})
            /\ Arrives(n, v) \/ Departs(n, v)
      BY <2>4
    <3>2. v \in AnyEvent
      BY DEF AnyEvent
    <3>3. CASE k = n
      <4>1. v.type \in {"join", "update"} /\ v.member = members'[n]
        BY <3>1, <3>3 DEF Arrives, Departs
      <4>2. /\ Concerns(v, Endpoint(members'[n]))
            /\ Effect(v) = NodeDetails(n, members'[n])
        BY <3>1, <4>1 DEF Concerns, Effect
      <4>3. QED
        BY <1>1, <1>3, <3>1, <3>2, <3>3, <4>2, AppendComes
    <3>4. CASE k # n
      <4>1. Present(k) /\ members'[k] = members[k]
        BY <2>2, <3>4
      <4>2. Endpoint(members[k]) \in Place /\ OthersAt(Endpoint(members[k]), n)
        BY <3>4, <4>1, PresentFacts DEF OthersAt
      <4>3. /\ ~ Concerns(v, Endpoint(members[k]))
            /\ Endpoint(members[k]) \notin disputed
        BY <1>3, <3>1, <4>1, <4>2, DisputeFacts
      <4>4. QED
        BY <1>1, <1>2, <1>3, <3>1, <3>2, <4>1, <4>3, AppendComes
    <3>5. QED
      BY <3>3, <3>4
  <2>5. QED
    BY <1>3, <2>3, <2>4, ChangeFacts
<1>4. CASE Gossip
  <2>1. CASE SendUserEvent /\ auxVars' = auxVars
    <3>1. members' = members /\ events' = Append(events, UserEvent) /\ nodes' = nodes
      BY <1>4, <2>1, GossipFacts DEF SendUserEvent
    <3>2. UserEvent \in AnyEvent /\ \A pl : ~ Concerns(UserEvent, pl)
      BY DEF AnyEvent, UserEvent, Concerns
    <3>3. Present(k)
      BY <3>1 DEF Present
    <3>4. disputed' = disputed
      BY <2>1 DEF auxVars
    <3>5. QED
      BY <1>1, <1>2, <3>1, <3>2, <3>3, <3>4, AppendComes
  <2>2. CASE \E n \in Node : Change(n) /\ Dispute(n)
    BY <1>3, <1>4, <2>2, GossipFacts
  <2>3. QED
    BY <1>4, <2>1, <2>2, GossipFacts
<1>5. CASE HandleEvent
  <2>1. members' = members /\ disputed' = disputed /\ Present(k)
    BY <1>5, HandleFacts DEF Present, auxVars
  <2>2. QED
    BY <1>2, <1>5, <2>1, HandleComes, PresentFacts
<1>6. CASE Stop \/ End \/ UNCHANGED vars
  <2>1. /\ members' = members /\ events' = events /\ nodes' = nodes
        /\ disputed' = disputed
    BY <1>6 DEF Stop, End, vars, gossipVars, listVars, auxVars
  <2>2. QED
    BY <1>2, <2>1 DEF Present
<1>7. QED
  BY <1>4, <1>5, <1>6 DEF Next

LEMMA OnlyMembersComeStep ==
  ASSUME Inv, OnlyMembersCome, [Next]_vars
  PROVE  OnlyMembersCome'
<1>1. /\ events \in Seq(AnyEvent)
      /\ members \in [Node -> Member \cup {Unknown}]
  BY DEF Inv, TypeOK, GossipTypeOK, AnyEvent
<1> SUFFICES ASSUME NEW pl \in Place, pl \notin abandoned', NEW d \in Details,
                    Comes(events', nodes', pl, d)
             PROVE  \E k \in Node : /\ Present(k)' /\ Endpoint(members'[k]) = pl
                                    /\ d = NodeDetails(k, members'[k])
  BY DEF OnlyMembersCome
<1>2. pl \notin abandoned /\ Comes(events, nodes, pl, d) =>
        \E k \in Node : /\ Present(k) /\ Endpoint(members[k]) = pl
                        /\ d = NodeDetails(k, members[k])
  BY DEF OnlyMembersCome
<1>3. ASSUME NEW n \in Node, Change(n), nodes' = nodes, Abandon(n)
      PROVE  \E k \in Node : /\ Present(k)' /\ Endpoint(members'[k]) = pl
                             /\ d = NodeDetails(k, members'[k])
  <2>1. PICK m : members' = [members EXCEPT ![n] = m]
    BY <1>3, ChangeFacts
  <2>2. \A k \in Node : k # n => members'[k] = members[k] /\ (Present(k)' <=> Present(k))
    BY <1>1, <2>1 DEF Present
  <2>3. pl \notin abandoned
    BY <1>3 DEF Abandon
  <2>4. CASE Stays(n)
    <3>1. Comes(events, nodes, pl, d)
      BY <1>3, <2>4 DEF Stays
    <3>2. PICK k \in Node : /\ Present(k) /\ Endpoint(members[k]) = pl
                            /\ d = NodeDetails(k, members[k])
      BY <1>2, <2>3, <3>1
    <3>3. CASE k = n
      BY <2>4, <3>2, <3>3 DEF Stays
    <3>4. CASE k # n
      BY <2>2, <3>2, <3>4
    <3>5. QED
      BY <3>3, <3>4
  <2>5. CASE \E v \in Event :
               /\ events' = Append(events, v) /\ v.node = n
               /\ Arrives(n, v) \/ Departs(n, v)
    <3>1. PICK v \in Event :
            /\ events' = Append(events, v) /\ v.node = n
            /\ Arrives(n, v) \/ Departs(n, v)
      BY <2>5
    <3>2. v \in AnyEvent
      BY DEF AnyEvent
    <3>3. CASE Concerns(v, pl)
      <4>1. d = Effect(v)
        BY <1>1, <1>3, <3>1, <3>2, <3>3, AppendComes
      <4>2. v.type \in {"join", "update"} /\ d = NodeDetails(n, v.member)
        BY <3>1, <4>1, NoDetailsIsNone DEF Effect
      <4>3. v.member = members'[n] /\ Present(n)'
        BY <3>1, <4>2 DEF Arrives, Departs
      <4>4. Endpoint(members'[n]) = pl
        BY <3>3, <4>3 DEF Concerns
      <4>5. QED
        BY <4>2, <4>3, <4>4
    <3>4. CASE ~ Concerns(v, pl)
      <4>1. Comes(events, nodes, pl, d)
        BY <1>1, <1>3, <3>1, <3>2, <3>4, AppendComes
      <4>2. PICK k \in Node : /\ Present(k) /\ Endpoint(members[k]) = pl
                              /\ d = NodeDetails(k, members[k])
        BY <1>2, <2>3, <4>1
      <4>3. k # n
        <5>1. SUFFICES ASSUME k = n PROVE FALSE
          OBVIOUS
        <5>2. v.type # "user" /\ Endpoint(v.member) # pl
          BY <3>1, <3>4 DEF Concerns, Arrives, Departs
        <5>3. Endpoint(members'[n]) = pl
          BY <1>3, <4>2, <5>1 DEF Abandon
        <5>4. CASE Arrives(n, v)
          BY <5>2, <5>3, <5>4 DEF Arrives
        <5>5. CASE Departs(n, v)
          BY <4>2, <5>1, <5>2, <5>5 DEF Departs
        <5>6. QED
          BY <3>1, <5>4, <5>5
      <4>4. QED
        BY <2>2, <4>2, <4>3
    <3>5. QED
      BY <3>3, <3>4
  <2>6. QED
    BY <1>3, <2>4, <2>5, ChangeFacts
<1>4. CASE Gossip
  <2>1. CASE SendUserEvent /\ auxVars' = auxVars
    <3>1. members' = members /\ events' = Append(events, UserEvent) /\ nodes' = nodes
      BY <1>4, <2>1, GossipFacts DEF SendUserEvent
    <3>2. UserEvent \in AnyEvent /\ ~ Concerns(UserEvent, pl)
      BY DEF AnyEvent, UserEvent, Concerns
    <3>3. Comes(events, nodes, pl, d)
      BY <1>1, <3>1, <3>2, AppendComes
    <3>4. QED
      BY <1>2, <2>1, <3>1, <3>3 DEF Present, auxVars
  <2>2. CASE ~ (SendUserEvent /\ auxVars' = auxVars)
    BY <1>3, <1>4, <2>2, GossipFacts
  <2>3. QED
    BY <2>1, <2>2
<1>5. CASE HandleEvent
  <2>1. members' = members /\ auxVars' = auxVars
    BY <1>5, HandleFacts
  <2>2. Comes(events, nodes, pl, d)
    BY <1>5, HandleComes
  <2>3. QED
    BY <1>2, <2>1, <2>2 DEF Present, auxVars
<1>6. CASE Stop \/ End \/ UNCHANGED vars
  <2>1. /\ members' = members /\ events' = events /\ nodes' = nodes
        /\ abandoned' = abandoned
    BY <1>6 DEF Stop, End, vars, gossipVars, listVars, auxVars
  <2>2. QED
    BY <1>2, <2>1 DEF Present
<1>7. QED
  BY <1>4, <1>5, <1>6 DEF Next

\* With no event left, what is to come is there.
LEMMA SettledComes ==
  ASSUME events = <<>>, NEW pl, NEW d
  PROVE  Comes(events, nodes, pl, d) <=> d = nodes[pl]
<1>1. DOMAIN events = {}
  OBVIOUS
<1>2. QED
  BY <1>1 DEF Comes

\* Once the events are handled every member that is present is in the list,
\* with the details of its latest tags, whoever had its address before and
\* wherever members may come up, but where serf's last word about an address was
\* of one member while another one was there.
THEOREM MembersGetListed == Spec => []MembersAreListed
<1>1. Init => MembersCome
  BY InitComes
<1>2. Inv /\ MembersCome /\ [Next]_vars => MembersCome'
  BY MembersComeStep
<1>3. MembersCome => MembersAreListed
  <2> SUFFICES ASSUME MembersCome, Settled, NEW n \in Node, Present(n),
                      Endpoint(members[n]) \notin disputed
               PROVE  nodes[Endpoint(members[n])] = NodeDetails(n, members[n])
    BY DEF MembersAreListed
  <2>1. Comes(events, nodes, Endpoint(members[n]), NodeDetails(n, members[n]))
    BY DEF MembersCome
  <2>2. QED
    BY <2>1, SettledComes DEF Settled
<1>4. QED
  BY InvHolds, <1>1, <1>2, <1>3, PTL DEF Spec

\* And nobody else is, whoever shares an address, but under addresses that a
\* member left for another one.
THEOREM ListIsOfMembers == Spec => []ListedAreMembers
<1>1. Init => OnlyMembersCome
  BY InitComes
<1>2. Inv /\ OnlyMembersCome /\ [Next]_vars => OnlyMembersCome'
  BY OnlyMembersComeStep
<1>3. Inv /\ OnlyMembersCome => ListedAreMembers
  <2> SUFFICES ASSUME Inv, OnlyMembersCome, Settled, NEW pl \in Place \ abandoned,
                      nodes[pl] # NoDetails
               PROVE  \E n \in Node : /\ Present(n) /\ Endpoint(members[n]) = pl
                                      /\ nodes[pl] = NodeDetails(n, members[n])
    BY DEF ListedAreMembers
  <2>1. nodes[pl] \in Details
    BY DEF Inv, TypeOK
  <2>2. Comes(events, nodes, pl, nodes[pl])
    BY SettledComes DEF Settled
  <2>3. QED
    BY <2>1, <2>2 DEF OnlyMembersCome
<1>4. QED
  BY InvHolds, <1>1, <1>2, <1>3, PTL DEF Spec
=============================================================================
