------------------------------ MODULE SerfProofs ------------------------------
(***************************************************************************)
(* What serf's tables say of a member for any observers, times, lives and  *)
(* buffers.  The handlers are operators on one node's view, so each has a  *)
(* lemma of its own: it keeps a sound view sound and does not go back in   *)
(* time.  Then how late a time can be, and what of all this is a step of   *)
(* Gossip, in which serf is no more than a table and a queue of events.    *)
(***************************************************************************)
EXTENDS Serf, WellFoundedInduction, TLAPS

Ring == [slots : [1..RecentLimit -> Nat], next : 1..RecentLimit]
View ==
  [clock : Nat, joins : Ring, leaves : Ring,
   status : {"none", "alive", "leaving", "failed", "left"},
   time : Nat, life : Nat, failed : Nat, left : Nat]

\* The clock is ahead of all the view knows.
Ahead(v) ==
  /\ v.time < v.clock
  /\ \A k \in 1..RecentLimit :
       v.joins.slots[k] < v.clock /\ v.leaves.slots[k] < v.clock

\* The lists tell the status.
Listed(v) ==
  /\ v.failed = IF v.status = "failed" THEN 1 ELSE 0
  /\ v.left = IF v.status = "left" THEN 1 ELSE 0

Sound(v) == v \in View /\ Ahead(v) /\ Listed(v)

TimesAreNatural ==
  /\ lives \in Nat /\ refuting \subseteq Nat
  /\ \A m \in intents : m.time \in Nat

Inv ==
  /\ view \in [Node -> View]
  /\ \A i \in Node : Sound(view[i])
  /\ TimesAreNatural
  /\ OnlyLeaveLeaves

USE SerfAssumption

\* No step takes a member that stays known back in time.
NoStepBack ==
  \A i \in Observer :
    view[i].status # "none" /\ view'[i].status # "none"
      => view'[i].time >= view[i].time

-----------------------------------------------------------------------------
(* Maxima. *)

\* A set of numbers that is not empty has a least one.
LEMMA LeastElement ==
  ASSUME NEW T, T \subseteq Nat, T # {}
  PROVE  \E x \in T : \A y \in T : x <= y
<1> DEFINE R == OpToRel(<, Nat)
<1>1. IsWellFoundedOn(R, Nat)
  BY NatLessThanWellFounded
<1>2. \A x, y \in Nat : <<y, x>> \in R <=> y < x
  BY DEF OpToRel
<1> HIDE DEF R
<1>3. PICK x \in T : \A y \in T : ~ (<<y, x>> \in R)
  BY <1>1, WFMin
<1>4. SUFFICES ASSUME NEW y \in T PROVE x <= y
  OBVIOUS
<1>5. x \in Nat /\ y \in Nat
  OBVIOUS
<1>6. ~ (y < x)
  BY <1>2, <1>3, <1>5, Zenon
<1>7. QED
  BY <1>5, <1>6

\* A set of numbers below a bound has a greatest one, which Max takes.
LEMMA MaxOfBounded ==
  ASSUME NEW S, S \subseteq Nat, S # {}, NEW b \in Nat, \A x \in S : x < b
  PROVE  Max(S) \in S
<1> DEFINE T == {n \in Nat : \A x \in S : x <= n}
<1>1. b \in T
  OBVIOUS
<1>2. PICK n \in T : \A m \in T : n <= m
  <2>1. T \subseteq Nat /\ T # {}
    BY <1>1
  <2> HIDE DEF T
  <2>2. QED
    BY <2>1, LeastElement
<1>3. n \in S
  <2>1. SUFFICES ASSUME n \notin S PROVE FALSE
    OBVIOUS
  <2>2. \A x \in S : x < n
    BY <2>1
  <2>3. n - 1 \in T
    <3>1. PICK x \in S : TRUE
      OBVIOUS
    <3>2. QED
      BY <2>2, <3>1
  <2>4. QED
    BY <1>2, <2>3
<1>4. \A y \in S : n >= y
  OBVIOUS
<1>5. QED
  BY <1>3, <1>4 DEF Max

\* What recentIntent finds is one of the times in the buffer, or zero.
LEMMA RecentIntentInPast ==
  ASSUME NEW ring \in Ring, NEW c \in Nat, c > 0,
         \A k \in 1..RecentLimit : ring.slots[k] < c
  PROVE  RecentIntent(ring) \in Nat /\ RecentIntent(ring) < c
<1> DEFINE S == {0} \cup {ring.slots[k] : k \in
                   {j \in 1..RecentLimit : \A i \in 1..j : ring.slots[i] # 0}}
<1>1. S \subseteq Nat /\ S # {} /\ \A x \in S : x < c
  BY DEF Ring
<1>2. RecentIntent(ring) = Max(S)
  BY DEF RecentIntent
<1> HIDE DEF S
<1>3. Max(S) \in S
  BY <1>1, MaxOfBounded
<1>4. QED
  BY <1>1, <1>2, <1>3

-----------------------------------------------------------------------------
(* The handlers on a view. *)

LEMMA NewViewSound ==
  ASSUME NEW c \in Nat, c > 0
  PROVE  Sound(NewView(c))
  BY DEF Sound, View, Ring, Ahead, Listed, NewView, NoIntents

LEMMA WitnessSound ==
  ASSUME NEW v, Sound(v), NEW t \in Nat
  PROVE  /\ Sound(Witness(v, t))
         /\ Witness(v, t).clock > t
         /\ Witness(v, t).status = v.status /\ Witness(v, t).time = v.time
<1>1. CASE t < v.clock
  BY <1>1 DEF Witness
<1>2. CASE ~ (t < v.clock)
  <2>1. Witness(v, t) = [v EXCEPT !.clock = t + 1]
    BY <1>2 DEF Witness
  <2>2. [v EXCEPT !.clock = t + 1] \in View
    BY DEF Sound, View
  <2>3. Ahead([v EXCEPT !.clock = t + 1])
    <3>1. \A k \in 1..RecentLimit :
            v.joins.slots[k] \in Nat /\ v.leaves.slots[k] \in Nat
      BY DEF Sound, View, Ring
    <3>2. v.clock \in Nat /\ v.time \in Nat /\ Ahead(v)
      BY DEF Sound, View
    <3> DEFINE u == [v EXCEPT !.clock = t + 1]
    <3>3. /\ u.clock = t + 1 /\ u.time = v.time
          /\ u.joins = v.joins /\ u.leaves = v.leaves
      BY DEF Sound, View
    <3> HIDE DEF u
    <3>4. Ahead(u)
      BY <1>2, <3>1, <3>2, <3>3 DEF Ahead
    <3>5. QED
      BY <3>4 DEF u
  <2>4. Listed([v EXCEPT !.clock = t + 1])
    BY DEF Sound, View, Listed
  <2>5. QED
    BY <2>1, <2>2, <2>3, <2>4 DEF Sound, View
<1>3. QED
  BY <1>1, <1>2

LEMMA BufferSound ==
  ASSUME NEW ring \in Ring, NEW c \in Nat, NEW t \in Nat, t < c,
         \A k \in 1..RecentLimit : ring.slots[k] < c
  PROVE  /\ Buffer(ring, t) \in Ring
         /\ \A k \in 1..RecentLimit : Buffer(ring, t).slots[k] < c
<1> DEFINE next == (ring.next % RecentLimit) + 1
<1>1. next \in 1..RecentLimit
  <2>1. ring.next \in Nat /\ ring.next % RecentLimit \in 0..(RecentLimit - 1)
    BY DEF Ring
  <2>2. QED
    BY <2>1
<1> HIDE DEF next
<1>2. Buffer(ring, t) =
        IF RecentIntent(ring) # 0 THEN ring
          ELSE [slots |-> [ring.slots EXCEPT ![ring.next] = t], next |-> next]
  BY DEF Buffer, next
<1>3. CASE RecentIntent(ring) # 0
  BY <1>2, <1>3
<1>4. CASE RecentIntent(ring) = 0
  <2>1. Buffer(ring, t) =
          [slots |-> [ring.slots EXCEPT ![ring.next] = t], next |-> next]
    BY <1>2, <1>4
  <2>2. [ring.slots EXCEPT ![ring.next] = t] \in [1..RecentLimit -> Nat]
    BY DEF Ring
  <2>3. \A k \in 1..RecentLimit : [ring.slots EXCEPT ![ring.next] = t][k] < c
    BY DEF Ring
  <2>4. QED
    BY <1>1, <2>1, <2>2, <2>3 DEF Ring
<1>5. QED
  BY <1>3, <1>4

LEMMA AfterLeaveIntentSound ==
  ASSUME NEW v, Sound(v), NEW t \in Nat
  PROVE  /\ Sound(AfterLeaveIntent(v, t))
         /\ AfterLeaveIntent(v, t).time >= v.time
         /\ v.status = "alive" /\ ~ (t > v.time)
              => AfterLeaveIntent(v, t).status = "alive"
<1> DEFINE w == Witness(v, t)
<1>1. Sound(w) /\ w.clock > t /\ w.status = v.status /\ w.time = v.time
  BY WitnessSound
<1>2. AfterLeaveIntent(v, t) =
        CASE w.status = "none" -> [w EXCEPT !.leaves = Buffer(@, t)]
          [] w.status = "alive" /\ t > w.time ->
               [w EXCEPT !.status = "leaving", !.time = t]
          [] w.status = "failed" /\ t > w.time ->
               [w EXCEPT !.status = "left", !.time = t, !.failed = 0,
                         !.left = @ + 1]
          [] OTHER -> w
  BY DEF AfterLeaveIntent
<1> HIDE DEF w
<1>3. CASE w.status = "none"
  <2>1. w.leaves \in Ring /\ w.clock \in Nat
    BY <1>1 DEF Sound, View
  <2>2. /\ Buffer(w.leaves, t) \in Ring
        /\ \A k \in 1..RecentLimit : Buffer(w.leaves, t).slots[k] < w.clock
    BY <1>1, <2>1, BufferSound DEF Sound, Ahead
  <2>3. AfterLeaveIntent(v, t) = [w EXCEPT !.leaves = Buffer(w.leaves, t)]
    BY <1>2, <1>3
  <2>4. QED
    BY <1>1, <1>3, <2>2, <2>3 DEF Sound, View, Ahead, Listed
<1>4. CASE w.status = "alive" /\ t > w.time
  <2> DEFINE u == [w EXCEPT !.status = "leaving", !.time = t]
  <2>1. AfterLeaveIntent(v, t) = u
    BY <1>2, <1>4
  <2>2. u \in View
    BY <1>1, <1>4 DEF Sound, View
  <2>3. Ahead(u)
    BY <1>1, <1>4 DEF Sound, View, Ahead
  <2>4. Listed(u)
    BY <1>1, <1>4 DEF Sound, View, Listed
  <2>5. u.time >= v.time
    BY <1>1, <1>4 DEF Sound, View
  <2>6. ~ (v.status = "alive" /\ ~ (t > v.time))
    BY <1>1, <1>4
  <2>7. QED
    BY <2>1, <2>2, <2>3, <2>4, <2>5, <2>6 DEF Sound
<1>5. CASE w.status = "failed" /\ t > w.time
  <2> DEFINE u == [w EXCEPT !.status = "left", !.time = t, !.failed = 0,
                            !.left = @ + 1]
  <2>1. AfterLeaveIntent(v, t) = u
    BY <1>2, <1>5
  <2>2. u \in View
    <3>1. w \in View /\ w.left + 1 \in Nat
      BY <1>1 DEF Sound, View
    <3>2. QED
      BY <3>1 DEF View
  <2>3. Ahead(u)
    BY <1>1, <1>5 DEF Sound, View, Ahead
  <2>4. Listed(u)
    <3>1. w.left = 0
      BY <1>1, <1>5 DEF Sound, Listed
    <3>2. u.status = "left" /\ u.failed = 0 /\ u.left = 1
      BY <1>1, <3>1 DEF Sound, View
    <3>3. QED
      BY <3>2 DEF Listed
  <2>5. u.time >= v.time
    BY <1>1, <1>5 DEF Sound, View
  <2>6. ~ (v.status = "alive" /\ ~ (t > v.time))
    BY <1>1, <1>5
  <2>7. QED
    BY <2>1, <2>2, <2>3, <2>4, <2>5, <2>6 DEF Sound
<1>6. CASE /\ w.status # "none"
           /\ ~ (w.status = "alive" /\ t > w.time)
           /\ ~ (w.status = "failed" /\ t > w.time)
  <2>1. AfterLeaveIntent(v, t) = w
    BY <1>2, <1>6
  <2>2. QED
    BY <1>1, <2>1 DEF Sound, View
<1>7. QED
  BY <1>1, <1>3, <1>4, <1>5, <1>6

LEMMA AfterJoinIntentSound ==
  ASSUME NEW v, Sound(v), NEW t \in Nat
  PROVE  /\ Sound(AfterJoinIntent(v, t))
         /\ AfterJoinIntent(v, t).time >= v.time
         /\ v.status = "alive" => AfterJoinIntent(v, t).status = "alive"
<1> DEFINE w == Witness(v, t)
<1>1. Sound(w) /\ w.clock > t /\ w.status = v.status /\ w.time = v.time
  BY WitnessSound
<1>2. AfterJoinIntent(v, t) =
        CASE w.status = "none" -> [w EXCEPT !.joins = Buffer(@, t)]
          [] w.status # "none" /\ t > w.time ->
               [w EXCEPT !.time = t,
                         !.status = IF @ = "leaving" THEN "alive" ELSE @]
          [] OTHER -> w
  BY DEF AfterJoinIntent
<1> HIDE DEF w
<1>3. CASE w.status = "none"
  <2>1. w.joins \in Ring /\ w.clock \in Nat
    BY <1>1 DEF Sound, View
  <2>2. /\ Buffer(w.joins, t) \in Ring
        /\ \A k \in 1..RecentLimit : Buffer(w.joins, t).slots[k] < w.clock
    BY <1>1, <2>1, BufferSound DEF Sound, Ahead
  <2>3. AfterJoinIntent(v, t) = [w EXCEPT !.joins = Buffer(w.joins, t)]
    BY <1>2, <1>3
  <2>4. QED
    BY <1>1, <1>3, <2>2, <2>3 DEF Sound, View, Ahead, Listed
<1>4. CASE w.status # "none" /\ t > w.time
  <2> DEFINE u == [w EXCEPT !.time = t,
                            !.status = IF @ = "leaving" THEN "alive" ELSE @]
  <2>1. AfterJoinIntent(v, t) = u
    BY <1>2, <1>4
  <2>2. u \in View
    BY <1>1, <1>4 DEF Sound, View
  <2>3. Ahead(u)
    BY <1>1, <1>4 DEF Sound, View, Ahead
  <2>4. Listed(u)
    BY <1>1, <1>4 DEF Sound, View, Listed
  <2>5. u.time >= v.time
    BY <1>1, <1>4 DEF Sound, View
  <2>6. v.status = "alive" => u.status = "alive"
    BY <1>1 DEF Sound, View
  <2>7. QED
    BY <2>1, <2>2, <2>3, <2>4, <2>5, <2>6 DEF Sound
<1>5. CASE w.status # "none" /\ ~ (t > w.time)
  <2>1. AfterJoinIntent(v, t) = w
    BY <1>2, <1>5
  <2>2. QED
    BY <1>1, <2>1 DEF Sound, View
<1>6. QED
  BY <1>3, <1>4, <1>5

LEMMA AfterNodeJoinSound ==
  ASSUME NEW v, Sound(v), NEW life \in Nat
  PROVE  /\ Sound(AfterNodeJoin(v, life))
         /\ v.status # "none" => AfterNodeJoin(v, life).time = v.time
<1> DEFINE join == RecentIntent(v.joins)
           leave == RecentIntent(v.leaves)
<1>1. v.clock \in Nat /\ v.clock > 0 /\ v.joins \in Ring /\ v.leaves \in Ring
  BY DEF Sound, View, Ahead
<1>2. join \in Nat /\ join < v.clock /\ leave \in Nat /\ leave < v.clock
  BY <1>1, RecentIntentInPast DEF Sound, Ahead
<1>3. AfterNodeJoin(v, life) =
        IF v.status # "none"
          THEN [v EXCEPT !.status = "alive", !.life = life, !.failed = 0,
                         !.left = 0]
        ELSE IF leave > join
          THEN [v EXCEPT !.status = "leaving", !.time = leave, !.life = life]
          ELSE [v EXCEPT !.status = "alive", !.time = join, !.life = life]
  BY DEF AfterNodeJoin
<1> HIDE DEF join, leave
<1>4. CASE v.status # "none"
  <2>1. AfterNodeJoin(v, life) = [v EXCEPT !.status = "alive", !.life = life,
                                           !.failed = 0, !.left = 0]
    BY <1>3, <1>4
  <2>2. QED
    BY <2>1 DEF Sound, View, Ahead, Listed
<1>5. CASE v.status = "none" /\ leave > join
  <2>1. AfterNodeJoin(v, life) =
          [v EXCEPT !.status = "leaving", !.time = leave, !.life = life]
    BY <1>3, <1>5
  <2>2. QED
    BY <1>2, <1>5, <2>1 DEF Sound, View, Ahead, Listed
<1>6. CASE v.status = "none" /\ ~ (leave > join)
  <2>1. AfterNodeJoin(v, life) =
          [v EXCEPT !.status = "alive", !.time = join, !.life = life]
    BY <1>3, <1>6
  <2>2. QED
    BY <1>2, <1>6, <2>1 DEF Sound, View, Ahead, Listed
<1>7. QED
  BY <1>4, <1>5, <1>6

\* A node whose buffers are empty finds no intent to leave.
LEMMA NewNodeIsAlive ==
  ASSUME NEW c \in Nat, c > 0, NEW life
  PROVE  AfterNodeJoin(NewView(c), life).status = "alive"
<1> DEFINE v == NewView(c)
<1>1. v.status = "none" /\ v.joins = NoIntents /\ v.leaves = NoIntents
  BY DEF NewView
<1>2. NoIntents \in Ring /\ \A k \in 1..RecentLimit : NoIntents.slots[k] < c
  BY DEF NoIntents, Ring
<1>3. RecentIntent(NoIntents) \in Nat
  BY <1>2, RecentIntentInPast
<1> DEFINE r == RecentIntent(NoIntents)
<1>4. AfterNodeJoin(v, life) =
        IF r > r THEN [v EXCEPT !.status = "leaving", !.time = r, !.life = life]
                 ELSE [v EXCEPT !.status = "alive", !.time = r, !.life = life]
  BY <1>1 DEF AfterNodeJoin
<1>5. ~ (r > r)
  BY <1>3
<1>6. [v EXCEPT !.status = "alive", !.time = r, !.life = life].status = "alive"
  BY DEF NewView
<1>7. QED
  BY <1>4, <1>5, <1>6

LEMMA AfterNodeLeaveSound ==
  ASSUME NEW v, Sound(v), Present(v)
  PROVE  Sound(AfterNodeLeave(v)) /\ AfterNodeLeave(v).time = v.time
<1>1. v.failed = 0 /\ v.left = 0
  BY DEF Sound, Listed, Present
<1>2. CASE v.status = "leaving"
  <2> DEFINE u == [v EXCEPT !.status = "left", !.left = @ + 1]
  <2>1. AfterNodeLeave(v) = u
    BY <1>2 DEF AfterNodeLeave
  <2>2. u \in View /\ u.time = v.time
    <3>1. v \in View /\ v.left + 1 \in Nat
      BY DEF Sound, View
    <3>2. QED
      BY <3>1 DEF View
  <2>3. Ahead(u)
    BY DEF Sound, View, Ahead
  <2>4. u.status = "left" /\ u.failed = 0 /\ u.left = 1
    BY <1>1 DEF Sound, View
  <2>5. Listed(u)
    BY <2>4 DEF Listed
  <2>6. QED
    BY <2>1, <2>2, <2>3, <2>5 DEF Sound
<1>3. CASE v.status # "leaving"
  <2> DEFINE u == [v EXCEPT !.status = "failed", !.failed = @ + 1]
  <2>1. AfterNodeLeave(v) = u
    BY <1>3 DEF AfterNodeLeave
  <2>2. u \in View /\ u.time = v.time
    <3>1. v \in View /\ v.failed + 1 \in Nat
      BY DEF Sound, View
    <3>2. QED
      BY <3>1 DEF View
  <2>3. Ahead(u)
    BY DEF Sound, View, Ahead
  <2>4. u.status = "failed" /\ u.failed = 1 /\ u.left = 0
    BY <1>1 DEF Sound, View
  <2>5. Listed(u)
    BY <2>4 DEF Listed
  <2>6. QED
    BY <2>1, <2>2, <2>3, <2>5 DEF Sound
<1>4. QED
  BY <1>2, <1>3

\* The clock may be incremented at any time.
LEMMA TickSound ==
  ASSUME NEW v, Sound(v)
  PROVE  LET w == [v EXCEPT !.clock = @ + 1] IN
         Sound(w) /\ w.status = v.status /\ w.time = v.time
<1> DEFINE w == [v EXCEPT !.clock = @ + 1]
<1>1. w \in View
  <2>1. v \in View /\ v.clock + 1 \in Nat
    BY DEF Sound, View
  <2>2. QED
    BY <2>1 DEF View
<1>2. Ahead(w)
  <2>1. v.time \in Nat /\ v.clock \in Nat /\ Ahead(v)
        /\ \A k \in 1..RecentLimit :
             v.joins.slots[k] \in Nat /\ v.leaves.slots[k] \in Nat
    BY DEF Sound, View, Ring
  <2>2. w.time = v.time /\ w.clock = v.clock + 1 /\ w.joins = v.joins /\ w.leaves = v.leaves
    BY DEF Sound, View
  <2> HIDE DEF w
  <2>3. QED
    BY <2>1, <2>2 DEF Ahead
<1>3. Listed(w) /\ w.status = v.status /\ w.time = v.time
  BY DEF Sound, View, Listed
<1>4. QED
  BY <1>1, <1>2, <1>3 DEF Sound

\* A member that is on a list is forgotten.
LEMMA ForgottenSound ==
  ASSUME NEW v, Sound(v)
  PROVE  /\ v.failed > 0 =>
              Sound([v EXCEPT !.status = "none", !.time = 0, !.life = 0,
                              !.failed = @ - 1])
         /\ v.left > 0 =>
              Sound([v EXCEPT !.status = "none", !.time = 0, !.life = 0,
                              !.left = @ - 1])
<1>1. ASSUME v.failed > 0
      PROVE  Sound([v EXCEPT !.status = "none", !.time = 0, !.life = 0,
                             !.failed = @ - 1])
  <2> DEFINE u == [v EXCEPT !.status = "none", !.time = 0, !.life = 0,
                            !.failed = @ - 1]
  <2>1. v \in View /\ v.failed = 1 /\ v.left = 0
    BY <1>1 DEF Sound, Listed
  <2>2. v.failed - 1 = 0
    BY <2>1
  <2>3. u \in View
    BY <2>1, <2>2 DEF View
  <2>4. Ahead(u)
    BY DEF Sound, View, Ahead
  <2>5. u.status = "none" /\ u.failed = 0 /\ u.left = 0
    BY <2>1, <2>2 DEF View
  <2>6. QED
    BY <2>3, <2>4, <2>5 DEF Sound, Listed
<1>2. ASSUME v.left > 0
      PROVE  Sound([v EXCEPT !.status = "none", !.time = 0, !.life = 0,
                             !.left = @ - 1])
  <2> DEFINE u == [v EXCEPT !.status = "none", !.time = 0, !.life = 0,
                            !.left = @ - 1]
  <2>1. v \in View /\ v.left = 1 /\ v.failed = 0
    BY <1>2 DEF Sound, Listed
  <2>2. v.left - 1 = 0
    BY <2>1
  <2>3. u \in View
    BY <2>1, <2>2 DEF View
  <2>4. Ahead(u)
    BY DEF Sound, View, Ahead
  <2>5. u.status = "none" /\ u.failed = 0 /\ u.left = 0
    BY <2>1, <2>2 DEF View
  <2>6. QED
    BY <2>3, <2>4, <2>5 DEF Sound, Listed
<1>3. QED
  BY <1>1, <1>2

-----------------------------------------------------------------------------
(* The steps. *)

\* Each of them but TakeEvent changes one node's view.
LEMMA OneViewChanges ==
  ASSUME Inv, TimesAreNatural', NEW i \in Node, NEW u, Sound(u),
         view' = [view EXCEPT ![i] = u],
         state' = "alive" => IF i = Subject THEN u.status = "alive"
                                            ELSE state = "alive",
         i \in Observer /\ view[i].status # "none" /\ u.status # "none"
           => u.time >= view[i].time
  PROVE  Inv' /\ NoStepBack
<1>1. view' \in [Node -> View] /\ \A j \in Node : Sound(view'[j])
  BY DEF Inv, Sound
<1>2. OnlyLeaveLeaves'
  BY DEF Inv, OnlyLeaveLeaves, Node
<1>3. NoStepBack
  <2>1. SUFFICES ASSUME NEW j \in Observer, view[j].status # "none",
                        view'[j].status # "none"
                 PROVE  view'[j].time >= view[j].time
    BY DEF NoStepBack
  <2>2. j \in Node /\ view[j].time \in Nat
    BY DEF Inv, View, Node
  <2>3. CASE j = i
    BY <2>1, <2>2, <2>3 DEF Inv
  <2>4. CASE j # i
    <3>1. view'[j] = view[j]
      BY <2>2, <2>4 DEF Inv
    <3>2. QED
      BY <2>2, <3>1
  <2>5. QED
    BY <2>3, <2>4
<1>4. QED
  BY <1>1, <1>2, <1>3 DEF Inv, Sound

\* Whatever leave a node hears, with the view v that agrees with its own on the
\* member.
LEMMA HearLeaveKeeps ==
  ASSUME Inv, NEW i \in Node, NEW v, Sound(v), v.status = view[i].status,
         v.time = view[i].time, NEW t \in Nat, HearLeave(i, v, t),
         UNCHANGED <<lives, state>>, \A m \in intents' : m.time \in Nat
  PROVE  Inv' /\ NoStepBack
<1>1. CASE Refutes(i, v, t)
  <2> DEFINE w == Witness(v, t)
  <2>1. Sound(w) /\ w.status = v.status /\ w.time = v.time
    BY WitnessSound
  <2>2. view' = [view EXCEPT ![i] = w] /\ refuting' = refuting \cup {w.clock}
    BY <1>1 DEF HearLeave
  <2>3. TimesAreNatural'
    BY <2>1, <2>2 DEF Inv, TimesAreNatural, Sound, View
  <2>4. w.time >= view[i].time
    BY <2>1 DEF Sound, View
  <2>5. state = "alive" /\ i = Subject => w.status = "alive"
    BY <2>1 DEF Inv, OnlyLeaveLeaves
  <2> HIDE DEF w
  <2>6. QED
    BY <2>1, <2>2, <2>3, <2>4, <2>5, OneViewChanges
<1>2. CASE ~ Refutes(i, v, t)
  <2> DEFINE w == AfterLeaveIntent(v, t)
  <2>1. /\ Sound(w) /\ w.time >= v.time
        /\ v.status = "alive" /\ ~ (t > v.time) => w.status = "alive"
    BY AfterLeaveIntentSound
  <2>2. view' = [view EXCEPT ![i] = w] /\ refuting' = refuting
    BY <1>2 DEF HearLeave
  <2>3. TimesAreNatural'
    BY <2>2 DEF Inv, TimesAreNatural
  <2>4. state = "alive" /\ i = Subject => w.status = "alive"
    <3>1. state = "alive" /\ i = Subject
            => v.status = "alive" /\ ~ (t > v.time)
      BY <1>2 DEF Inv, OnlyLeaveLeaves, Refutes
    <3>2. QED
      BY <2>1, <3>1
  <2> HIDE DEF w
  <2>5. QED
    BY <2>1, <2>2, <2>3, <2>4, OneViewChanges
<1>3. QED
  BY <1>1, <1>2

LEMMA HearJoinKeeps ==
  ASSUME Inv, NEW i \in Node, NEW v, Sound(v), v.status = view[i].status,
         v.time = view[i].time, NEW t \in Nat, HearJoin(i, v, t),
         UNCHANGED <<lives, state, intents>>
  PROVE  Inv' /\ NoStepBack
<1> DEFINE w == AfterJoinIntent(v, t)
<1>1. /\ Sound(w) /\ w.time >= v.time
      /\ v.status = "alive" => w.status = "alive"
  BY AfterJoinIntentSound
<1>2. view' = [view EXCEPT ![i] = w] /\ refuting' = refuting
  BY DEF HearJoin
<1>3. TimesAreNatural'
  BY <1>2 DEF Inv, TimesAreNatural
<1>4. state = "alive" /\ i = Subject => w.status = "alive"
  BY <1>1 DEF Inv, OnlyLeaveLeaves
<1> HIDE DEF w
<1>5. QED
  BY <1>1, <1>2, <1>3, <1>4, OneViewChanges

LEMMA NotifyMsgKeeps ==
  ASSUME Inv, NEW i \in Node, NotifyMsg(i)
  PROVE  Inv' /\ NoStepBack
<1>1. PICK m \in intents :
        \/ HearLeave(i, view[i], m.time)
        \/ HearJoin(i, view[i], m.time)
  BY DEF NotifyMsg
<1>2. m.time \in Nat /\ Sound(view[i])
  BY DEF Inv, TimesAreNatural
<1>3. UNCHANGED <<lives, state, intents>> /\ \A n \in intents' : n.time \in Nat
  BY DEF NotifyMsg, Inv, TimesAreNatural
<1>4. QED
  BY <1>1, <1>2, <1>3, HearLeaveKeeps, HearJoinKeeps

LEMMA MergeRemoteStateKeeps ==
  ASSUME Inv, NEW i \in Node, NEW j \in Node, MergeRemoteState(i, j)
  PROVE  Inv' /\ NoStepBack
<1> DEFINE w == view[j]
           v == Witness(view[i], w.clock - 1)
<1>1. w.time \in Nat /\ w.clock - 1 \in Nat
  BY DEF Inv, Sound, View, Ahead
<1>2. Sound(v) /\ v.status = view[i].status /\ v.time = view[i].time
  BY <1>1, WitnessSound DEF Inv
<1>3. UNCHANGED <<lives, state, intents>> /\ \A n \in intents' : n.time \in Nat
  BY DEF MergeRemoteState, Inv, TimesAreNatural
<1>4. \/ HearLeave(i, v, w.time)
      \/ HearJoin(i, v, w.time)
      \/ view' = [view EXCEPT ![i] = v] /\ UNCHANGED refuting
  BY DEF MergeRemoteState
<1> HIDE DEF w, v
<1>5. CASE HearLeave(i, v, w.time)
  BY <1>1, <1>2, <1>3, <1>5, HearLeaveKeeps
<1>6. CASE HearJoin(i, v, w.time)
  BY <1>1, <1>2, <1>3, <1>6, HearJoinKeeps
<1>7. CASE view' = [view EXCEPT ![i] = v] /\ UNCHANGED refuting
  <2>1. TimesAreNatural'
    BY <1>3, <1>7 DEF Inv, TimesAreNatural
  <2>2. view[i].time \in Nat
    BY DEF Inv, View
  <2>3. state' = "alive" => IF i = Subject THEN v.status = "alive"
                                           ELSE state = "alive"
    BY <1>2, <1>3 DEF Inv, OnlyLeaveLeaves
  <2>4. v.time >= view[i].time
    BY <1>2, <2>2
  <2>5. QED
    BY <1>2, <1>7, <2>1, <2>3, <2>4, OneViewChanges
<1>8. QED
  BY <1>4, <1>5, <1>6, <1>7

\* A join that the subject broadcasts.
LEMMA BroadcastJoinKeeps ==
  ASSUME Inv, NEW t \in Nat, BroadcastJoin(t), refuting' \subseteq refuting,
         UNCHANGED <<lives, state>>
  PROVE  Inv' /\ NoStepBack
<1> DEFINE w == AfterJoinIntent(view[Subject], t)
<1>1. Subject \in Node /\ Subject \notin Observer
  BY DEF Node
<1>2. Sound(w) /\ (view[Subject].status = "alive" => w.status = "alive")
  BY <1>1, AfterJoinIntentSound DEF Inv
<1>3. view' = [view EXCEPT ![Subject] = w]
  BY <1>1 DEF BroadcastJoin, Inv
<1>4. TimesAreNatural'
  BY DEF BroadcastJoin, Inv, TimesAreNatural
<1>5. state' = "alive" => w.status = "alive"
  BY <1>2 DEF Inv, OnlyLeaveLeaves
<1> HIDE DEF w
<1>6. QED
  BY <1>1, <1>2, <1>3, <1>4, <1>5, OneViewChanges

\* What the subject does.
LEMMA SubjectKeeps ==
  ASSUME Inv, Start \/ Join \/ Refute \/ Leave \/ Down
  PROVE  Inv' /\ NoStepBack
<1>1. Subject \in Node /\ Subject \notin Observer
  BY DEF Node
<1> DEFINE v == view[Subject]
<1>2. Sound(v) /\ v.clock \in Nat /\ v.clock > 0
  BY <1>1 DEF Inv, Sound, View, Ahead
<1>3. CASE Start
  <2>1. PICK clock \in 1..v.clock :
          view' = [view EXCEPT ![Subject] =
                     AfterNodeJoin(NewView(clock), lives + 1)]
    BY <1>3 DEF Start
  <2> DEFINE w == AfterNodeJoin(NewView(clock), lives + 1)
  <2>2. clock \in Nat /\ clock > 0 /\ lives + 1 \in Nat
    BY <1>2 DEF Inv, TimesAreNatural
  <2>3. Sound(w) /\ w.status = "alive"
    BY <2>2, NewViewSound, AfterNodeJoinSound, NewNodeIsAlive
  <2>4. TimesAreNatural'
    BY <1>3, <2>2 DEF Start, Inv, TimesAreNatural
  <2> HIDE DEF w
  <2>5. QED
    BY <1>1, <2>1, <2>3, <2>4, OneViewChanges DEF w
<1>4. CASE Join
  BY <1>2, <1>4, BroadcastJoinKeeps DEF Join
<1>5. CASE Refute
  <2>1. PICK t \in refuting : BroadcastJoin(t) /\ refuting' = refuting \ {t}
    BY <1>5 DEF Refute
  <2>2. t \in Nat /\ UNCHANGED <<lives, state>>
    BY <1>5 DEF Refute, Inv, TimesAreNatural
  <2>3. QED
    BY <2>1, <2>2, BroadcastJoinKeeps
<1>6. CASE Leave
  <2> DEFINE u == [v EXCEPT !.clock = @ + 1]
             w == AfterLeaveIntent(u, v.clock)
  <2>1. Sound(u)
    BY <1>2, TickSound
  <2>2. Sound(w)
    BY <1>2, <2>1, AfterLeaveIntentSound
  <2>3. view' = [view EXCEPT ![Subject] = w] /\ state' = "leaving"
    BY <1>6 DEF Leave
  <2>4. TimesAreNatural'
    BY <1>2, <1>6 DEF Leave, Inv, TimesAreNatural
  <2> HIDE DEF w
  <2>5. QED
    BY <1>1, <2>2, <2>3, <2>4, OneViewChanges
<1>7. CASE Down
  <2>1. Sound(NewView(v.clock))
    BY <1>2, NewViewSound
  <2>2. view' = [view EXCEPT ![Subject] = NewView(v.clock)]
    BY <1>1, <1>7 DEF Down, Inv
  <2>3. TimesAreNatural' /\ state' = "down"
    BY <1>7 DEF Down, Inv, TimesAreNatural
  <2>4. QED
    BY <1>1, <2>1, <2>2, <2>3, OneViewChanges
<1>8. QED
  BY <1>3, <1>4, <1>5, <1>6, <1>7

\* What memberlist tells a node.
LEMMA NodeKeeps ==
  ASSUME Inv, NEW i \in Node,
         \/ NodeLeave(i)
         \/ i \in Observer /\ (NodeJoin(i) \/ NodeUpdate(i) \/ Reap(i))
  PROVE  Inv' /\ NoStepBack
<1> DEFINE v == view[i]
<1>1. Sound(v) /\ v \in View /\ v.time \in Nat /\ lives \in Nat
  BY DEF Inv, Sound, View, TimesAreNatural
<1>2. UNCHANGED <<lives, state, refuting, intents>>
  BY DEF NodeLeave, NodeJoin, NodeUpdate, Reap
<1>3. TimesAreNatural'
  BY <1>2 DEF Inv, TimesAreNatural
<1>4. i \in Observer => i # Subject
  OBVIOUS
<1>5. CASE NodeLeave(i)
  <2> DEFINE w == AfterNodeLeave(v)
  <2>1. Sound(w) /\ w.time = v.time
    BY <1>1, <1>5, AfterNodeLeaveSound DEF NodeLeave
  <2>2. view' = [view EXCEPT ![i] = w] /\ (i = Subject => state' # "alive")
    BY <1>2, <1>5 DEF NodeLeave, Inv
  <2>3. state' = "alive" => IF i = Subject THEN w.status = "alive"
                                           ELSE state = "alive"
    BY <1>2, <2>2
  <2>4. i \in Observer /\ view[i].status # "none" /\ w.status # "none"
          => w.time >= view[i].time
    BY <1>1, <2>1
  <2> HIDE DEF w
  <2>5. QED
    BY <1>3, <2>1, <2>2, <2>3, <2>4, OneViewChanges
<1>6. CASE i \in Observer /\ NodeJoin(i)
  <2> DEFINE w == AfterNodeJoin(v, lives)
  <2>1. Sound(w) /\ (v.status # "none" => w.time = v.time)
    BY <1>1, AfterNodeJoinSound
  <2>2. view' = [view EXCEPT ![i] = w]
    BY <1>6 DEF NodeJoin, Inv
  <2>3. state' = "alive" => IF i = Subject THEN w.status = "alive"
                                           ELSE state = "alive"
    BY <1>2, <1>4, <1>6
  <2>4. i \in Observer /\ view[i].status # "none" /\ w.status # "none"
          => w.time >= view[i].time
    BY <1>1, <2>1
  <2> HIDE DEF w
  <2>5. QED
    BY <1>3, <2>1, <2>2, <2>3, <2>4, OneViewChanges
<1>7. CASE i \in Observer /\ NodeUpdate(i)
  <2> DEFINE w == [v EXCEPT !.life = lives]
  <2>1. Sound(w) /\ w.time = v.time
    BY <1>1 DEF Sound, View, Ahead, Listed
  <2>2. view' = [view EXCEPT ![i] = w]
    BY <1>7 DEF NodeUpdate, Inv
  <2>3. state' = "alive" => IF i = Subject THEN w.status = "alive"
                                           ELSE state = "alive"
    BY <1>2, <1>4, <1>7
  <2>4. i \in Observer /\ view[i].status # "none" /\ w.status # "none"
          => w.time >= view[i].time
    BY <1>1, <2>1
  <2> HIDE DEF w
  <2>5. QED
    BY <1>3, <2>1, <2>2, <2>3, <2>4, OneViewChanges
<1>8. CASE i \in Observer /\ Reap(i)
  <2>1. PICK w : /\ Sound(w) /\ w.status = "none"
                 /\ view' = [view EXCEPT ![i] = w]
    <3> DEFINE f == [v EXCEPT !.status = "none", !.time = 0, !.life = 0,
                              !.failed = @ - 1]
               l == [v EXCEPT !.status = "none", !.time = 0, !.life = 0,
                              !.left = @ - 1]
    <3>1. \/ v.failed > 0 /\ view' = [view EXCEPT ![i] = f]
          \/ v.left > 0 /\ view' = [view EXCEPT ![i] = l]
      BY <1>8 DEF Reap, Inv
    <3>2. (v.failed > 0 => Sound(f)) /\ (v.left > 0 => Sound(l))
      BY <1>1, ForgottenSound
    <3>3. f.status = "none" /\ l.status = "none"
      BY <1>1 DEF View
    <3> HIDE DEF f, l
    <3>4. QED
      BY <3>1, <3>2, <3>3
  <2>2. QED
    BY <1>2, <1>3, <1>4, <1>8, <2>1, OneViewChanges
<1>9. QED
  BY <1>5, <1>6, <1>7, <1>8

\* An operator.
LEMMA RemoveFailedNodeKeeps ==
  ASSUME Inv, NEW i \in Observer, RemoveFailedNode(i)
  PROVE  Inv' /\ NoStepBack
<1> DEFINE v == view[i]
           u == [v EXCEPT !.clock = @ + 1]
<1>1. i \in Node
  BY DEF Node
<1>2. Sound(u) /\ u.status = v.status /\ u.time = v.time /\ v.clock \in Nat
  BY <1>1, TickSound DEF Inv, Sound, View
<1>3. /\ HearLeave(i, u, v.clock) /\ UNCHANGED <<lives, state>>
      /\ \A m \in intents' : m.time \in Nat
  BY <1>2 DEF RemoveFailedNode, Inv, TimesAreNatural
<1> HIDE DEF u
<1>4. QED
  BY <1>1, <1>2, <1>3, HearLeaveKeeps

LEMMA NextKeeps ==
  ASSUME Inv, [Next]_vars
  PROVE  Inv' /\ NoStepBack
<1>1. Observer \subseteq Node /\ Subject \in Node
  BY DEF Node
<1>2. CASE UNCHANGED view /\ UNCHANGED <<lives, state, refuting, intents>>
  <2>1. Inv'
    BY <1>2 DEF Inv, TimesAreNatural, OnlyLeaveLeaves
  <2>2. NoStepBack
    BY <1>1, <1>2 DEF NoStepBack, Inv, View
  <2>3. QED
    BY <2>1, <2>2
<1>3. CASE TakeEvent \/ UNCHANGED vars
  BY <1>2, <1>3 DEF TakeEvent, vars
<1>4. CASE Start \/ Join \/ Refute \/ Leave \/ Down
  BY <1>4, SubjectKeeps
<1>5. CASE NodeLeave(Subject)
  BY <1>1, <1>5, NodeKeeps
<1>6. ASSUME NEW i \in Node,
             NotifyMsg(i) \/ \E j \in Node : MergeRemoteState(i, j)
      PROVE  Inv' /\ NoStepBack
  BY <1>6, NotifyMsgKeeps, MergeRemoteStateKeeps
<1>7. ASSUME NEW i \in Observer,
             \/ NodeJoin(i) \/ NodeUpdate(i) \/ NodeLeave(i)
             \/ Reap(i) \/ RemoveFailedNode(i)
      PROVE  Inv' /\ NoStepBack
  BY <1>1, <1>7, NodeKeeps, RemoveFailedNodeKeeps
<1>8. QED
  BY <1>3, <1>4, <1>5, <1>6, <1>7 DEF Next

LEMMA InitInv == Init => Inv
<1> SUFFICES ASSUME Init PROVE Inv
  OBVIOUS
<1>1. Sound(NewView(1))
  BY NewViewSound
<1>2. QED
  BY <1>1 DEF Init, Inv, Sound, TimesAreNatural, OnlyLeaveLeaves

LEMMA Invariant == Spec => []Inv
<1>1. Inv /\ [Next]_vars => Inv'
  BY NextKeeps
<1>2. QED
  BY InitInv, <1>1, PTL DEF Spec

-----------------------------------------------------------------------------
(* The bounds.  No time is later than the last one an intent may be made at  *)
(* but for the refutations: a subject that has refuted all there is to       *)
(* refute has an entry later than any leave it may hear in this life.        *)

\* All that is known is older than h.
Below(h) ==
  /\ \A i \in Node : view[i].clock <= h
  /\ \A m \in intents : m.time < h

Limit == MaxTime + lives

\* Whoever knows the subject knows which of its lives that is.
LivesAreKnown ==
  \A i \in Node :
    /\ view[i].life \in 0..lives
    /\ view[i].status # "none" => view[i].life > 0

Bounds ==
  /\ lives <= MaxLives
  /\ intents \subseteq [type : {"join", "leave"}, time : Nat]
  /\ Below(Limit)
  /\ \A t \in refuting : t < Limit
  /\ state \in {"down", "alive", "leaving"}
  /\ state # "down" =>
       /\ view[Subject].status # "none"
       /\ Below(Limit - 1) \/ view[Subject].time >= Limit - 1
  /\ LivesAreKnown

\* What a node hears tells it nothing of later times, of a life, or of a member
\* it does not know.
LEMMA HeardBounds ==
  ASSUME NEW v, Sound(v), NEW t \in Nat,
         NEW w \in {Witness(v, t), AfterLeaveIntent(v, t), AfterJoinIntent(v, t)}
  PROVE  /\ w.clock \in {v.clock, t + 1}
         /\ w.life = v.life
         /\ w.status = "none" <=> v.status = "none"
         /\ w.time \in Nat /\ w.time >= v.time
<1> DEFINE u == Witness(v, t)
<1>1. /\ u.clock \in {v.clock, t + 1} /\ u.life = v.life
      /\ u.status = v.status /\ u.time = v.time /\ u \in View
  <2>1. u \in View /\ u.status = v.status /\ u.time = v.time
    BY WitnessSound DEF Sound
  <2>2. u.clock \in {v.clock, t + 1} /\ u.life = v.life
    BY DEF Witness, Sound, View
  <2>3. QED
    BY <2>1, <2>2
<1>2. v.time \in Nat /\ Sound(w) /\ w.time \in Nat /\ w.time >= v.time
  <2>1. v.time \in Nat /\ u.time \in Nat
    BY <1>1 DEF Sound, View
  <2>2. CASE w = u
    BY <1>1, <2>1, <2>2, WitnessSound
  <2>3. CASE w = AfterLeaveIntent(v, t)
    BY <2>3, AfterLeaveIntentSound DEF Sound, View
  <2>4. CASE w = AfterJoinIntent(v, t)
    BY <2>4, AfterJoinIntentSound DEF Sound, View
  <2>5. QED
    BY <2>1, <2>2, <2>3, <2>4 DEF Sound, View
<1>3. CASE w = u
  BY <1>1, <1>2, <1>3
<1>4. CASE w = AfterLeaveIntent(v, t)
  <2>1. w = CASE u.status = "none" -> [u EXCEPT !.leaves = Buffer(@, t)]
              [] u.status = "alive" /\ t > u.time ->
                   [u EXCEPT !.status = "leaving", !.time = t]
              [] u.status = "failed" /\ t > u.time ->
                   [u EXCEPT !.status = "left", !.time = t, !.failed = 0,
                             !.left = @ + 1]
              [] OTHER -> u
    BY <1>4 DEF AfterLeaveIntent
  <2> HIDE DEF u
  <2>2. /\ w.clock = u.clock /\ w.life = u.life
        /\ w.status = "none" <=> u.status = "none"
    BY <1>1, <2>1 DEF View
  <2>3. QED
    BY <1>1, <1>2, <2>2
<1>5. CASE w = AfterJoinIntent(v, t)
  <2>1. w = CASE u.status = "none" -> [u EXCEPT !.joins = Buffer(@, t)]
              [] u.status # "none" /\ t > u.time ->
                   [u EXCEPT !.time = t,
                             !.status = IF @ = "leaving" THEN "alive" ELSE @]
              [] OTHER -> u
    BY <1>5 DEF AfterJoinIntent
  <2> HIDE DEF u
  <2>2. /\ w.clock = u.clock /\ w.life = u.life
        /\ w.status = "none" <=> u.status = "none"
    BY <1>1, <2>1 DEF View
  <2>3. QED
    BY <1>1, <1>2, <2>2
<1>6. QED
  BY <1>3, <1>4, <1>5

\* A step that changes one view, in one life, and makes no time later than all
\* others before MaxTime.
LEMMA OneViewBounded ==
  ASSUME Inv, Bounds, UNCHANGED <<lives, state>>, NEW i \in Node, NEW w,
         view' = [view EXCEPT ![i] = w],
         intents' \subseteq [type : {"join", "leave"}, time : Nat],
         \A h \in Nat : h >= MaxTime /\ Below(h)
                          => w.clock <= h /\ \A m \in intents' : m.time < h,
         i = Subject /\ state # "down" =>
           /\ w.status # "none"
           /\ w.time \in Nat /\ w.time >= view[Subject].time,
         \A t \in refuting' : t < Limit,
         w.life \in 0..lives, w.status # "none" => w.life > 0
  PROVE  Bounds'
<1>1. Subject \in Node /\ lives \in Nat /\ Limit \in Nat /\ Limit >= MaxTime
  BY DEF Inv, TimesAreNatural, Limit, Node
<1>2. \A h \in Nat : h >= MaxTime /\ Below(h) => Below(h)'
  BY DEF Below, Inv
<1>3. LivesAreKnown'
  BY DEF Bounds, LivesAreKnown, Inv
<1>4. Limit' = Limit
  BY DEF Limit
<1>5. ASSUME state # "down"
      PROVE  /\ view'[Subject].status # "none"
             /\ Below(Limit - 1)' \/ view'[Subject].time >= Limit - 1
  <2>1. /\ view'[Subject].status # "none"
        /\ view'[Subject].time \in Nat /\ view[Subject].time \in Nat
        /\ view'[Subject].time >= view[Subject].time
    BY <1>1, <1>5 DEF Bounds, Inv, View
  <2>2. lives > 0
    BY <1>1, <1>5 DEF Bounds, LivesAreKnown
  <2>3. Limit - 1 \in Nat /\ Limit - 1 >= MaxTime
    BY <1>1, <2>2 DEF Limit
  <2>4. Below(Limit - 1) \/ view[Subject].time >= Limit - 1
    BY <1>5 DEF Bounds
  <2>5. Below(Limit - 1) => Below(Limit - 1)'
    <3> DEFINE h == Limit - 1
    <3>1. h \in Nat /\ h >= MaxTime /\ (Limit - 1)' = h
      BY <1>4, <2>3
    <3> HIDE DEF h
    <3>2. Below(h) =>
            /\ \A j \in Node : view'[j].clock <= h
            /\ \A m \in intents' : m.time < h
      BY <1>2, <3>1 DEF Below
    <3>3. QED
      BY <3>1, <3>2 DEF Below, h
  <2>6. QED
    BY <1>1, <2>1, <2>3, <2>4, <2>5
<1>6. QED
  BY <1>1, <1>2, <1>3, <1>4, <1>5 DEF Bounds

\* Whatever leave or join a node hears.
LEMMA HearBounded ==
  ASSUME Inv, Bounds, NEW i \in Node, NEW v, Sound(v), v.status = view[i].status,
         v.time = view[i].time, v.life = view[i].life, NEW t \in Nat,
         HearLeave(i, v, t) \/ HearJoin(i, v, t),
         \A h \in Nat : h >= MaxTime /\ Below(h)
           => v.clock <= h /\ t < h /\ \A m \in intents' : m.time < h,
         intents' \subseteq [type : {"join", "leave"}, time : Nat],
         UNCHANGED <<lives, state>>
  PROVE  Bounds'
<1>1. PICK w \in {Witness(v, t), AfterLeaveIntent(v, t), AfterJoinIntent(v, t)} :
        /\ view' = [view EXCEPT ![i] = w]
        /\ \/ refuting' = refuting
           \/ Refutes(i, v, t) /\ refuting' = refuting \cup {w.clock}
  BY DEF HearLeave, HearJoin
<1>2. /\ w.clock \in {v.clock, t + 1} /\ w.life = v.life
      /\ w.status = "none" <=> v.status = "none"
      /\ w.time \in Nat /\ w.time >= v.time
  BY HeardBounds
<1>3. v.clock \in Nat /\ v.time \in Nat /\ lives \in Nat
  BY DEF Sound, View, Inv, TimesAreNatural
<1>4. \A h \in Nat : h >= MaxTime /\ Below(h)
        => w.clock <= h /\ \A m \in intents' : m.time < h
  BY <1>2, <1>3
<1>5. w.life \in 0..lives /\ (w.status # "none" => w.life > 0)
  BY <1>2 DEF Bounds, LivesAreKnown
<1>6. \A s \in refuting' : s < Limit
  <2>1. CASE refuting' = refuting
    BY <2>1 DEF Bounds
  <2>2. CASE Refutes(i, v, t) /\ refuting' = refuting \cup {w.clock}
    <3>1. i = Subject /\ state # "down" /\ t > v.time
      BY <2>2 DEF Refutes
    <3>2. /\ Subject \in Node /\ Limit \in Nat /\ Limit >= MaxTime
          /\ Limit - 1 \in Nat /\ Limit - 1 >= MaxTime
      <4>1. Subject \in Node
        BY DEF Node
      <4>2. lives > 0
        BY <1>3, <3>1, <4>1 DEF Bounds, LivesAreKnown
      <4>3. QED
        BY <1>3, <4>1, <4>2 DEF Limit
    <3>3. t < Limit
      BY <3>2 DEF Bounds
    <3>4. Below(Limit - 1)
      <4>1. Below(Limit - 1) \/ view[Subject].time >= Limit - 1
        BY <3>1 DEF Bounds
      <4>2. ~ (view[Subject].time >= Limit - 1)
        BY <1>3, <3>1, <3>2, <3>3
      <4>3. QED
        BY <4>1, <4>2
    <3>5. w.clock <= Limit - 1
      BY <1>4, <3>2, <3>4
    <3>6. QED
      BY <1>2, <1>3, <2>2, <3>2, <3>5 DEF Bounds
  <2>3. QED
    BY <1>1, <2>1, <2>2
<1>7. i = Subject /\ state # "down" =>
        /\ w.status # "none"
        /\ w.time \in Nat /\ w.time >= view[Subject].time
  BY <1>2 DEF Bounds
<1> HIDE DEF Bounds
<1>8. QED
  BY <1>1, <1>4, <1>5, <1>6, <1>7, OneViewBounded

LEMMA NodeJoinBounds ==
  ASSUME NEW v, Sound(v), NEW life \in Nat
  PROVE  LET w == AfterNodeJoin(v, life) IN
         /\ w.clock = v.clock /\ w.life = life
         /\ w.status \in {"alive", "leaving"}
<1>1. v \in View
  BY DEF Sound
<1>2. QED
  BY <1>1 DEF AfterNodeJoin, View

LEMMA MessagesBounded ==
  ASSUME Inv, Bounds, NEW i \in Node,
         NotifyMsg(i) \/ \E j \in Node : MergeRemoteState(i, j)
  PROVE  Bounds'
<1>1. UNCHANGED <<lives, state, intents>>
  BY DEF NotifyMsg, MergeRemoteState
<1>2. /\ intents' \subseteq [type : {"join", "leave"}, time : Nat]
      /\ \A h \in Nat : Below(h) => \A m \in intents' : m.time < h
  BY <1>1 DEF Bounds, Below
<1>3. Sound(view[i]) /\ \A h \in Nat : Below(h) => view[i].clock <= h
  BY DEF Inv, Below
<1>4. CASE NotifyMsg(i)
  <2>1. PICK m \in intents :
          HearLeave(i, view[i], m.time) \/ HearJoin(i, view[i], m.time)
    BY <1>4 DEF NotifyMsg
  <2>2. m.time \in Nat /\ \A h \in Nat : Below(h) => m.time < h
    BY DEF Bounds, Below
  <2>3. QED
    BY <1>1, <1>2, <1>3, <2>1, <2>2, HearBounded
<1>5. ASSUME NEW j \in Node, MergeRemoteState(i, j)
      PROVE  Bounds'
  <2> DEFINE t == view[j].clock - 1
             v == Witness(view[i], t)
  <2>1. view[j].clock \in Nat /\ view[j].time \in Nat /\ t \in Nat
        /\ view[j].time < view[j].clock
    BY DEF Inv, Sound, View, Ahead
  <2>2. \A h \in Nat : Below(h) => view[j].clock <= h
    BY DEF Below
  <2>3. Sound(v) /\ v.status = view[i].status /\ v.time = view[i].time
    BY <1>3, <2>1, WitnessSound
  <2>4. v.clock \in {view[i].clock, t + 1} /\ v.life = view[i].life
    BY <1>3, <2>1, HeardBounds
  <2>5. \A h \in Nat : Below(h) => v.clock <= h /\ view[j].time < h
    BY <1>3, <2>1, <2>2, <2>4
  <2>6. \/ HearLeave(i, v, view[j].time) \/ HearJoin(i, v, view[j].time)
        \/ view' = [view EXCEPT ![i] = v] /\ UNCHANGED refuting
    BY <1>5 DEF MergeRemoteState
  <2> HIDE DEF v, t
  <2>7. CASE \/ HearLeave(i, v, view[j].time) \/ HearJoin(i, v, view[j].time)
    BY <1>1, <1>2, <2>1, <2>3, <2>4, <2>5, <2>7, HearBounded
  <2>8. CASE view' = [view EXCEPT ![i] = v] /\ UNCHANGED refuting
    <3>1. i = Subject /\ state # "down" =>
            v.status # "none" /\ v.time \in Nat /\ v.time >= view[Subject].time
      BY <2>3 DEF Bounds, Sound, View
    <3>2. v.life \in 0..lives /\ (v.status # "none" => v.life > 0)
      BY <2>3, <2>4 DEF Bounds, LivesAreKnown
    <3>3. \A s \in refuting' : s < Limit
      BY <2>8 DEF Bounds
    <3>4. QED
      BY <1>1, <1>2, <2>5, <2>8, <3>1, <3>2, <3>3, OneViewBounded
  <2>9. QED
    BY <2>6, <2>7, <2>8
<1>6. QED
  BY <1>4, <1>5

\* What the subject announces while it may, at a time before MaxTime.
LEMMA AnnouncementsBounded ==
  ASSUME Inv, Bounds, Join \/ Leave \/ \E i \in Observer : RemoveFailedNode(i)
  PROVE  Bounds'
<1>1. PICK i \in Node : /\ view[i].clock < MaxTime /\ lives' = lives
                        /\ \/ i = Subject /\ (Join \/ Leave)
                           \/ i \in Observer /\ RemoveFailedNode(i)
  BY DEF Join, Leave, RemoveFailedNode, Node
<1> DEFINE v == view[i]
           u == [v EXCEPT !.clock = @ + 1]
           t == v.clock
<1>2. Sound(v) /\ t \in Nat /\ v.time \in Nat /\ t < MaxTime
  BY <1>1 DEF Inv, Sound, View
<1>3. /\ Sound(u) /\ u.status = v.status /\ u.time = v.time
      /\ u.life = v.life /\ u.clock = t + 1
  BY <1>2, TickSound DEF Sound, View
<1>4. PICK type \in {"join", "leave"} :
        intents' = intents \cup {[type |-> type, time |-> t]}
  BY <1>1 DEF Join, BroadcastJoin, Leave, RemoveFailedNode
<1>5. /\ intents' \subseteq [type : {"join", "leave"}, time : Nat]
      /\ \A h \in Nat : h >= MaxTime /\ Below(h)
           => t < h /\ v.clock <= h /\ u.clock <= h
              /\ \A m \in intents' : m.time < h
  BY <1>2, <1>3, <1>4 DEF Bounds, Below
<1>6. v.life \in 0..lives /\ (v.status # "none" => v.life > 0)
  BY DEF Bounds, LivesAreKnown
<1>7. CASE i \in Observer /\ RemoveFailedNode(i)
  <2>1. HearLeave(i, u, t) /\ UNCHANGED <<lives, state>>
    BY <1>7 DEF RemoveFailedNode
  <2> HIDE DEF u, t
  <2>2. QED
    BY <1>2, <1>3, <1>5, <2>1, HearBounded
<1>8. CASE i = Subject /\ Join
  <2>1. HearJoin(i, v, t) /\ UNCHANGED <<lives, state>>
    BY <1>8 DEF Join, BroadcastJoin, HearJoin, Inv
  <2> HIDE DEF u, t
  <2>2. QED
    BY <1>2, <1>5, <2>1, HearBounded
<1>9. CASE i = Subject /\ Leave
  <2> DEFINE w == AfterLeaveIntent(u, t)
  <2>1. view' = [view EXCEPT ![i] = w]
    BY <1>9 DEF Leave
  <2>2. /\ w.clock \in {u.clock, t + 1} /\ w.life = u.life
        /\ w.status = "none" <=> u.status = "none"
        /\ w.time \in Nat /\ w.time >= u.time
    BY <1>2, <1>3, HeardBounds
  <2>3. /\ state = "alive" /\ state' = "leaving"
        /\ UNCHANGED <<lives, refuting>>
    BY <1>9 DEF Leave
  <2> HIDE DEF u, t, w
  <2>4. \A h \in Nat : h >= MaxTime /\ Below(h)
          => w.clock <= h /\ \A m \in intents' : m.time < h
    BY <1>3, <1>5, <2>2
  <2>5. lives \in Nat /\ lives > 0 /\ Limit' = Limit
        /\ Limit \in Nat /\ Limit - 1 \in Nat /\ Limit - 1 >= MaxTime
    BY <1>6, <1>9, <2>3 DEF Bounds, Inv, TimesAreNatural, Limit
  <2>6. \A h \in Nat : h >= MaxTime /\ Below(h)
          => /\ \A j \in Node : view'[j].clock <= h
             /\ \A m \in intents' : m.time < h
    BY <2>1, <2>4 DEF Below, Inv
  <2>7. view'[Subject] = w
    BY <1>9, <2>1 DEF Inv
  <2>8. Below(Limit)' /\ (Below(Limit - 1) => Below(Limit - 1)')
    <3> DEFINE h == Limit - 1
    <3>1. h \in Nat /\ h >= MaxTime /\ (Limit - 1)' = h
          /\ Below(Limit) /\ Limit >= MaxTime
      BY <2>5 DEF Bounds
    <3> HIDE DEF h
    <3>2. Below(h) =>
            /\ \A j \in Node : view'[j].clock <= h
            /\ \A m \in intents' : m.time < h
      BY <2>6, <3>1
    <3>3. /\ \A j \in Node : view'[j].clock <= Limit
          /\ \A m \in intents' : m.time < Limit
      BY <2>5, <2>6, <3>1
    <3>4. QED
      BY <2>5, <3>1, <3>2, <3>3 DEF Below, h
  <2>9. /\ w.status # "none"
        /\ view[Subject].time >= Limit - 1 => w.time >= Limit - 1
    BY <1>2, <1>3, <1>9, <2>2, <2>3, <2>5 DEF Bounds
  <2>10. LivesAreKnown'
    BY <1>3, <1>6, <2>1, <2>2, <2>3 DEF Bounds, LivesAreKnown, Inv
  <2>11. QED
    BY <1>5, <1>9, <2>3, <2>5, <2>7, <2>8, <2>9, <2>10 DEF Bounds
<1>10. QED
  BY <1>1, <1>7, <1>8, <1>9

\* The refutation of a life that may be later than all others.
LEMMA RefuteBounded ==
  ASSUME Inv, Bounds, Refute
  PROVE  Bounds'
<1>1. PICK t \in refuting : BroadcastJoin(t) /\ refuting' = refuting \ {t}
  BY DEF Refute
<1>2. Subject \in Node /\ t \in Nat /\ lives \in Nat /\ t < Limit
      /\ state # "down" /\ UNCHANGED <<lives, state>>
  BY DEF Refute, Inv, TimesAreNatural, Bounds, Node
<1> DEFINE v == view[Subject]
           w == AfterJoinIntent(v, t)
<1>3. /\ Sound(v) /\ v.status # "none" /\ v.time \in Nat /\ v.clock \in Nat
  BY <1>2 DEF Inv, Sound, View, Bounds
<1>4. /\ w.clock \in {v.clock, t + 1} /\ w.life = v.life
      /\ w.status # "none" /\ w.time \in Nat /\ w.time >= v.time
  BY <1>2, <1>3, HeardBounds
<1>5. w.time >= t
  <2>1. /\ Witness(v, t).status # "none" /\ Witness(v, t).time = v.time
        /\ Witness(v, t) \in View
    BY <1>2, <1>3, WitnessSound DEF Sound
  <2>2. w.time = IF t > v.time THEN t ELSE v.time
    BY <2>1 DEF AfterJoinIntent, View
  <2>3. QED
    BY <1>2, <1>3, <2>2
<1>6. view' = [view EXCEPT ![Subject] = w]
      /\ intents' = intents \cup {[type |-> "join", time |-> t]}
  BY <1>1, <1>2 DEF BroadcastJoin, Inv
<1> HIDE DEF w
<1>7. lives > 0 /\ Limit' = Limit /\ Limit \in Nat /\ Limit - 1 \in Nat
  <2>1. lives > 0
    BY <1>2, <1>3 DEF Bounds, LivesAreKnown
  <2>2. QED
    BY <1>2, <2>1 DEF Limit
<1>8. \A h \in Nat : t < h /\ Below(h)
        => /\ \A j \in Node : view'[j].clock <= h
           /\ \A m \in intents' : m.time < h
  BY <1>2, <1>3, <1>4, <1>6 DEF Below, Inv
<1>9. Below(Limit)'
  <2>1. /\ \A j \in Node : view'[j].clock <= Limit
        /\ \A m \in intents' : m.time < Limit
    BY <1>2, <1>7, <1>8 DEF Bounds
  <2>2. QED
    BY <1>7, <2>1 DEF Below
<1>10. Below(Limit - 1)' \/ w.time >= Limit - 1
  <2>1. CASE t >= Limit - 1
    BY <1>2, <1>4, <1>5, <1>7, <2>1
  <2>2. CASE t < Limit - 1 /\ Below(Limit - 1)
    <3> DEFINE h == Limit - 1
    <3>1. h \in Nat /\ t < h /\ Below(h) /\ (Limit - 1)' = h
      BY <1>7, <2>2
    <3> HIDE DEF h
    <3>2. /\ \A j \in Node : view'[j].clock <= h
          /\ \A m \in intents' : m.time < h
      BY <1>8, <3>1
    <3>3. QED
      BY <3>1, <3>2 DEF Below
  <2>3. CASE v.time >= Limit - 1
    BY <1>3, <1>4, <1>7, <2>3
  <2>4. QED
    BY <1>2, <1>7, <2>1, <2>2, <2>3 DEF Bounds
<1>11. LivesAreKnown'
  BY <1>2, <1>4, <1>6 DEF Bounds, LivesAreKnown, Inv
<1>12. view'[Subject] = w /\ refuting' \subseteq refuting
       /\ intents' \subseteq [type : {"join", "leave"}, time : Nat]
  BY <1>1, <1>2, <1>6 DEF Inv, Bounds
<1>13. QED
  BY <1>2, <1>4, <1>7, <1>9, <1>10, <1>11, <1>12 DEF Bounds

\* A life begins, and its bound is one later; or it ends.
LEMMA LivesBounded ==
  ASSUME Inv, Bounds, Start \/ Down
  PROVE  Bounds'
<1> DEFINE v == view[Subject]
<1>1. Subject \in Node /\ lives \in Nat /\ Limit \in Nat
      /\ v.clock \in Nat /\ v.clock > 0 /\ v.clock <= Limit
  BY DEF Inv, TimesAreNatural, Limit, Node, Sound, View, Ahead, Bounds, Below
<1>2. CASE Start
  <2>1. PICK clock \in 1..v.clock :
          view' = [view EXCEPT ![Subject] =
                     AfterNodeJoin(NewView(clock), lives + 1)]
    BY <1>2 DEF Start
  <2> DEFINE w == AfterNodeJoin(NewView(clock), lives + 1)
  <2>2. clock \in Nat /\ clock > 0 /\ clock <= v.clock /\ lives + 1 \in Nat
    BY <1>1
  <2>3. w.clock = clock /\ w.life = lives + 1 /\ w.status \in {"alive", "leaving"}
    <3>1. Sound(NewView(clock)) /\ NewView(clock).clock = clock
      BY <2>2, NewViewSound DEF NewView
    <3>2. QED
      BY <2>2, <3>1, NodeJoinBounds
  <2> HIDE DEF w
  <2>4. /\ lives' = lives + 1 /\ lives < MaxLives /\ state' = "alive"
        /\ UNCHANGED <<refuting, intents>>
    BY <1>2 DEF Start
  <2>5. Limit' = Limit + 1 /\ (Limit - 1)' = Limit
    BY <1>1, <2>4 DEF Limit
  <2>6. view'[Subject] = w /\ \A j \in Node : j # Subject => view'[j] = view[j]
    BY <1>1, <2>1 DEF Inv, w
  <2>7. /\ \A j \in Node : view'[j].clock <= Limit
        /\ \A m \in intents' : m.time < Limit
    BY <1>1, <2>2, <2>3, <2>4, <2>6 DEF Bounds, Below
  <2>8. Below(Limit - 1)'
    BY <2>5, <2>7 DEF Below
  <2>9. Below(Limit)'
    <3>1. /\ \A j \in Node : view'[j].clock \in Nat
          /\ \A m \in intents' : m.time \in Nat
      BY <2>2, <2>3, <2>4, <2>6 DEF Inv, View, TimesAreNatural
    <3>2. QED
      BY <1>1, <2>5, <2>7, <3>1 DEF Below
  <2>10. LivesAreKnown'
    <3>1. SUFFICES ASSUME NEW j \in Node
                   PROVE  /\ view'[j].life \in 0..lives'
                          /\ view'[j].status # "none" => view'[j].life > 0
      BY DEF LivesAreKnown
    <3>2. CASE j = Subject
      BY <1>1, <2>3, <2>4, <2>6, <3>2
    <3>3. CASE j # Subject
      BY <1>1, <2>4, <2>6, <3>3 DEF Bounds, LivesAreKnown
    <3>4. QED
      BY <3>2, <3>3
  <2>11. \A s \in refuting' : s < Limit'
    BY <1>1, <2>4, <2>5 DEF Bounds, Inv, TimesAreNatural
  <2>12. view'[Subject].status # "none"
    BY <2>3, <2>6
  <2>13. lives' <= MaxLives
    BY <1>1, <2>4
  <2>14. QED
    BY <2>4, <2>8, <2>9, <2>10, <2>11, <2>12, <2>13 DEF Bounds
<1>3. CASE Down
  <2> DEFINE w == NewView(v.clock)
  <2>1. w.clock = v.clock /\ w.life = 0 /\ w.status = "none"
    BY DEF NewView
  <2>2. view' = [view EXCEPT ![Subject] = w]
    BY <1>1, <1>3 DEF Down, Inv
  <2> HIDE DEF w
  <2>3. state' = "down" /\ refuting' = {} /\ UNCHANGED <<lives, intents>>
        /\ Limit' = Limit
    BY <1>3 DEF Down, Limit
  <2>4. Below(Limit)'
    BY <2>1, <2>2, <2>3 DEF Bounds, Below, Inv
  <2>5. LivesAreKnown'
    BY <1>1, <2>1, <2>2, <2>3 DEF Bounds, LivesAreKnown, Inv
  <2>6. QED
    BY <2>3, <2>4, <2>5 DEF Bounds
<1>4. QED
  BY <1>2, <1>3

\* What memberlist tells is about lives there were.
LEMMA NodesBounded ==
  ASSUME Inv, Bounds, NEW i \in Node,
         \/ NodeLeave(i)
         \/ i \in Observer /\ (NodeJoin(i) \/ NodeUpdate(i) \/ Reap(i))
  PROVE  Bounds'
<1> DEFINE v == view[i]
<1>1. /\ Sound(v) /\ v \in View /\ v.time \in Nat /\ v.clock \in Nat
      /\ lives \in Nat /\ (i \in Observer => i # Subject)
      /\ v.life \in 0..lives /\ (v.status # "none" => v.life > 0)
  BY DEF Inv, Sound, View, TimesAreNatural, Bounds, LivesAreKnown
<1>2. UNCHANGED <<lives, state, refuting, intents>>
  BY DEF NodeLeave, NodeJoin, NodeUpdate, Reap
<1>3. /\ intents' \subseteq [type : {"join", "leave"}, time : Nat]
      /\ \A s \in refuting' : s < Limit
      /\ \A h \in Nat : Below(h) => v.clock <= h /\ \A m \in intents' : m.time < h
  BY <1>2 DEF Bounds, Below
<1>4. PICK w : /\ view' = [view EXCEPT ![i] = w]
               /\ w.clock = v.clock
               /\ w.life \in 0..lives /\ (w.status # "none" => w.life > 0)
               /\ i = Subject => w.status # "none" /\ w.time = v.time
  <2>1. CASE NodeLeave(i)
    <3>1. view' = [view EXCEPT ![i] = AfterNodeLeave(v)]
      BY <2>1 DEF NodeLeave, Inv
    <3>2. v.status \in {"alive", "leaving"}
      BY <2>1 DEF NodeLeave, Present
    <3>3. /\ AfterNodeLeave(v).clock = v.clock /\ AfterNodeLeave(v).life = v.life
          /\ AfterNodeLeave(v).time = v.time
          /\ AfterNodeLeave(v).status \in {"left", "failed"}
      BY <1>1 DEF AfterNodeLeave, View
    <3>4. QED
      BY <1>1, <3>1, <3>2, <3>3
  <2>2. CASE i \in Observer /\ NodeJoin(i)
    <3> DEFINE w == AfterNodeJoin(v, lives)
    <3>1. view' = [view EXCEPT ![i] = w] /\ lives > 0
      BY <2>2 DEF NodeJoin, Inv
    <3>2. w.clock = v.clock /\ w.life = lives
      BY <1>1, NodeJoinBounds
    <3>3. lives \in 0..lives /\ i # Subject
      BY <1>1, <2>2
    <3> HIDE DEF w
    <3>4. QED
      BY <3>1, <3>2, <3>3
  <2>3. CASE i \in Observer /\ NodeUpdate(i)
    <3> DEFINE w == [v EXCEPT !.life = lives]
    <3>1. view' = [view EXCEPT ![i] = w] /\ v.status # "none"
      BY <2>3 DEF NodeUpdate, Inv, Present
    <3>2. w.clock = v.clock /\ w.life = lives
      BY <1>1 DEF View
    <3>3. lives \in 0..lives /\ lives > 0 /\ i # Subject
      BY <1>1, <2>3, <3>1
    <3> HIDE DEF w
    <3>4. QED
      BY <3>1, <3>2, <3>3
  <2>4. CASE i \in Observer /\ Reap(i)
    <3> DEFINE f == [v EXCEPT !.status = "none", !.time = 0, !.life = 0,
                              !.failed = @ - 1]
               l == [v EXCEPT !.status = "none", !.time = 0, !.life = 0,
                              !.left = @ - 1]
    <3>1. view' = [view EXCEPT ![i] = f] \/ view' = [view EXCEPT ![i] = l]
      BY <2>4 DEF Reap, Inv
    <3>2. /\ f.clock = v.clock /\ f.life = 0 /\ f.status = "none"
          /\ l.clock = v.clock /\ l.life = 0 /\ l.status = "none"
      BY <1>1 DEF View
    <3> HIDE DEF f, l
    <3>3. QED
      BY <1>1, <2>4, <3>1, <3>2
  <2>5. QED
    BY <2>1, <2>2, <2>3, <2>4
<1>5. i = Subject /\ state # "down" =>
        /\ w.status # "none"
        /\ w.time \in Nat /\ w.time >= view[Subject].time
  BY <1>1, <1>4
<1>6. QED
  BY <1>2, <1>3, <1>4, <1>5, OneViewBounded

LEMMA BoundsKept ==
  ASSUME Inv, Bounds, [Next]_vars
  PROVE  Bounds'
<1>1. Observer \subseteq Node /\ Subject \in Node
  BY DEF Node
<1>2. CASE TakeEvent \/ UNCHANGED vars
  <2>1. UNCHANGED <<view, lives, state, refuting, intents>>
    BY <1>2 DEF TakeEvent, vars
  <2>2. QED
    BY <2>1 DEF Bounds, Below, Limit, LivesAreKnown
<1>3. CASE Start \/ Down
  BY <1>3, LivesBounded
<1>4. CASE Join \/ Leave
  BY <1>4, AnnouncementsBounded
<1>5. CASE Refute
  BY <1>5, RefuteBounded
<1>6. CASE NodeLeave(Subject)
  BY <1>1, <1>6, NodesBounded
<1>7. ASSUME NEW i \in Node,
             NotifyMsg(i) \/ \E j \in Node : MergeRemoteState(i, j)
      PROVE  Bounds'
  BY <1>7, MessagesBounded
<1>8. ASSUME NEW i \in Observer,
             \/ NodeJoin(i) \/ NodeUpdate(i) \/ NodeLeave(i)
             \/ Reap(i) \/ RemoveFailedNode(i)
      PROVE  Bounds'
  BY <1>1, <1>8, NodesBounded, AnnouncementsBounded
<1>9. QED
  BY <1>2, <1>3, <1>4, <1>5, <1>6, <1>7, <1>8 DEF Next

-----------------------------------------------------------------------------
(* What the server sees. *)

QueueOK == events \in Seq(Event) /\ Len(events) <= EventLimit

\* The server is not the subject, and its view is one of a life there was.
LEMMA ServerView ==
  ASSUME Inv, Bounds
  PROVE  /\ Server \in Observer /\ Server \in Node /\ Server # Subject
         /\ Sound(view[Server]) /\ view[Server] \in View
         /\ view[Server].status # "none" => view[Server].life \in 1..MaxLives
         /\ lives \in Nat /\ (lives > 0 => lives \in 1..MaxLives)
<1>1. Server \in Observer /\ Server \in Node /\ Server # Subject
  BY DEF Node
<1>2. Sound(view[Server]) /\ view[Server] \in View
  BY <1>1 DEF Inv, Sound
<1>3. lives \in Nat /\ lives <= MaxLives
  BY DEF Inv, TimesAreNatural, Bounds
<1>4. /\ view[Server].life \in 0..lives
      /\ view[Server].status # "none" => view[Server].life > 0
  BY <1>1 DEF Bounds, LivesAreKnown
<1>5. QED
  BY <1>1, <1>2, <1>3, <1>4

\* What an intent changes at the server.
ServerHears ==
  /\ UNCHANGED events
  /\ view'[Server].life = view[Server].life
  /\ <<view[Server].status, view'[Server].status>> \in
       {<<"alive", "leaving">>, <<"failed", "left">>, <<"leaving", "alive">>}

ServerIsTold ==
  NodeJoin(Server) \/ NodeUpdate(Server) \/ NodeLeave(Server) \/ Reap(Server)

LEMMA HeardStatus ==
  ASSUME NEW v, Sound(v), NEW t \in Nat,
         NEW w \in {Witness(v, t), AfterLeaveIntent(v, t), AfterJoinIntent(v, t)}
  PROVE  /\ w.life = v.life
         /\ \/ w.status = v.status
            \/ <<v.status, w.status>> \in
                 {<<"alive", "leaving">>, <<"failed", "left">>,
                  <<"leaving", "alive">>}
<1> DEFINE u == Witness(v, t)
<1>1. u.status = v.status /\ u \in View
  BY WitnessSound DEF Sound
<1>2. w.life = v.life
  BY HeardBounds
<1>3. CASE w = u
  BY <1>1, <1>2, <1>3
<1>4. CASE w = AfterLeaveIntent(v, t)
  <2>1. w = CASE u.status = "none" -> [u EXCEPT !.leaves = Buffer(@, t)]
              [] u.status = "alive" /\ t > u.time ->
                   [u EXCEPT !.status = "leaving", !.time = t]
              [] u.status = "failed" /\ t > u.time ->
                   [u EXCEPT !.status = "left", !.time = t, !.failed = 0,
                             !.left = @ + 1]
              [] OTHER -> u
    BY <1>4 DEF AfterLeaveIntent
  <2> HIDE DEF u
  <2>2. QED
    BY <1>1, <1>2, <2>1 DEF View
<1>5. CASE w = AfterJoinIntent(v, t)
  <2>1. w = CASE u.status = "none" -> [u EXCEPT !.joins = Buffer(@, t)]
              [] u.status # "none" /\ t > u.time ->
                   [u EXCEPT !.time = t,
                             !.status = IF @ = "leaving" THEN "alive" ELSE @]
              [] OTHER -> u
    BY <1>5 DEF AfterJoinIntent
  <2> HIDE DEF u
  <2>2. QED
    BY <1>1, <1>2, <2>1 DEF View
<1>6. QED
  BY <1>3, <1>4, <1>5

\* An intent at node i, whose view but for the clock is v.
LEMMA HearingAtServer ==
  ASSUME Inv, Bounds, NEW i \in Node, NEW v, Sound(v), v.status = view[i].status,
         v.life = view[i].life, NEW t \in Nat,
         \/ HearLeave(i, v, t) \/ HearJoin(i, v, t)
         \/ view' = [view EXCEPT ![i] = v],
         UNCHANGED events
  PROVE  \/ ServerHears
         \/ /\ UNCHANGED events
            /\ view'[Server].status = view[Server].status
            /\ view'[Server].life = view[Server].life
<1>1. Server \in Node
  BY ServerView
<1>2. PICK w \in {v, Witness(v, t), AfterLeaveIntent(v, t),
                  AfterJoinIntent(v, t)} : view' = [view EXCEPT ![i] = w]
  BY DEF HearLeave, HearJoin
<1>3. /\ w.life = v.life
      /\ \/ w.status = v.status
         \/ <<v.status, w.status>> \in
              {<<"alive", "leaving">>, <<"failed", "left">>,
               <<"leaving", "alive">>}
  <2>1. CASE w = v
    BY <2>1
  <2>2. CASE w # v
    BY <2>2, HeardStatus
  <2>3. QED
    BY <2>1, <2>2
<1>4. CASE i = Server
  BY <1>1, <1>2, <1>3, <1>4 DEF Inv, ServerHears
<1>5. CASE i # Server
  BY <1>1, <1>2, <1>5 DEF Inv
<1>6. QED
  BY <1>4, <1>5

\* What the steps are to the server.
ServerSteps ==
  \/ ServerHears \/ ServerIsTold \/ TakeEvent
  \/ /\ UNCHANGED events
     /\ view'[Server].status = view[Server].status
     /\ view'[Server].life = view[Server].life

LEMMA StepsOfTheServer ==
  ASSUME Inv, Bounds, [Next]_vars
  PROVE  ServerSteps
<1>1. Server \in Observer /\ Server \in Node /\ Server # Subject
  BY ServerView
<1>2. CASE TakeEvent \/ UNCHANGED vars
  BY <1>2 DEF ServerSteps, vars
<1>3. CASE \/ Start \/ Join \/ Refute \/ Leave \/ Down \/ NodeLeave(Subject)
  <2>1. UNCHANGED events /\ \E w : view' = [view EXCEPT ![Subject] = w]
    BY <1>1, <1>3
       DEF Start, Join, Refute, BroadcastJoin, Leave, Down, NodeLeave, Send, Inv
  <2>2. view'[Server] = view[Server]
    BY <1>1, <2>1 DEF Inv
  <2>3. QED
    BY <2>1, <2>2 DEF ServerSteps
<1>4. ASSUME NEW i \in Node, NotifyMsg(i)
      PROVE  ServerSteps
  <2>1. PICK m \in intents :
          HearLeave(i, view[i], m.time) \/ HearJoin(i, view[i], m.time)
    BY <1>4 DEF NotifyMsg
  <2>2. m.time \in Nat /\ Sound(view[i]) /\ UNCHANGED events
    BY <1>4 DEF NotifyMsg, Inv, TimesAreNatural
  <2>3. QED
    BY <2>1, <2>2, HearingAtServer DEF ServerSteps
<1>5. ASSUME NEW i \in Node, NEW j \in Node, MergeRemoteState(i, j)
      PROVE  ServerSteps
  <2> DEFINE t == view[j].clock - 1
             v == Witness(view[i], t)
  <2>1. view[j].time \in Nat /\ t \in Nat /\ Sound(view[i])
    BY DEF Inv, Sound, View, Ahead
  <2>2. Sound(v) /\ v.status = view[i].status /\ v.life = view[i].life
    BY <2>1, WitnessSound, HeardBounds
  <2>3. /\ \/ HearLeave(i, v, view[j].time) \/ HearJoin(i, v, view[j].time)
           \/ view' = [view EXCEPT ![i] = v]
        /\ UNCHANGED events
    BY <1>5 DEF MergeRemoteState
  <2> HIDE DEF v
  <2>4. QED
    BY <2>1, <2>2, <2>3, HearingAtServer DEF ServerSteps
<1>6. ASSUME NEW i \in Observer, RemoveFailedNode(i)
      PROVE  ServerSteps
  <2> DEFINE t == view[i].clock
             u == [view[i] EXCEPT !.clock = @ + 1]
  <2>1. i \in Node
    BY DEF Node
  <2>2. t \in Nat /\ Sound(view[i])
    BY <2>1 DEF Inv, Sound, View
  <2>3. Sound(u) /\ u.status = view[i].status /\ u.life = view[i].life
    BY <2>2, TickSound DEF Sound, View
  <2>4. HearLeave(i, u, t) /\ UNCHANGED events
    BY <1>6 DEF RemoveFailedNode
  <2> HIDE DEF u, t
  <2>5. QED
    BY <2>1, <2>2, <2>3, <2>4, HearingAtServer DEF ServerSteps
<1>7. ASSUME NEW i \in Observer,
             NodeJoin(i) \/ NodeUpdate(i) \/ NodeLeave(i) \/ Reap(i)
      PROVE  ServerSteps
  <2>1. CASE i = Server
    BY <1>7, <2>1 DEF ServerSteps, ServerIsTold
  <2>2. CASE i # Server
    <3>1. UNCHANGED events /\ \E w : view' = [view EXCEPT ![i] = w]
      BY <1>7, <2>2 DEF NodeJoin, NodeUpdate, NodeLeave, Reap, Send, Inv
    <3>2. view'[Server] = view[Server]
      BY <1>1, <2>2, <3>1 DEF Inv
    <3>3. QED
      BY <3>1, <3>2 DEF ServerSteps
  <2>3. QED
    BY <2>1, <2>2
<1>8. QED
  BY <1>2, <1>3, <1>4, <1>5, <1>6, <1>7 DEF Next

\* What memberlist tells the server, and the event of it.
Told(v, w, e) ==
  \/ /\ e.type = "join"
     /\ ~ Present(v) /\ w.status \in {"alive", "leaving"}
     /\ w.status = "leaving" => v.status = "none"
  \/ e.type = "update" /\ Present(v) /\ w.status = v.status
  \/ /\ w.life = v.life
     /\ \/ e.type = "leave" /\ v.status = "leaving" /\ w.status = "left"
        \/ e.type = "failed" /\ v.status = "alive" /\ w.status = "failed"

Forgotten(v, w, e) ==
  e.type = "reap" /\ v.status \in {"failed", "left"} /\ w.status = "none"

LEMMA ServerTold ==
  ASSUME Inv, Bounds, ServerIsTold
  PROVE  \E e \in Event :
           /\ Len(events) < EventLimit /\ events' = Append(events, e)
           /\ \/ /\ Told(view[Server], view'[Server], e)
                 /\ e.status = view'[Server].status /\ e.life = view'[Server].life
                 /\ view'[Server].life \in 1..MaxLives
              \/ /\ Forgotten(view[Server], view'[Server], e)
                 /\ e.status = view[Server].status /\ e.life = view[Server].life
<1> DEFINE v == view[Server]
           w == view'[Server]
<1>1. /\ Server \in Observer /\ Server \in Node /\ Server # Subject
      /\ Sound(v) /\ v \in View
      /\ v.status # "none" => v.life \in 1..MaxLives
      /\ lives \in Nat /\ (lives > 0 => lives \in 1..MaxLives)
  BY ServerView
<1>2. CASE NodeJoin(Server)
  <2> DEFINE u == AfterNodeJoin(v, lives)
             e == [type |-> "join", status |-> w.status, life |-> w.life]
  <2>1. /\ lives > 0 /\ ~ Present(v) /\ view' = [view EXCEPT ![Server] = u]
        /\ Len(events) < EventLimit /\ events' = Append(events, e)
    BY <1>2 DEF NodeJoin, Send, Inv
  <2>2. /\ u.life = lives /\ u.status \in {"alive", "leaving"}
        /\ u.status = "leaving" => v.status = "none"
    BY <1>1 DEF AfterNodeJoin, View
  <2>3. w = u
    BY <1>1, <2>1 DEF Inv
  <2> HIDE DEF u, v, w
  <2>4. e \in Event
    BY <1>1, <2>1, <2>2, <2>3 DEF Event
  <2>5. Told(v, w, e)
    BY <2>1, <2>2, <2>3 DEF Told
  <2>6. QED
    BY <1>1, <2>1, <2>2, <2>3, <2>4, <2>5 DEF v, w
<1>3. CASE NodeUpdate(Server)
  <2> DEFINE e == [type |-> "update", status |-> w.status, life |-> w.life]
  <2>1. /\ Present(v) /\ view' = [view EXCEPT ![Server].life = lives]
        /\ v.life # lives
        /\ Len(events) < EventLimit /\ events' = Append(events, e)
    BY <1>3 DEF NodeUpdate, Send
  <2>2. w.life = lives /\ w.status = v.status /\ v.status \in {"alive", "leaving"}
    BY <1>1, <2>1 DEF View, Inv, Present
  <2>3. lives \in 1..MaxLives
    <3>1. v.life \in 0..lives /\ v.life > 0
      BY <1>1, <2>2 DEF Bounds, LivesAreKnown
    <3>2. QED
      BY <1>1, <3>1
  <2> HIDE DEF v, w
  <2>4. e \in Event
    BY <2>2, <2>3 DEF Event
  <2>5. Told(v, w, e)
    BY <2>1, <2>2 DEF Told
  <2>6. QED
    BY <2>1, <2>2, <2>3, <2>4, <2>5 DEF v, w
<1>4. CASE NodeLeave(Server)
  <2> DEFINE u == AfterNodeLeave(v)
             e == [type |-> IF w.status = "left" THEN "leave" ELSE "failed",
                   status |-> w.status, life |-> w.life]
  <2>1. /\ Present(v) /\ view' = [view EXCEPT ![Server] = u]
        /\ Len(events) < EventLimit /\ events' = Append(events, e)
    BY <1>4 DEF NodeLeave, Send, Inv
  <2>2. /\ u.life = v.life /\ v.status \in {"alive", "leaving"}
        /\ u.status = IF v.status = "leaving" THEN "left" ELSE "failed"
    BY <1>1, <2>1 DEF AfterNodeLeave, View, Present
  <2>3. w = u
    BY <1>1, <2>1 DEF Inv
  <2> HIDE DEF u, v, w
  <2>4. e \in Event
    BY <1>1, <2>2, <2>3 DEF Event, v
  <2>5. Told(v, w, e)
    BY <2>2, <2>3 DEF Told
  <2>6. w.life \in 1..MaxLives
    BY <1>1, <2>2, <2>3 DEF v
  <2>7. QED
    BY <2>1, <2>4, <2>5, <2>6 DEF v, w
<1>5. CASE Reap(Server)
  <2> DEFINE e == [type |-> "reap", status |-> v.status, life |-> v.life]
  <2>1. /\ Len(events) < EventLimit /\ events' = Append(events, e)
    BY <1>5 DEF Reap, Send
  <2>2. v.status \in {"failed", "left"} /\ w.status = "none"
    BY <1>1, <1>5 DEF Reap, Inv, View, Sound, Listed
  <2> HIDE DEF v, w
  <2>3. e \in Event
    BY <1>1, <2>2 DEF Event, v
  <2>4. Forgotten(v, w, e)
    BY <2>2 DEF Forgotten
  <2>5. QED
    BY <2>1, <2>3, <2>4 DEF v, w
<1>6. QED
  BY <1>2, <1>3, <1>4, <1>5 DEF ServerIsTold

Complete == Inv /\ Bounds /\ QueueOK

LEMMA InitComplete == Init => Complete
<1> SUFFICES ASSUME Init PROVE Complete
  OBVIOUS
<1>1. Inv
  BY InitInv
<1>2. /\ view = [n \in Node |-> NewView(1)] /\ lives = 0 /\ intents = {}
      /\ refuting = {} /\ state = "down" /\ Subject \in Node
  BY DEF Init, Node
<1>3. Below(Limit)
  BY <1>2 DEF Below, Limit, NewView
<1>4. QED
  BY <1>1, <1>2, <1>3
     DEF Complete, Bounds, LivesAreKnown, NewView, QueueOK, Init

LEMMA CompleteKept ==
  ASSUME Complete, [Next]_vars
  PROVE  Complete'
<1>1. Inv /\ Bounds /\ QueueOK
  BY DEF Complete
<1>2. Inv' /\ Bounds'
  BY <1>1, NextKeeps, BoundsKept
<1>3. ServerSteps
  BY <1>1, StepsOfTheServer
<1>4. QueueOK'
  <2>1. CASE UNCHANGED events
    BY <1>1, <2>1 DEF QueueOK
  <2>2. CASE ServerIsTold
    <3>1. PICK e \in Event : Len(events) < EventLimit /\ events' = Append(events, e)
      BY <1>1, <2>2, ServerTold
    <3>2. QED
      BY <1>1, <3>1 DEF QueueOK
  <2>3. CASE TakeEvent
    BY <1>1, <2>3 DEF QueueOK, TakeEvent
  <2>4. QED
    BY <1>3, <2>1, <2>2, <2>3 DEF ServerSteps, ServerHears
<1>5. QED
  BY <1>2, <1>4 DEF Complete

LEMMA Completeness == Spec => []Complete
<1>1. Complete /\ [Next]_vars => Complete'
  BY CompleteKept
<1>2. QED
  BY InitComplete, <1>1, PTL DEF Spec

LEMMA CompleteTypes == Complete => TypeOK
<1> SUFFICES ASSUME Complete PROVE TypeOK
  OBVIOUS
<1>1. Inv /\ Bounds /\ QueueOK /\ lives \in Nat /\ lives <= MaxLives
      /\ Limit \in Nat /\ Limit <= MaxTime + MaxLives
  BY DEF Complete, Inv, Bounds, TimesAreNatural, Limit
<1>2. \A x \in Nat : x <= Limit => x \in Time
  BY <1>1 DEF Time
<1>3. ASSUME NEW n \in Node
      PROVE  LET v == view[n] IN
             /\ v.clock \in Time /\ v.time \in Time
             /\ v.status \in {"none", "alive", "leaving", "left", "failed"}
             /\ v.life \in 0..MaxLives
             /\ \A ring \in {v.joins, v.leaves} :
                  /\ ring.slots \in [1..RecentLimit -> Time]
                  /\ ring.next \in 1..RecentLimit
             /\ v.failed \in 0..1 /\ v.left \in 0..1
  <2> DEFINE v == view[n]
  <2>1. v \in View /\ Ahead(v) /\ Listed(v) /\ v.clock <= Limit
        /\ v.life \in 0..lives
    BY <1>1 DEF Inv, Sound, Bounds, Below, LivesAreKnown
  <2> HIDE DEF v
  <2>2. /\ v.clock \in Nat /\ v.time \in Nat
        /\ v.joins \in Ring /\ v.leaves \in Ring
        /\ v.status \in {"none", "alive", "leaving", "left", "failed"}
    BY <2>1 DEF View
  <2>3. v.clock \in Time /\ v.time \in Time /\ v.life \in 0..MaxLives
    BY <1>1, <1>2, <2>1, <2>2 DEF Ahead
  <2>4. ASSUME NEW ring \in {v.joins, v.leaves}
        PROVE  /\ ring.slots \in [1..RecentLimit -> Time]
               /\ ring.next \in 1..RecentLimit
    <3>1. ring.slots \in [1..RecentLimit -> Nat] /\ ring.next \in 1..RecentLimit
      BY <2>2 DEF Ring
    <3>2. \A k \in 1..RecentLimit : ring.slots[k] < v.clock
      BY <2>1 DEF Ahead
    <3>3. \A k \in 1..RecentLimit : ring.slots[k] \in Time
      BY <1>1, <1>2, <2>1, <2>2, <3>1, <3>2
    <3>4. QED
      BY <3>1, <3>3
  <2>5. v.failed \in 0..1 /\ v.left \in 0..1
    BY <2>1 DEF Listed
  <2>6. QED
    BY <2>2, <2>3, <2>4, <2>5 DEF v
<1>4. refuting \subseteq Time
  BY <1>1, <1>2 DEF Bounds, Inv, TimesAreNatural
<1>5. intents \subseteq Intent
  <2>1. SUFFICES ASSUME NEW m \in intents PROVE m \in Intent
    OBVIOUS
  <2>2. m \in [type : {"join", "leave"}, time : Nat] /\ m.time < Limit
    BY <1>1 DEF Bounds, Below
  <2>3. m.time \in Time
    BY <1>1, <1>2, <2>2
  <2>4. QED
    BY <2>2, <2>3 DEF Intent
<1>6. lives \in 0..MaxLives /\ state \in {"down", "alive", "leaving"}
  BY <1>1 DEF Bounds
<1>7. QED
  BY <1>1, <1>3, <1>4, <1>5, <1>6 DEF TypeOK, QueueOK

-----------------------------------------------------------------------------
(* The gossip that Membership starts from.  The table has one row, Seen of   *)
(* the server's view; the lemmas say what each action of Gossip comes to.    *)

Row(v) == [n \in {Subject} |-> Seen(v)]

\* An event as Gossip has it.
Entry(e) == [type |-> e.type, node |-> Subject, member |-> Seen(e)]
Entries(es) == [k \in DOMAIN es |-> Entry(es[k])]

LEMMA RowChanges ==
  ASSUME NEW v, NEW w
  PROVE  Row(v)[Subject] = Seen(v) /\ Row(w) = [Row(v) EXCEPT ![Subject] = Seen(w)]
  BY DEF Row

LEMMA EntryAppended ==
  ASSUME NEW es \in Seq(Event), NEW e \in Event
  PROVE  /\ Entries(Append(es, e)) = Append(Entries(es), Entry(e))
         /\ Len(Entries(es)) = Len(es)
<1>1. DOMAIN es = 1..Len(es) /\ Len(es) \in Nat
  OBVIOUS
<1> DEFINE S == {Entry(x) : x \in Event}
<1>2. Entries(es) \in [1..Len(es) -> S]
  <2>1. \A k \in DOMAIN es : es[k] \in Event
    BY <1>1
  <2>2. QED
    BY <1>1, <2>1 DEF Entries
<1>3. Entries(es) \in Seq(S) /\ Len(Entries(es)) = Len(es)
  BY <1>1, <1>2
<1>4. Entry(e) \in S
  OBVIOUS
<1> HIDE DEF S
<1> DEFINE f == Entries(Append(es, e))
           g == Append(Entries(es), Entry(e))
<1>5. /\ DOMAIN g = 1..(Len(es) + 1)
      /\ \A k \in 1..(Len(es) + 1) :
           g[k] = IF k = Len(es) + 1 THEN Entry(e) ELSE Entries(es)[k]
      /\ g = [k \in 1..(Len(es) + 1) |-> g[k]]
  <2>1. g \in Seq(S) /\ Len(g) = Len(es) + 1
    BY <1>3, <1>4
  <2>2. g \in [1..(Len(es) + 1) -> S]
    <3> HIDE DEF g
    <3>1. g \in [1..Len(g) -> S]
      BY <2>1
    <3>2. QED
      BY <2>1, <3>1
  <2>3. \A k \in 1..(Len(es) + 1) :
          g[k] = IF k = Len(es) + 1 THEN Entry(e) ELSE Entries(es)[k]
    BY <1>1, <1>3, <1>4
  <2> HIDE DEF g
  <2>4. QED
    BY <2>2, <2>3
<1>6. /\ DOMAIN Append(es, e) = 1..(Len(es) + 1)
      /\ \A k \in 1..(Len(es) + 1) :
           Append(es, e)[k] = IF k = Len(es) + 1 THEN e ELSE es[k]
  BY <1>1
<1>7. f = [k \in 1..(Len(es) + 1) |-> Entry(Append(es, e)[k])]
  BY <1>6 DEF Entries
<1>8. \A k \in 1..(Len(es) + 1) : Entry(Append(es, e)[k]) = g[k]
  <2>1. ASSUME NEW k \in 1..(Len(es) + 1)
        PROVE  Entry(Append(es, e)[k]) = g[k]
    <3>1. CASE k = Len(es) + 1
      BY <1>1, <1>5, <1>6, <3>1
    <3>2. CASE k # Len(es) + 1
      <4>1. k \in DOMAIN es
        BY <1>1, <3>2
      <4>2. Append(es, e)[k] = es[k] /\ g[k] = Entries(es)[k]
        BY <1>1, <1>5, <1>6, <3>2
      <4>3. Entries(es)[k] = Entry(es[k])
        BY <4>1 DEF Entries
      <4>4. QED
        BY <4>2, <4>3
    <3>3. QED
      BY <3>1, <3>2
  <2>2. QED
    BY <2>1
<1> HIDE DEF f, g
<1>9. f = g
  BY <1>5, <1>7, <1>8
<1>10. QED
  BY <1>3, <1>9 DEF f, g

\* What Gossip's table and queue are.
LEMMA Mapped ==
  /\ [n \in {Subject} |-> Seen(view[Server])] = Row(view[Server])
  /\ [k \in DOMAIN events |->
        [type |-> events[k].type, node |-> Subject, member |-> Seen(events[k])]]
       = Entries(events)
  BY DEF Row, Entries, Entry

\* An intent at the server is one of Gossip.
LEMMA HearsIntent ==
  ASSUME Complete, ServerHears
  PROVE  G!Intent(Subject)
<1> DEFINE v == view[Server]
           w == view'[Server]
<1>1. /\ UNCHANGED events /\ w.life = v.life
      /\ <<v.status, w.status>> \in
           {<<"alive", "leaving">>, <<"failed", "left">>, <<"leaving", "alive">>}
  BY DEF ServerHears
<1>2. /\ v.status # "none"
      /\ Seen(v).status = v.status
      /\ Seen(w) = [Seen(v) EXCEPT !.status = w.status]
  <2>1. v.status # "none" /\ w.status # "none"
    BY <1>1
  <2> DEFINE tags == [server |-> TRUE, cluster |-> "one", port |-> 1,
                      bootstrap |-> v.life = 1]
  <2>2. Seen(v) = [addr |-> "home", status |-> v.status, tags |-> tags]
    BY <2>1 DEF Seen
  <2>3. Seen(w) = [addr |-> "home", status |-> w.status, tags |-> tags]
    BY <1>1, <2>1 DEF Seen
  <2> HIDE DEF tags
  <2>4. QED
    BY <2>1, <2>2, <2>3
<1> HIDE DEF v, w
<1> DEFINE t == [n \in {Subject} |-> Seen(v)]
           s == [n \in {Subject} |-> Seen(w)]
<1>3. t[Subject] = Seen(v) /\ s = [t EXCEPT ![Subject] = Seen(w)]
  OBVIOUS
<1>4. /\ t[Subject].status = v.status
      /\ s = [t EXCEPT ![Subject].status = w.status]
  BY <1>2, <1>3
<1> HIDE DEF t, s
<1>5. \/ t[Subject].status = "alive" /\ s = [t EXCEPT ![Subject].status = "leaving"]
      \/ t[Subject].status = "failed" /\ s = [t EXCEPT ![Subject].status = "left"]
      \/ t[Subject].status = "leaving" /\ s = [t EXCEPT ![Subject].status = "alive"]
  BY <1>1, <1>4
<1>6. QED
  BY <1>1, <1>5 DEF G!Intent, t, s, v, w

\* The tags of a life, which mergeDelegate accepts.
TagsOf(life) ==
  [server |-> TRUE, cluster |-> "one", port |-> 1, bootstrap |-> life = 1]

LEMMA KnownIsSeen ==
  ASSUME NEW v, v.status # "none"
  PROVE  Seen(v) = [addr |-> "home", status |-> v.status, tags |-> TagsOf(v.life)]
  BY DEF Seen, TagsOf

LEMMA TagsAccepted ==
  ASSUME NEW life, NEW m, m.tags = TagsOf(life)
  PROVE  /\ TagsOf(life) \in
              {[server |-> TRUE, cluster |-> "one", port |-> 1, bootstrap |-> b] :
                 b \in BOOLEAN}
         /\ G!NotifyMerge({m})
<1>1. TagsOf(life) \in
        {[server |-> TRUE, cluster |-> "one", port |-> 1, bootstrap |-> b] :
           b \in BOOLEAN}
  <2>1. PICK b \in BOOLEAN : b = (life = 1)
    OBVIOUS
  <2>2. TagsOf(life) =
          [server |-> TRUE, cluster |-> "one", port |-> 1, bootstrap |-> b]
    BY <2>1 DEF TagsOf
  <2>3. QED
    BY <2>2
<1>2. /\ m.tags.server /\ m.tags.cluster = "one" /\ m.tags.port = 1
  <2>1. PICK b : b = (life = 1)
    OBVIOUS
  <2>2. m.tags = [server |-> TRUE, cluster |-> "one", port |-> 1, bootstrap |-> b]
    BY <2>1 DEF TagsOf
  <2>3. QED
    BY <2>2
<1>3. QED
  BY <1>1, <1>2 DEF G!NotifyMerge, G!IsServer

\* What memberlist tells the server is one of Gossip's changes.
LEMMA ToldIsChange ==
  ASSUME Complete, ServerIsTold
  PROVE  G!Change(Subject)
<1> DEFINE v == view[Server]
           w == view'[Server]
           q == [k \in DOMAIN events |->
                   [type |-> events[k].type, node |-> Subject,
                    member |-> Seen(events[k])]]
           t == [n \in {Subject} |-> Seen(v)]
           s == [n \in {Subject} |-> Seen(w)]
<1>1. PICK e \in Event :
        /\ Len(events) < EventLimit /\ events' = Append(events, e)
        /\ \/ /\ Told(v, w, e)
              /\ e.status = w.status /\ e.life = w.life
           \/ /\ Forgotten(v, w, e)
              /\ e.status = v.status /\ e.life = v.life
  BY ServerTold DEF Complete
<1>2. /\ q' = Append(q, Entry(e)) /\ Len(q) < EventLimit
  <2>1. events \in Seq(Event) /\ q = Entries(events) /\ q' = Entries(events')
    BY DEF Complete, QueueOK, Entries, Entry
  <2> HIDE DEF q
  <2>2. QED
    BY <1>1, <2>1, EntryAppended
<1>3. /\ t[Subject] = Seen(v) /\ s[Subject] = Seen(w)
      /\ s = [t EXCEPT ![Subject] = Seen(w)]
  OBVIOUS
<1>4. CASE Told(v, w, e) /\ e.status = w.status /\ e.life = w.life
  <2>1. w.status # "none" /\ e.status # "none"
    BY <1>4 DEF Told, Present
  <2>2. /\ Seen(w) = [addr |-> "home", status |-> w.status,
                      tags |-> TagsOf(w.life)]
        /\ Seen(e) = Seen(w)
    BY <1>4, <2>1, KnownIsSeen
  <2>3. Entry(e) = [type |-> e.type, node |-> Subject, member |-> s[Subject]]
    BY <1>3, <2>2 DEF Entry
  <2>4. Seen(v) = IF v.status = "none" THEN [status |-> "none"]
                  ELSE [addr |-> "home", status |-> v.status,
                        tags |-> TagsOf(v.life)]
    BY KnownIsSeen DEF Seen
  <2>5. t[Subject].status = v.status
    BY <1>3, <2>4
  <2>6. CASE /\ e.type = "join"
             /\ ~ Present(v) /\ w.status \in {"alive", "leaving"}
             /\ w.status = "leaving" => v.status = "none"
    <3> DEFINE m == [addr |-> "home", tags |-> TagsOf(w.life), status |-> w.status]
    <3>1. m = Seen(w) /\ m.tags = TagsOf(w.life)
      BY <2>2
    <3> HIDE DEF m
    <3>2. G!NotifyMerge({m}) /\ TagsOf(w.life) \in
            {[server |-> TRUE, cluster |-> "one", port |-> 1, bootstrap |-> b] :
               b \in BOOLEAN}
      BY <3>1, TagsAccepted
    <3>3. ~ G!Present(Subject)
      BY <2>5, <2>6 DEF G!Present, Present
    <3>4. w.status = "leaving" => t[Subject] = G!Unknown
      BY <1>3, <2>4, <2>6 DEF G!Unknown
    <3>5. s = [t EXCEPT ![Subject] = m]
      BY <1>3, <3>1
    <3>6. G!Report("join", Subject)
      BY <1>2, <2>3, <2>6 DEF G!Report
    <3> HIDE DEF w
    <3>7. /\ "home" \in [n \in {Subject} |-> {"home"}][Subject]
          /\ TagsOf(w.life) \in
               [n \in {Subject} |->
                  {[server |-> TRUE, cluster |-> "one", port |-> 1,
                    bootstrap |-> b] : b \in BOOLEAN}][Subject]
      BY <3>2
    <3>8. G!NodeJoin(Subject)
      BY <2>6, <3>2, <3>3, <3>4, <3>5, <3>6, <3>7 DEF G!NodeJoin, m, w
    <3>9. QED
      BY <3>8 DEF G!Change
  <2>7. CASE e.type = "update" /\ Present(v) /\ w.status = v.status
    <3> DEFINE m == [t[Subject] EXCEPT !.tags = TagsOf(w.life)]
    <3>1. /\ Seen(v) = [addr |-> "home", status |-> v.status,
                        tags |-> TagsOf(v.life)]
      BY <2>4, <2>7 DEF Present
    <3>2. m = Seen(w) /\ m.tags = TagsOf(w.life)
      BY <1>3, <2>2, <2>7, <3>1
    <3>3. G!NotifyMerge({m}) /\ TagsOf(w.life) \in
            {[server |-> TRUE, cluster |-> "one", port |-> 1, bootstrap |-> b] :
               b \in BOOLEAN}
      BY <3>2, TagsAccepted
    <3>4. G!Present(Subject)
      BY <2>5, <2>7 DEF G!Present, Present
    <3>5. s = [t EXCEPT ![Subject].tags = TagsOf(w.life)]
      BY <1>3, <3>2
    <3>6. G!Report("update", Subject)
      BY <1>2, <2>3, <2>7 DEF G!Report
    <3>7. TagsOf(w.life) \in
            [n \in {Subject} |->
               {[server |-> TRUE, cluster |-> "one", port |-> 1,
                 bootstrap |-> b] : b \in BOOLEAN}][Subject]
      BY <3>3
    <3>8. G!NodeUpdate(Subject)
      BY <3>3, <3>4, <3>5, <3>6, <3>7 DEF G!NodeUpdate
    <3>9. QED
      BY <3>8 DEF G!Change
  <2>8. CASE /\ w.life = v.life
             /\ \/ e.type = "leave" /\ v.status = "leaving" /\ w.status = "left"
                \/ e.type = "failed" /\ v.status = "alive" /\ w.status = "failed"
    <3>1. Seen(w) = [Seen(v) EXCEPT !.status = w.status]
      BY <2>2, <2>4, <2>8
    <3>2. s = [t EXCEPT ![Subject].status = w.status]
      BY <1>3, <3>1
    <3>3. G!Report(e.type, Subject)
      BY <1>2, <2>3 DEF G!Report
    <3>4. G!NodeLeave(Subject)
      BY <2>5, <2>8, <3>2, <3>3 DEF G!NodeLeave
    <3>5. QED
      BY <3>4 DEF G!Change
  <2>9. QED
    BY <1>4, <2>6, <2>7, <2>8 DEF Told
<1>5. CASE Forgotten(v, w, e) /\ e.status = v.status /\ e.life = v.life
  <2>1. /\ e.type = "reap" /\ v.status \in {"failed", "left"}
        /\ w.status = "none" /\ e.status # "none" /\ v.status # "none"
    BY <1>5 DEF Forgotten
  <2>2. Seen(e) = Seen(v) /\ Seen(v).status = v.status /\ Seen(w) = G!Unknown
    BY <1>5, <2>1 DEF Seen, G!Unknown
  <2>3. Entry(e) = [type |-> "reap", node |-> Subject, member |-> t[Subject]]
    BY <1>3, <2>1, <2>2 DEF Entry
  <2>4. t[Subject].status \in {"left", "failed"}
        /\ s = [t EXCEPT ![Subject] = G!Unknown]
    BY <1>3, <2>1, <2>2
  <2>5. G!Reap(Subject)
    BY <1>2, <2>3, <2>4 DEF G!Reap
  <2>6. QED
    BY <2>5 DEF G!Change
<1>6. QED
  BY <1>1, <1>4, <1>5

LEMMA StepIsGossip ==
  ASSUME Complete, [Next]_vars
  PROVE  [G!Change(Subject) \/ TakeEvent]_(G!gossipVars)
<1>1. ServerSteps
  BY StepsOfTheServer DEF Complete
<1>2. CASE ServerHears
  BY <1>2, HearsIntent DEF G!Change
<1>3. CASE ServerIsTold
  BY <1>3, ToldIsChange
<1>4. CASE TakeEvent
  BY <1>4
<1>5. CASE /\ UNCHANGED events
           /\ view'[Server].status = view[Server].status
           /\ view'[Server].life = view[Server].life
  <2>1. Seen(view'[Server]) = Seen(view[Server])
    BY <1>5 DEF Seen
  <2>2. UNCHANGED G!gossipVars
    BY <1>5, <2>1 DEF G!gossipVars
  <2>3. QED
    BY <2>2
<1>6. QED
  BY <1>1, <1>2, <1>3, <1>4, <1>5 DEF ServerSteps

-----------------------------------------------------------------------------

\* A member is on the list of the failed or of the left exactly once, and only
\* while it is one of them.
THEOREM ListsAreRight == Spec => []ListsTellStatuses
<1>1. Inv => ListsTellStatuses
  BY DEF Inv, Sound, Listed, ListsTellStatuses
<1>2. QED
  BY Invariant, <1>1, PTL

\* A node's clock is ahead of every time it has heard of.
THEOREM ClocksAreAhead == Spec => []TimesAreInThePast
<1>1. Inv => TimesAreInThePast
  BY DEF Inv, Sound, Ahead, TimesAreInThePast
<1>2. QED
  BY Invariant, <1>1, PTL

\* A subject that did not leave never believes that it does.
THEOREM NobodyIsMadeToLeave == Spec => []OnlyLeaveLeaves
<1>1. Inv => OnlyLeaveLeaves
  BY DEF Inv
<1>2. QED
  BY Invariant, <1>1, PTL

\* No late or repeated message takes the entry of the subject back in time.
THEOREM EntriesOnlyAge == Spec => TimesNeverGoBack
<1>1. Inv /\ [Next]_vars => NoStepBack
  BY NextKeeps
<1>2. NoStepBack =>
        [\A i \in Observer :
           view[i].status # "none" /\ view'[i].status # "none"
             => view'[i].time >= view[i].time]_vars
  BY DEF NoStepBack
<1>3. QED
  BY Invariant, <1>1, <1>2, PTL DEF Spec, TimesNeverGoBack

\* Types and bounds: no time is later than the last one at which an intent may
\* be made, but for one refutation in every life of the subject.
THEOREM TypeCorrect == Spec => []TypeOK
<1>1. QED
  BY Completeness, CompleteTypes, PTL

\* The table and the events of one member at the server are a behaviour of
\* Gossip, from which Membership starts.
THEOREM GossipIsImplemented == Spec => ImplementsGossip
<1>1. Init => G!GossipInit
  <2>1. SUFFICES ASSUME Init PROVE G!GossipInit
    OBVIOUS
  <2>2. Server \in Node /\ Seen(NewView(1)) = [status |-> "none"]
    BY DEF Node, Seen, NewView
  <2>3. view[Server] = NewView(1) /\ events = <<>>
    BY <2>1, <2>2 DEF Init
  <2>4. QED
    BY <2>2, <2>3 DEF G!GossipInit, G!Unknown
<1>2. Complete /\ [Next]_vars => [G!Change(Subject) \/ TakeEvent]_(G!gossipVars)
  BY StepIsGossip
<1>3. QED
  BY Completeness, <1>1, <1>2, PTL DEF Spec, ImplementsGossip
=============================================================================
