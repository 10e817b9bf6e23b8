----------------------------- MODULE SnapshotProofs -----------------------------
(***************************************************************************)
(* What the snapshot tells, for any members, clocks, sizes and errors.     *)
(* Replay is a recursive function, of which little can be cited: that it   *)
(* exists, what it is at every half and that it depends only on the halves *)
(* before are proved here from a least counterexample each.                *)
(***************************************************************************)
EXTENDS Snapshot, FiniteSetTheorems, WellFoundedInduction, TLAPS

USE SnapshotAssumption

-----------------------------------------------------------------------------
(* Replay. *)

\* A set of numbers that is not empty has a least one.
LEMMA LeastElement ==
  ASSUME NEW T, T \subseteq Nat, T # {}
  PROVE  \E x \in T : \A y \in T : x <= y
<1> DEFINE R == OpToRel(<, Nat)
<1>1. IsWellFoundedOn(R, Nat)
  BY NatLessThanWellFounded
<1>2. \A x, y \in Nat : <<y, x>> \in R <=> y < x
  BY DEF OpToRel
<1> HIDE DEF R
<1>3. PICK x \in T : \A y \in T : ~ (<<y, x>> \in R)
  BY <1>1, WFMin
<1>4. SUFFICES ASSUME NEW y \in T PROVE x <= y
  OBVIOUS
<1>5. x \in Nat /\ y \in Nat
  OBVIOUS
<1>6. ~ (y < x)
  BY <1>2, <1>3, <1>5, Zenon
<1>7. QED
  BY <1>5, <1>6

ReadsTo(f, n, g) ==
  g = [i \in 0..n |->
         IF i = 0 THEN Nothing ELSE Replayed(g[i - 1], LineAt(f, i))]

\* What replay knows after each half.
Read(f) == CHOOSE g : ReadsTo(f, Len(f), g)

LEMMA ReadingExists ==
  ASSUME NEW f, NEW m \in Nat
  PROVE  \E g : ReadsTo(f, m, g)
<1> DEFINE T == {n \in Nat : ~ \E g : ReadsTo(f, n, g)}
<1>1. SUFFICES ASSUME T # {} PROVE FALSE
  OBVIOUS
<1>2. PICK n \in T : \A k \in T : n <= k
  <2>1. T \subseteq Nat
    OBVIOUS
  <2> HIDE DEF T
  <2>2. QED
    BY <1>1, <2>1, LeastElement
<1>3. n \in Nat /\ ~ \E g : ReadsTo(f, n, g)
  BY <1>2
<1>4. CASE n = 0
  <2> DEFINE g == [i \in 0..0 |-> Nothing]
  <2>1. ReadsTo(f, 0, g)
    BY DEF ReadsTo
  <2>2. QED
    BY <1>3, <1>4, <2>1
<1>5. CASE n # 0
  <2>1. n - 1 \in Nat /\ ~ (n - 1 \in T)
    BY <1>2, <1>3, <1>5
  <2>2. PICK g : ReadsTo(f, n - 1, g)
    BY <2>1
  <2> DEFINE Next1(h, i) ==
               IF i = 0 THEN Nothing
                 ELSE Replayed(h[i - 1], LineAt(f, i))
             h == [i \in 0..n |-> Next1(g, i)]
  <2>3. g = [i \in 0..(n - 1) |-> Next1(g, i)]
    BY <2>2 DEF ReadsTo
  <2>4. \A i \in 0..(n - 1) : g[i] = h[i]
    <3> HIDE DEF Next1
    <3>1. \A i \in 0..(n - 1) : i \in 0..n
      BY <1>3
    <3>2. QED
      BY <2>3, <3>1
  <2>5. \A i \in 0..n : Next1(g, i) = Next1(h, i)
    <3>1. SUFFICES ASSUME NEW i \in 0..n, i # 0 PROVE g[i - 1] = h[i - 1]
      BY DEF Next1
    <3>2. i - 1 \in 0..(n - 1)
      BY <1>3, <3>1
    <3> HIDE DEF h
    <3>3. QED
      BY <2>4, <3>2
  <2>6. h = [i \in 0..n |-> Next1(h, i)]
    <3> HIDE DEF Next1
    <3>1. h = [i \in 0..n |-> Next1(g, i)]
      OBVIOUS
    <3> HIDE DEF h
    <3>2. QED
      BY <2>5, <3>1, Zenon
  <2>7. ReadsTo(f, n, h)
    <3> HIDE DEF h
    <3>1. QED
      BY <2>6 DEF ReadsTo
  <2>8. QED
    BY <1>3, <2>7
<1>6. QED
  BY <1>4, <1>5

LEMMA Reading ==
  ASSUME NEW S, NEW f \in Seq(S)
  PROVE  /\ Read(f)[0] = Nothing
         /\ \A i \in 1..Len(f) :
              Read(f)[i] = Replayed(Read(f)[i - 1], LineAt(f, i))
         /\ Replay(f) = Read(f)[Len(f)]
<1>1. Len(f) \in Nat
  OBVIOUS
<1>2. ReadsTo(f, Len(f), Read(f))
  BY <1>1, ReadingExists DEF Read
<1> DEFINE g == Read(f)
<1>3. g = [i \in 0..Len(f) |->
             IF i = 0 THEN Nothing ELSE Replayed(g[i - 1], LineAt(f, i))]
  BY <1>2 DEF ReadsTo
<1>4. \A i \in 0..Len(f) :
        g[i] = IF i = 0 THEN Nothing ELSE Replayed(g[i - 1], LineAt(f, i))
  <2> HIDE DEF g
  <2>1. QED
    BY <1>3, Zenon
<1>5. Replay(f) = g[Len(f)]
  BY DEF Replay, Read, ReadsTo
<1> HIDE DEF g
<1>6. 0 \in 0..Len(f) /\ \A i \in 1..Len(f) : i \in 0..Len(f) /\ i # 0
  BY <1>1
<1>7. QED
  BY <1>4, <1>5, <1>6 DEF g

LEMMA NothingRead == \A t : Replayed(t, NoLine) = t
  BY DEF Replayed, NoLine, Clocks

LEMMA ReplayedType ==
  ASSUME NEW t \in Told, NEW l \in Lines \cup {NoLine}
  PROVE  Replayed(t, l) \in Told
<1>1. CASE l \in {"alive", "not-alive"} \X Node
  <2>1. l[1] \in {"alive", "not-alive"} /\ l[2] \in Node
    BY <1>1
  <2>2. QED
    BY <2>1 DEF Replayed, Told, Clocks
<1>2. CASE l \in Clocks \X (0..MaxClock)
  <2>1. l[1] \in Clocks /\ l[2] \in 0..MaxClock
    BY <1>2
  <2>2. l[1] # "alive" /\ l[1] # "not-alive"
    BY <2>1 DEF Clocks
  <2>3. Replayed(t, l) = [t EXCEPT !.last[l[1]] = l[2]]
    BY <2>1, <2>2 DEF Replayed
  <2>4. t.last \in [Clocks -> 0..MaxClock]
    BY DEF Told
  <2>5. [t.last EXCEPT ![l[1]] = l[2]] \in [Clocks -> 0..MaxClock]
    BY <2>1, <2>4
  <2>6. QED
    BY <2>3, <2>5 DEF Told
<1>3. CASE l = <<"leave", "leave">>
  BY <1>3 DEF Replayed, Clocks
<1>4. CASE l = NoLine
  BY <1>4, NothingRead
<1>5. QED
  BY <1>1, <1>2, <1>3, <1>4 DEF Lines

\* Two lines that are glued together are read as a line, or as none.
LEMMA GluedType ==
  ASSUME NEW h \in Lines, NEW l \in Lines
  PROVE  Glued(h, l) \in Lines \cup {NoLine}
<1>1. CASE HarmfulCuts /\ h[1] = "event-clock" /\ l[1] = "clock"
  <2>1. Glued(h, l) = <<"event-clock", l[2]>>
    BY <1>1 DEF Glued
  <2>2. l[2] \in 0..MaxClock
    BY <1>1 DEF Lines
  <2>3. QED
    BY <2>1, <2>2 DEF Lines, Clocks
<1>2. CASE ~ (HarmfulCuts /\ h[1] = "event-clock" /\ l[1] = "clock")
  BY <1>2 DEF Glued
<1>3. QED
  BY <1>1, <1>2

LEMMA LineAtType ==
  ASSUME NEW f \in Seq(Half), NEW i \in 1..Len(f)
  PROVE  LineAt(f, i) \in Lines \cup {NoLine}
<1>1. \A k \in 1..Len(f) : f[k][1] \in Lines
  <2>1. SUFFICES ASSUME NEW k \in 1..Len(f) PROVE f[k][1] \in Lines
    OBVIOUS
  <2>2. f[k] \in Lines \X {1, 2}
    BY DEF Half
  <2>3. QED
    BY <2>2
<1>2. i > 2 => i - 2 \in 1..Len(f)
  OBVIOUS
<1>3. i > 2 => Glued(f[i - 2][1], f[i][1]) \in Lines \cup {NoLine}
  BY <1>1, <1>2, GluedType
<1>4. QED
  BY <1>1, <1>3 DEF LineAt

LEMMA ReadType ==
  ASSUME NEW f \in Seq(Half)
  PROVE  \A i \in 0..Len(f) : Read(f)[i] \in Told
<1> DEFINE T == {i \in 0..Len(f) : Read(f)[i] \notin Told}
<1>1. SUFFICES ASSUME T # {} PROVE FALSE
  OBVIOUS
<1>2. PICK i \in T : \A k \in T : i <= k
  <2>1. T \subseteq Nat
    OBVIOUS
  <2> HIDE DEF T
  <2>2. QED
    BY <1>1, <2>1, LeastElement
<1>3. i \in 0..Len(f) /\ Read(f)[i] \notin Told
  BY <1>2
<1>4. Nothing \in Told
  BY DEF Nothing, Told
<1>5. i # 0
  BY <1>3, <1>4, Reading
<1>6. i \in 1..Len(f) /\ i - 1 \in 0..Len(f)
  BY <1>3, <1>5
<1>7. i - 1 \notin T
  BY <1>2, <1>3
<1>8. Read(f)[i - 1] \in Told
  BY <1>6, <1>7
<1>9. Replayed(Read(f)[i - 1], LineAt(f, i)) \in Told
  BY <1>6, <1>8, LineAtType, ReplayedType
<1>10. QED
  BY <1>3, <1>6, <1>9, Reading

\* What replay knows depends on what came before.
LEMMA ReadPrefix ==
  ASSUME NEW f \in Seq(Half), NEW h \in Seq(Half), NEW n \in Nat,
         n <= Len(f), n <= Len(h), \A i \in 1..n : f[i] = h[i]
  PROVE  \A i \in 0..n : Read(f)[i] = Read(h)[i]
<1> DEFINE T == {i \in 0..n : Read(f)[i] # Read(h)[i]}
<1>1. SUFFICES ASSUME T # {} PROVE FALSE
  OBVIOUS
<1>2. PICK i \in T : \A k \in T : i <= k
  <2>1. T \subseteq Nat
    OBVIOUS
  <2> HIDE DEF T
  <2>2. QED
    BY <1>1, <2>1, LeastElement
<1>3. i \in 0..n /\ Read(f)[i] # Read(h)[i]
  BY <1>2
<1>4. i # 0
  BY <1>3, Reading
<1>5. i \in 1..n /\ i \in 1..Len(f) /\ i \in 1..Len(h) /\ i - 1 \in 0..n
  BY <1>3, <1>4
<1>6. i - 1 \notin T
  BY <1>2, <1>3
<1>7. Read(f)[i - 1] = Read(h)[i - 1]
  BY <1>5, <1>6
<1>8. f[i] = h[i]
  BY <1>5
<1>9. LineAt(f, i) = LineAt(h, i)
  <2>1. i > 1 => f[i - 1] = h[i - 1]
    BY <1>5
  <2>2. i > 2 => f[i - 2] = h[i - 2]
    BY <1>5
  <2>3. i > 3 => f[i - 3] = h[i - 3]
    BY <1>5
  <2>4. QED
    BY <1>8, <2>1, <2>2, <2>3 DEF LineAt
<1>10. QED
  BY <1>3, <1>5, <1>7, <1>8, <1>9, Reading

\* A line more is known once its second half is there.
LEMMA ReadLine ==
  ASSUME NEW f \in Seq(Half), NEW l \in Lines
  PROVE  LET g == f \o Halves(l) IN
         /\ g \in Seq(Half) /\ Len(g) = Len(f) + 2
         /\ \A i \in 0..Len(f) : Read(g)[i] = Read(f)[i]
         /\ Read(g)[Len(f) + 1] = Replay(f)
         /\ ~ Torn(f) => Replay(g) = Replayed(Replay(f), l)
         /\ Torn(f) => /\ Last(f)[1] \in Lines
                       /\ \E m \in {NoLine, Glued(Last(f)[1], l)} :
                            Replay(g) = Replayed(Replay(f), m)
         /\ ~ Torn(g)
<1> DEFINE g == f \o Halves(l)
           n == Len(f)
<1>1. n \in Nat /\ Halves(l) \in Seq(Half) /\ Len(Halves(l)) = 2
  BY DEF Halves, Half
<1>2. /\ g \in Seq(Half) /\ Len(g) = n + 2
      /\ \A i \in 1..n : g[i] = f[i]
      /\ g[n + 1] = <<l, 1>> /\ g[n + 2] = <<l, 2>>
  BY <1>1 DEF Halves
<1> HIDE DEF g
<1>3. \A i \in 0..n : Read(g)[i] = Read(f)[i]
  <2>1. n <= Len(f) /\ n <= Len(g) /\ g \in Seq(Half)
    BY <1>1, <1>2
  <2>2. \A i \in 1..n : g[i] = f[i]
    BY <1>2
  <2> HIDE DEF n
  <2>3. QED
    BY <1>1, <2>1, <2>2, ReadPrefix
<1>4. Replay(f) = Read(f)[n] /\ Read(g)[n] = Read(f)[n]
      /\ Replay(g) = Read(g)[n + 2]
  BY <1>1, <1>2, <1>3, Reading
<1>5. Read(g)[n + 1] = Replay(f)
  <2>1. n + 1 \in 1..Len(g) /\ (n + 1) - 1 = n
    BY <1>1, <1>2
  <2>2. LineAt(g, n + 1) = NoLine
    BY <1>2 DEF LineAt
  <2>3. QED
    BY <1>2, <1>4, <2>1, <2>2, Reading, NothingRead
<1>6. Replay(g) = Replayed(Replay(f), LineAt(g, n + 2))
  <2>1. n + 2 \in 1..Len(g) /\ (n + 2) - 1 = n + 1
    BY <1>1, <1>2
  <2>2. QED
    BY <1>2, <1>4, <1>5, <2>1, Reading
<1>7. n > 0 => /\ g[n] = Last(f) /\ f # <<>> /\ Last(f)[1] \in Lines
               /\ Last(f)[2] \in {1, 2}
  <2>1. SUFFICES ASSUME n > 0
                 PROVE  /\ g[n] = Last(f) /\ f # <<>> /\ Last(f)[1] \in Lines
                        /\ Last(f)[2] \in {1, 2}
    OBVIOUS
  <2>2. n \in 1..n /\ g[n] = f[n] /\ Last(f) = f[n] /\ f # <<>>
    BY <1>1, <1>2, <2>1 DEF Last
  <2>3. f[n] \in Half
    BY <2>2
  <2>4. f[n][1] \in Lines /\ f[n][2] \in {1, 2}
    BY <2>3 DEF Half
  <2>5. QED
    BY <2>2, <2>4
<1>8. /\ n + 2 > 1 /\ (n + 2) - 1 = n + 1 /\ (n + 2) - 2 = n
      /\ g[n + 2][2] = 2 /\ g[n + 1] = <<g[n + 2][1], 1>> /\ g[n + 2][1] = l
  BY <1>1, <1>2
<1>9. ASSUME ~ Torn(f)
      PROVE  LineAt(g, n + 2) = l
  <2>1. n > 0 => g[n][2] = 2
    BY <1>7, <1>9 DEF Torn
  <2>2. QED
    BY <1>1, <1>8, <2>1 DEF LineAt
<1>10. ASSUME Torn(f)
       PROVE  /\ Last(f)[1] \in Lines
              /\ LineAt(g, n + 2) \in {NoLine, Glued(Last(f)[1], l)}
  <2>1. n > 0 /\ Last(f)[2] = 1
    BY <1>1, <1>10 DEF Torn
  <2>2. g[n][2] # 2 /\ g[n] = Last(f)
    BY <1>7, <2>1
  <2>3. QED
    BY <1>1, <1>7, <1>8, <2>1, <2>2 DEF LineAt
<1>11. ~ Torn(g)
  BY <1>1, <1>2 DEF Torn, Last
<1>12. QED
  BY <1>2, <1>3, <1>5, <1>6, <1>9, <1>10, <1>11 DEF g

-----------------------------------------------------------------------------
(* What compact writes. *)

LEMMA ReadWritten ==
  ASSUME NEW lines \in Seq(Lines)
  PROVE  LET f == Written(lines) IN
         /\ f \in Seq(Half) /\ Len(f) = 2 * Len(lines) /\ ~ Torn(f)
         /\ \A k \in 1..Len(lines) :
              Read(f)[2 * k] = Replayed(Read(f)[2 * (k - 1)], lines[k])
<1> DEFINE f == Written(lines)
           n == Len(lines)
<1>1. n \in Nat /\ 2 * n \in Nat
  OBVIOUS
<1>2. \A i \in 1..(2 * n) :
        /\ (i + 1) \div 2 \in 1..n
        /\ lines[(i + 1) \div 2] \in Lines
  <2>1. \A i \in 1..(2 * n) : (i + 1) \div 2 \in 1..n
    BY <1>1
  <2>2. QED
    BY <1>1, <2>1
<1>3. f \in [1..(2 * n) -> Half]
  BY <1>2 DEF Written, Half
<1>4. f \in Seq(Half) /\ Len(f) = 2 * n
  BY <1>1, <1>3
<1>5. \A k \in 1..n :
        /\ 2 * k \in 1..(2 * n) /\ 2 * k - 1 \in 1..(2 * n)
        /\ f[2 * k] = <<lines[k], 2>> /\ f[2 * k - 1] = <<lines[k], 1>>
  <2>1. SUFFICES ASSUME NEW k \in 1..n
                 PROVE  /\ 2 * k \in 1..(2 * n) /\ 2 * k - 1 \in 1..(2 * n)
                        /\ f[2 * k] = <<lines[k], 2>>
                        /\ f[2 * k - 1] = <<lines[k], 1>>
    OBVIOUS
  <2>2. /\ 2 * k \in 1..(2 * n) /\ 2 * k - 1 \in 1..(2 * n)
        /\ (2 * k + 1) \div 2 = k /\ (2 * k) % 2 = 0
        /\ ((2 * k - 1) + 1) \div 2 = k /\ (2 * k - 1) % 2 = 1
    BY <1>1
  <2>3. QED
    BY <2>2 DEF Written
<1> HIDE DEF f
<1>6. ~ Torn(f)
  <2>1. SUFFICES ASSUME f # <<>> PROVE f[Len(f)][2] = 2
    BY DEF Torn, Last
  <2>2. n \in 1..n
    BY <1>1, <1>4, <2>1
  <2>3. f[2 * n] = <<lines[n], 2>>
    BY <1>5, <2>2
  <2>4. QED
    BY <1>4, <2>3
<1>7. ASSUME NEW k \in 1..n
      PROVE  Read(f)[2 * k] = Replayed(Read(f)[2 * (k - 1)], lines[k])
  <2>1. /\ 2 * k \in 1..Len(f) /\ 2 * k - 1 \in 1..Len(f)
        /\ f[2 * k] = <<lines[k], 2>> /\ f[2 * k - 1] = <<lines[k], 1>>
        /\ (2 * k - 1) - 1 = 2 * (k - 1) /\ 2 * k > 1
    BY <1>1, <1>4, <1>5
  <2>2. 2 * k > 2 => f[2 * k - 2][2] = 2
    <3>1. SUFFICES ASSUME 2 * k > 2 PROVE f[2 * k - 2][2] = 2
      OBVIOUS
    <3>2. k - 1 \in 1..n /\ 2 * (k - 1) = 2 * k - 2
      BY <1>1, <3>1
    <3>3. f[2 * (k - 1)] = <<lines[k - 1], 2>>
      BY <1>5, <3>2
    <3>4. QED
      BY <3>2, <3>3
  <2>3. LineAt(f, 2 * k) = lines[k]
    BY <2>1, <2>2 DEF LineAt
  <2>4. LineAt(f, 2 * k - 1) = NoLine
    BY <2>1 DEF LineAt
  <2>5. Read(f)[2 * k - 1] = Read(f)[2 * (k - 1)]
    <3>1. Read(f)[2 * k - 1] = Replayed(Read(f)[2 * (k - 1)], LineAt(f, 2 * k - 1))
      BY <1>4, <2>1, Reading
    <3>2. QED
      BY <2>4, <3>1, NothingRead
  <2>6. QED
    BY <1>4, <2>1, <2>3, <2>5, Reading
<1>8. QED
  BY <1>4, <1>6, <1>7 DEF f

\* An order of a set is a sequence of all its members.
LEMMA OrderIsAll ==
  ASSUME NEW S, IsFiniteSet(S), NEW s \in SetToSeqs(S)
  PROVE  s \in Seq(S) /\ {s[j] : j \in 1..Len(s)} = S
<1> DEFINE c == Cardinality(S)
<1>1. c \in Nat
  BY FS_CardinalityType
<1>2. s \in [1..c -> S] /\ \A i, j \in 1..c : i # j => s[i] # s[j]
  BY DEF SetToSeqs
<1>3. s \in Injection(1..c, S)
  BY <1>2 DEF Injection, IsInjective
<1>4. IsFiniteSet(1..c) /\ Cardinality(1..c) = c
  BY <1>1, FS_Interval
<1>5. s \in Surjection(1..c, S)
  BY <1>3, <1>4, FS_Injection
<1>6. \A x \in S : \E j \in 1..c : s[j] = x
  BY <1>5 DEF Surjection
<1>7. s \in Seq(S) /\ Len(s) = c
  BY <1>1, <1>2
<1>8. QED
  BY <1>2, <1>6, <1>7

\* The image of a compaction tells what is in memory.
LEMMA ImageTells ==
  ASSUME alive \in SUBSET Node, last \in [Clocks -> 0..MaxClock],
         NEW names \in SetToSeqs(alive)
  PROVE  /\ Image(names) \in Seq(Half) /\ ~ Torn(Image(names))
         /\ Replay(Image(names)) = Memory
<1> DEFINE nodes == [k \in DOMAIN names |-> <<"alive", names[k]>>]
           c == <<"clock", last["clock"]>>
           e == <<"event-clock", last["event-clock"]>>
           lines == nodes \o <<c, e>>
           n == Len(names)
<1>1. names \in Seq(alive) /\ {names[j] : j \in 1..n} = alive /\ n \in Nat
  <2>1. IsFiniteSet(alive)
    BY FS_Subset
  <2>2. QED
    BY <2>1, OrderIsAll
<1>2. last["clock"] \in 0..MaxClock /\ last["event-clock"] \in 0..MaxClock
  BY DEF Clocks
<1>3. c \in Lines /\ e \in Lines
  BY <1>2 DEF Lines, Clocks
<1>4. nodes \in [1..n -> Lines]
  <2>1. DOMAIN names = 1..n /\ \A k \in 1..n : names[k] \in Node
    BY <1>1
  <2>2. QED
    BY <2>1 DEF Lines
<1>5. nodes \in Seq(Lines) /\ Len(nodes) = n
      /\ \A k \in 1..n : nodes[k] = <<"alive", names[k]>>
  BY <1>1, <1>4
<1> HIDE DEF nodes, c, e
<1>6. <<c, e>> \in Seq(Lines) /\ Len(<<c, e>>) = 2
      /\ <<c, e>>[1] = c /\ <<c, e>>[2] = e
  BY <1>3
<1>7. /\ lines \in Seq(Lines) /\ Len(lines) = n + 2
      /\ \A k \in 1..n : lines[k] = <<"alive", names[k]>>
      /\ lines[n + 1] = c /\ lines[n + 2] = e
  BY <1>1, <1>5, <1>6
<1> DEFINE f == Written(lines)
<1>8. Image(names) = f
  BY DEF Image, nodes, c, e
<1> HIDE DEF lines
<1>9. /\ f \in Seq(Half) /\ Len(f) = 2 * (n + 2) /\ ~ Torn(f)
      /\ \A k \in 1..(n + 2) :
           Read(f)[2 * k] = Replayed(Read(f)[2 * (k - 1)], lines[k])
  BY <1>7, ReadWritten
<1> HIDE DEF f
<1> DEFINE zero == [k \in Clocks |-> 0]
           At(k) == [alive |-> {names[j] : j \in 1..k}, last |-> zero]
           T == {k \in 0..n : Read(f)[2 * k] # At(k)}
<1>10. T = {}
  <2>1. SUFFICES ASSUME T # {} PROVE FALSE
    OBVIOUS
  <2>2. PICK k \in T : \A j \in T : k <= j
    <3>1. T \subseteq Nat
      BY <1>1
    <3> HIDE DEF T
    <3>2. QED
      BY <2>1, <3>1, LeastElement
  <2>3. k \in 0..n /\ Read(f)[2 * k] # At(k) /\ k \in Nat
    BY <1>1, <2>2
  <2>4. CASE k = 0
    <3>1. At(0) = Nothing
      <4>1. {names[j] : j \in 1..0} = {}
        OBVIOUS
      <4>2. QED
        BY <4>1 DEF Nothing
    <3>2. Read(f)[2 * 0] = Nothing
      BY <1>9, Reading
    <3>3. QED
      BY <2>3, <2>4, <3>1, <3>2
  <2>5. CASE k # 0
    <3>1. k - 1 \in 0..n /\ ~ (k - 1 \in T) /\ k \in 1..(n + 2) /\ k \in 1..n
      <4>1. k - 1 \in 0..n /\ k \in 1..(n + 2) /\ k \in 1..n /\ ~ (k <= k - 1)
        BY <1>1, <2>3, <2>5
      <4> HIDE DEF T
      <4>2. QED
        BY <2>2, <4>1
    <3>2. Read(f)[2 * (k - 1)] = At(k - 1)
      BY <3>1
    <3>3. Read(f)[2 * k] = Replayed(At(k - 1), <<"alive", names[k]>>)
      BY <1>7, <1>9, <3>1, <3>2
    <3>4. Replayed(At(k - 1), <<"alive", names[k]>>) =
            [At(k - 1) EXCEPT !.alive = @ \cup {names[k]}]
      <4> HIDE DEF At
      <4>1. <<"alive", names[k]>>[1] = "alive"
            /\ <<"alive", names[k]>>[2] = names[k]
        OBVIOUS
      <4>2. QED
        BY <4>1 DEF Replayed, Clocks
    <3>5. {names[j] : j \in 1..(k - 1)} \cup {names[k]} = {names[j] : j \in 1..k}
      BY <2>3, <3>1
    <3>6. QED
      BY <2>3, <3>3, <3>4, <3>5
  <2>6. QED
    BY <2>4, <2>5
<1>11. Read(f)[2 * n] = [alive |-> alive, last |-> zero]
  <2>1. n \in 0..n
    BY <1>1
  <2>2. Read(f)[2 * n] = At(n)
    BY <1>10, <2>1
  <2>3. QED
    BY <1>1, <2>2
<1> HIDE DEF T
<1>12. Read(f)[2 * (n + 1)] =
         [alive |-> alive, last |-> [zero EXCEPT !["clock"] = last["clock"]]]
  <2>1. n + 1 \in 1..(n + 2) /\ (n + 1) - 1 = n
    BY <1>1
  <2>2. Read(f)[2 * (n + 1)] = Replayed([alive |-> alive, last |-> zero], c)
    BY <1>7, <1>9, <1>11, <2>1
  <2>3. QED
    BY <2>2 DEF c, Replayed, Clocks
<1>13. Read(f)[2 * (n + 2)] =
         [alive |-> alive,
          last |-> [zero EXCEPT !["clock"] = last["clock"],
                                !["event-clock"] = last["event-clock"]]]
  <2>1. n + 2 \in 1..(n + 2) /\ (n + 2) - 1 = n + 1
    BY <1>1
  <2>2. Read(f)[2 * (n + 2)] =
          Replayed([alive |-> alive,
                    last |-> [zero EXCEPT !["clock"] = last["clock"]]], e)
    BY <1>7, <1>9, <1>12, <2>1
  <2>3. QED
    BY <2>2 DEF e, Replayed, Clocks
<1>14. [zero EXCEPT !["clock"] = last["clock"],
                    !["event-clock"] = last["event-clock"]] = last
  BY DEF Clocks
<1>15. Replay(f) = Memory
  BY <1>9, <1>13, <1>14, Reading DEF Memory
<1>16. QED
  BY <1>8, <1>9, <1>15

-----------------------------------------------------------------------------
(* Types, and where the lines are while the goroutine is at each place.  A   *)
(* compaction that fails half way leaves no handle and nothing to write, and *)
(* so does a write that fails.                                               *)

Shape ==
  /\ written # <<>>
  /\ pc = "down" => ~ handle
  /\ ~ handle \/ broken => buffer = <<>>
  /\ handle => file \in Seq(Half)
  /\ pc = "compact" => handle /\ ~ broken
  /\ pc \in {"remove", "rename"} => ~ handle /\ newFile \in Seq(Half)
  /\ pc = "remove" => file \in Seq(Half)
  /\ pc = "rename" => file = Missing
  /\ pc # "down" /\ file = Missing => newFile \in Seq(Half)
  /\ pc = "append" => entry \in Lines

TypeInv == TypeOK /\ Shape

LEMMA MissingIsNoFile == Missing \notin Seq(Half)
<1>1. Missing[1] \notin Half /\ Len(Missing) = 1
  BY DEF Missing, Half
<1>2. QED
  BY <1>1

LEMMA HalvesJoined ==
  ASSUME NEW f \in Seq(Half), NEW g \in Seq(Half)
  PROVE  f \o g \in Seq(Half) /\ Len(f \o g) = Len(f) + Len(g)
  OBVIOUS

LEMMA HalvesAssociate ==
  \A f, g, h \in Seq(Half) : (f \o g) \o h = f \o (g \o h)
  OBVIOUS

LEMMA HalvesType ==
  ASSUME NEW l \in Lines
  PROVE  Halves(l) \in Seq(Half) /\ Len(Halves(l)) = 2
  BY DEF Halves, Half

\* The first n halves of g are all of f.
StartOf(f, g, n) ==
  f \in Seq(Half) /\ Len(f) = n /\ \A i \in 1..Len(f) : f[i] = g[i]

\* The start of what is written.
LEMMA HalvesCut ==
  \A f, all \in Seq(Half) : \A n \in 0..Len(all) :
    StartOf(f \o SubSeq(all, 1, n), f \o all, Len(f) + n)
<1> SUFFICES ASSUME NEW f \in Seq(Half), NEW all \in Seq(Half),
                    NEW n \in 0..Len(all)
             PROVE  StartOf(f \o SubSeq(all, 1, n), f \o all, Len(f) + n)
  OBVIOUS
<1>1. /\ SubSeq(all, 1, n) \in Seq(Half) /\ Len(SubSeq(all, 1, n)) = n
      /\ \A i \in 1..n : SubSeq(all, 1, n)[i] = all[i]
      /\ Len(f) \in Nat /\ n \in Nat /\ n <= Len(all) /\ Len(all) \in Nat
  OBVIOUS
<1> DEFINE s == SubSeq(all, 1, n)
<1> HIDE DEF s
<1>2. f \o s \in Seq(Half) /\ Len(f \o s) = Len(f) + n
  BY <1>1 DEF s
<1>3. \A i \in 1..(Len(f) + n) : (f \o s)[i] = (f \o all)[i]
  BY <1>1, <1>2 DEF s
<1>4. QED
  BY <1>2, <1>3 DEF s, StartOf

LEMMA ReplayType ==
  ASSUME NEW f \in Seq(Half)
  PROVE  Replay(f) \in Told
<1>1. Len(f) \in 0..Len(f)
  OBVIOUS
<1>2. QED
  BY <1>1, Reading, ReadType

LEMMA SubjectType ==
  ASSUME NEW l \in Lines
  PROVE  Subject(l) \subseteq Subjects
<1>1. CASE l[1] \in Clocks
  <2>1. Subject(l) = { <<"last", l[1]>> }
    BY <1>1 DEF Subject, Clocks
  <2>2. <<"last", l[1]>> \in {"last"} \X Clocks
    BY <1>1
  <2>3. QED
    BY <2>1, <2>2 DEF Subjects
<1>2. CASE l[1] \notin Clocks /\ l[1] \in {"alive", "not-alive"}
  <2>1. l[2] \in Node
    BY <1>2 DEF Lines, Clocks
  <2>2. Subject(l) = { <<"alive", l[2]>> }
    BY <1>2 DEF Subject
  <2>3. QED
    BY <2>1, <2>2 DEF Subjects
<1>3. CASE l[1] \notin Clocks /\ l[1] \notin {"alive", "not-alive"}
  BY <1>3 DEF Subject
<1>4. QED
  BY <1>1, <1>2, <1>3

\* The last half of a file is half of a line.
LEMMA LastHalf ==
  ASSUME NEW f \in Seq(Half), Torn(f)
  PROVE  Last(f)[1] \in Lines
<1>1. f # <<>>
  BY DEF Torn
<1>2. Last(f) \in Half
  BY <1>1 DEF Last
<1>3. QED
  BY <1>2 DEF Half

LEMMA SpoiltType ==
  ASSUME NEW f \in Seq(Half), NEW l \in Lines, NEW s \in SUBSET Subjects
  PROVE  SpoiltBy(f, l, s) \in SUBSET Subjects
<1>1. CASE Torn(f)
  <2>1. Subject(Last(f)[1]) \subseteq Subjects /\ Subject(l) \subseteq Subjects
    BY <1>1, LastHalf, SubjectType
  <2>2. QED
    BY <1>1, <2>1 DEF SpoiltBy
<1>2. CASE ~ Torn(f)
  BY <1>2 DEF SpoiltBy
<1>3. QED
  BY <1>1, <1>2

\* What was recorded, but for what is older than the last flush.
LEMMA FlushedType ==
  ASSUME written \in Seq(Moment), written # <<>>
  PROVE  /\ Last(written) \in Moment
         /\ <<Last(written)>> \in Seq(Moment) /\ <<Last(written)>> # <<>>
  BY DEF Last

\* A file that is there is the content.
LEMMA ContentType ==
  ASSUME TypeInv
  PROVE  /\ buffer \in Seq(Half)
         /\ file # Missing => file \in Seq(Half) /\ Content = file
         /\ Content # Missing => Content \in Seq(Half)
         /\ pc # "down" => Content \in Seq(Half) /\ Content \o buffer \in Seq(Half)
         /\ handle => file # Missing
<1>1. buffer \in Seq(Half) /\ file \in Seq(Half) \cup {Missing}
      /\ newFile \in Seq(Half) \cup {Missing}
      /\ (pc # "down" /\ file = Missing => newFile \in Seq(Half))
      /\ (handle => file \in Seq(Half))
  BY DEF TypeInv, TypeOK, Shape
<1>2. pc # "down" => Content \in Seq(Half)
  BY <1>1 DEF Content
<1>3. QED
  BY <1>1, <1>2, MissingIsNoFile, HalvesJoined DEF Content

\* Flush, whatever comes of it.
LEMMA FlushTypes ==
  ASSUME TypeInv, handle, NEW all \in Seq(Half), Flushes(all) \/ FlushFails(all)
  PROVE  /\ file' \in Seq(Half) /\ file' # Missing
         /\ written' \in Seq(Moment) /\ written' # <<>>
         /\ errors' \in 0..MaxErrors
<1>1. /\ file \in Seq(Half) /\ written \in Seq(Moment) /\ written # <<>>
      /\ errors \in 0..MaxErrors
  BY DEF TypeInv, TypeOK, Shape
<1>2. <<Last(written)>> \in Seq(Moment) /\ <<Last(written)>> # <<>>
  BY <1>1, FlushedType
<1>3. CASE Flushes(all)
  <2>1. file' \in Seq(Half)
    BY <1>1, <1>3 DEF Flushes
  <2>2. QED
    BY <1>1, <1>2, <1>3, <2>1, MissingIsNoFile DEF Flushes
<1>4. CASE errors < MaxErrors /\ errors' = errors + 1 /\ UNCHANGED written
           /\ \E n \in 0..(Len(all) - 1) : file' = file \o SubSeq(all, 1, n)
  <2>1. PICK n \in 0..(Len(all) - 1) : file' = file \o SubSeq(all, 1, n)
    BY <1>4
  <2>2. n \in 0..Len(all)
    OBVIOUS
  <2>3. StartOf(file \o SubSeq(all, 1, n), file \o all, Len(file) + n)
    BY <1>1, <2>2, HalvesCut, Zenon
  <2>4. errors' \in 0..MaxErrors
    BY <1>1, <1>4
  <2>5. written' \in Seq(Moment) /\ written' # <<>>
    BY <1>1, <1>4
  <2>6. QED
    BY <2>1, <2>3, <2>4, <2>5, MissingIsNoFile DEF StartOf
<1>5. CASE UNCHANGED <<file, written, errors>>
  BY <1>1, <1>5, MissingIsNoFile
<1>6. QED
  BY <1>3, <1>4, <1>5 DEF FlushFails

LEMMA EndKeepsTypes ==
  ASSUME TypeInv, Ends, file' \in Seq(Half) \cup {Missing},
         errors' \in 0..MaxErrors, written' \in Seq(Moment), written' # <<>>
  PROVE  TypeInv'
<1>1. last' \in [Clocks -> 0..MaxClock]
  BY DEF Ends
<1>2. /\ pc' = "down" /\ buffer' = <<>> /\ handle' = FALSE /\ broken' = FALSE
      /\ offset' = 0 /\ alive' = {} /\ clock' = 0 /\ leaving' = FALSE
      /\ entry' = NoLine /\ then' = "ready" /\ UNCHANGED <<newFile, starts>>
  BY DEF Ends
<1>3. buffer' \in Seq(Half)
  BY <1>2
<1>4. alive' \in SUBSET Node
  BY <1>2
<1>5. clock' \in 0..(MaxClock + 1) /\ offset' \in Nat
  BY <1>2
<1>6. handle' \in BOOLEAN /\ broken' \in BOOLEAN /\ leaving' \in BOOLEAN /\ ~ handle'
  BY <1>2
<1>7. pc' \in {"down", "ready", "append", "clock", "sync", "compact", "remove",
               "rename"}
  BY <1>2
<1>8. entry' \in Lines \cup {NoLine} /\ then' \in {"ready", "clock", "sync"}
  BY <1>2
<1>9. newFile' \in Seq(Half) \cup {Missing} /\ starts' \in 0..MaxStarts
  BY <1>2 DEF TypeInv, TypeOK
<1>10. TypeOK'
  BY <1>1, <1>3, <1>4, <1>5, <1>6, <1>7, <1>8, <1>9 DEF TypeOK
<1>11. Shape'
  BY <1>2 DEF Shape
<1>12. QED
  BY <1>10, <1>11 DEF TypeInv

LEMMA DiesKeepsTypes ==
  ASSUME TypeInv, Dies
  PROVE  TypeInv'
<1>1. /\ file \in Seq(Half) \cup {Missing} /\ errors \in 0..MaxErrors
      /\ written \in Seq(Moment) /\ written # <<>>
  BY DEF TypeInv, TypeOK, Shape
<1>2. Ends /\ UNCHANGED <<file, errors, written>>
  BY DEF Dies
<1>3. QED
  BY <1>1, <1>2, EndKeepsTypes

LEMMA StartKeepsTypes ==
  ASSUME TypeInv, NewSnapshotter
  PROVE  TypeInv'
<1> DEFINE f == IF file = Missing THEN <<>> ELSE file
           t == Replay(f)
           m == [told |-> t, spoilt |-> {}]
<1>1. f \in Seq(Half)
  BY DEF TypeInv, TypeOK
<1>2. t \in Told /\ t.alive \in SUBSET Node /\ t.last \in [Clocks -> 0..MaxClock]
      /\ t.last["clock"] + 1 \in 0..(MaxClock + 1)
  <2>1. t \in Told
    BY <1>1, ReplayType
  <2> HIDE DEF t
  <2>2. t.alive \in SUBSET Node /\ t.last \in [Clocks -> 0..MaxClock]
    BY <2>1 DEF Told
  <2>3. t.last["clock"] \in 0..MaxClock
    BY <2>2 DEF Clocks
  <2>4. QED
    BY <2>1, <2>2, <2>3
<1>3. /\ pc = "down" /\ starts' = starts + 1 /\ starts < MaxStarts /\ file' = f
      /\ handle' = TRUE /\ offset' = Len(f) /\ alive' = t.alive /\ last' = t.last
      /\ clock' = t.last["clock"] + 1 /\ pc' = "ready" /\ written' = <<m>>
      /\ UNCHANGED <<newFile, buffer, broken, leaving, entry, then, errors>>
  BY DEF NewSnapshotter
<1>4. m \in Moment
  BY <1>2 DEF Moment
<1>5. f # Missing
  BY <1>1, MissingIsNoFile
<1> HIDE DEF f, t, m
<1>6. buffer = <<>>
  BY <1>3 DEF TypeInv, Shape
<1>7. written' \in Seq(Moment) /\ written' # <<>>
  BY <1>3, <1>4
<1>8. TypeOK'
  BY <1>1, <1>2, <1>3, <1>6, <1>7 DEF TypeInv, TypeOK
<1>9. Shape'
  BY <1>1, <1>3, <1>5, <1>6, <1>7 DEF TypeInv, Shape
<1>10. QED
  BY <1>8, <1>9 DEF TypeInv

\* What is in the buffer and what is in the file, after n halves have moved.
LEMMA SpillMoves ==
  ASSUME NEW f \in Seq(Half), NEW b \in Seq(Half), NEW n \in 1..Len(b)
  PROVE  LET g == f \o SubSeq(b, 1, n)
             c == SubSeq(b, n + 1, Len(b)) IN
         /\ g \in Seq(Half) /\ c \in Seq(Half)
         /\ Len(g) + Len(c) = Len(f) + Len(b) /\ Len(f) <= Len(g)
         /\ g \o c = f \o b
<1> DEFINE s == SubSeq(b, 1, n)
           t == SubSeq(b, n + 1, Len(b))
<1>1. /\ s \in Seq(Half) /\ t \in Seq(Half) /\ s \o t = b
      /\ Len(s) = n /\ Len(t) = Len(b) - n /\ Len(b) \in Nat /\ Len(f) \in Nat
  OBVIOUS
<1> HIDE DEF s, t
<1>2. f \o s \in Seq(Half) /\ Len(f \o s) = Len(f) + n
  BY <1>1, HalvesJoined
<1>3. (f \o s) \o t = f \o (s \o t)
  <2>1. s \in Seq(Half) /\ t \in Seq(Half)
    BY <1>1
  <2>2. QED
    BY <2>1, HalvesAssociate, Zenon
<1>4. Len(f \o s) + Len(t) = Len(f) + Len(b) /\ Len(f) <= Len(f \o s)
  BY <1>1, <1>2
<1>5. (f \o s) \o t = f \o b
  BY <1>1, <1>3
<1>6. QED
  BY <1>1, <1>2, <1>4, <1>5 DEF s, t

LEMMA SpillKeepsTypes ==
  ASSUME TypeInv, Spill
  PROVE  TypeInv'
<1>1. PICK n \in 1..Len(buffer) :
        /\ file' = file \o SubSeq(buffer, 1, n)
        /\ buffer' = SubSeq(buffer, n + 1, Len(buffer))
  BY DEF Spill
<1>2. /\ pc \in {"ready", "append", "clock", "sync"} /\ handle /\ ~ broken
      /\ UNCHANGED <<newFile, handle, broken, offset, alive, last, clock, leaving,
                     pc, entry, then, starts, errors, written>>
  BY DEF Spill, memory
<1>3. file \in Seq(Half) /\ buffer \in Seq(Half)
  BY <1>2 DEF TypeInv, TypeOK, Shape
<1>4. /\ file' \in Seq(Half) /\ buffer' \in Seq(Half)
      /\ Len(file') + Len(buffer') = Len(file) + Len(buffer)
  BY <1>1, <1>3, SpillMoves
<1>5. TypeOK'
  BY <1>2, <1>4 DEF TypeInv, TypeOK
<1>6. file' # Missing
  BY <1>4, MissingIsNoFile
<1>7. Shape'
  BY <1>2, <1>4, <1>6 DEF TypeInv, Shape
<1>8. QED
  BY <1>5, <1>7 DEF TypeInv

LEMMA WitnessKeepsTypes ==
  ASSUME TypeInv, Witness
  PROVE  TypeInv'
<1>1. clock' \in 0..(MaxClock + 1)
  BY DEF Witness, TypeInv, TypeOK
<1>2. TypeOK'
  BY <1>1 DEF Witness, TypeInv, TypeOK, disk, memory
<1>3. Shape'
  BY DEF Witness, TypeInv, Shape, disk, memory
<1>4. QED
  BY <1>2, <1>3 DEF TypeInv

\* A line to append.
LEMMA RecordKeepsTypes ==
  ASSUME TypeInv, NEW l \in Lines, NEW next \in {"ready", "clock", "sync"},
         Record(l, next), pc \in {"ready", "clock"}, leaving' \in BOOLEAN,
         alive' \in SUBSET Node, last' \in [Clocks -> 0..MaxClock]
  PROVE  TypeInv'
<1>1. written' \in Seq(Moment) /\ written' # <<>>
  <2>1. written \in Seq(Moment) /\ written # <<>>
    BY DEF TypeInv, TypeOK, Shape
  <2> DEFINE s == SpoiltBy(Content \o buffer, l, Last(written).spoilt)
             m == [told |-> Memory', spoilt |-> s]
  <2>2. s \in SUBSET Subjects
    <3>1. Content \o buffer \in Seq(Half)
      BY ContentType
    <3>2. Last(written).spoilt \in SUBSET Subjects
      BY <2>1, FlushedType DEF Moment
    <3>3. QED
      BY <3>1, <3>2, SpoiltType
  <2>3. Memory' \in Told
    BY DEF Memory, Told
  <2> HIDE DEF s
  <2>4. m \in Moment
    BY <2>2, <2>3 DEF Moment
  <2>5. written' = written \/ written' = Append(written, m)
    BY DEF Record, s
  <2> HIDE DEF m
  <2>6. QED
    BY <2>1, <2>4, <2>5
<1>2. TypeOK'
  BY <1>1 DEF Record, TypeInv, TypeOK, disk
<1>3. Shape'
  BY <1>1 DEF Record, TypeInv, Shape, disk
<1>4. QED
  BY <1>2, <1>3 DEF TypeInv

LEMMA StreamKeepsTypes ==
  ASSUME TypeInv,
         \/ \E n \in Node, status \in {"alive", "not-alive"} : MemberEvent(n, status)
         \/ \E time \in 1..MaxClock : UserEvent(time)
         \/ UpdateClock \/ Leave
  PROVE  TypeInv'
<1>1. /\ alive \in SUBSET Node /\ last \in [Clocks -> 0..MaxClock]
      /\ leaving \in BOOLEAN /\ clock \in 0..(MaxClock + 1)
  BY DEF TypeInv, TypeOK
<1>2. ASSUME NEW n \in Node, NEW status \in {"alive", "not-alive"},
             MemberEvent(n, status)
      PROVE  TypeInv'
  <2>1. <<status, n>> \in Lines
    BY DEF Lines
  <2>2. /\ Record(<<status, n>>, "clock") /\ pc = "ready"
        /\ leaving' \in BOOLEAN /\ last' \in [Clocks -> 0..MaxClock]
        /\ alive' \in SUBSET Node
    BY <1>1, <1>2 DEF MemberEvent
  <2>3. QED
    BY <2>1, <2>2, RecordKeepsTypes
<1>3. ASSUME NEW time \in 1..MaxClock, UserEvent(time)
      PROVE  TypeInv'
  <2>1. <<"event-clock", time>> \in Lines
    BY DEF Lines, Clocks
  <2>2. /\ Record(<<"event-clock", time>>, "ready") /\ pc = "ready"
        /\ last' = [last EXCEPT !["event-clock"] = time]
        /\ UNCHANGED <<alive, leaving>>
    BY <1>3 DEF UserEvent
  <2>3. last' \in [Clocks -> 0..MaxClock]
    BY <1>1, <2>2 DEF Clocks
  <2>4. QED
    BY <1>1, <2>1, <2>2, <2>3, RecordKeepsTypes
<1>4. CASE UpdateClock
  <2>1. CASE clock - 1 > last["clock"] /\ Record(<<"clock", clock - 1>>, "ready")
             /\ last' = [last EXCEPT !["clock"] = clock - 1]
             /\ UNCHANGED <<alive, leaving>>
    <3>1. clock - 1 \in 0..MaxClock
      BY <1>1, <2>1 DEF Clocks
    <3>2. <<"clock", clock - 1>> \in Lines /\ last' \in [Clocks -> 0..MaxClock]
      BY <1>1, <2>1, <3>1 DEF Lines, Clocks
    <3>3. pc \in {"ready", "clock"}
      BY <1>4 DEF UpdateClock
    <3>4. QED
      BY <1>1, <2>1, <3>2, <3>3, RecordKeepsTypes
  <2>2. CASE /\ pc = "clock" /\ pc' = "ready"
             /\ UNCHANGED <<disk, memory, clock, leaving, entry, then, starts,
                            errors, written>>
    <3>1. TypeOK'
      BY <2>2 DEF TypeInv, TypeOK, disk, memory
    <3>2. Shape'
      BY <2>2 DEF TypeInv, Shape, disk, memory
    <3>3. QED
      BY <3>1, <3>2 DEF TypeInv
  <2>3. QED
    BY <1>4, <2>1, <2>2 DEF UpdateClock
<1>5. CASE Leave
  <2>1. <<"leave", "leave">> \in Lines
    BY DEF Lines
  <2>2. /\ Record(<<"leave", "leave">>, "sync") /\ pc = "ready"
        /\ leaving' \in BOOLEAN /\ UNCHANGED <<alive, last>>
    BY <1>5 DEF Leave, memory
  <2>3. QED
    BY <1>1, <2>1, <2>2, RecordKeepsTypes
<1>6. QED
  BY <1>2, <1>3, <1>4, <1>5

\* The file after a flush of the buffer that succeeded.
LEMMA FlushLength ==
  ASSUME TypeInv, handle, NEW all \in Seq(Half), Flushes(all), buffer' = <<>>
  PROVE  Len(file') + Len(buffer') = Len(file) + Len(all)
<1>1. file \in Seq(Half) /\ file' = file \o all
  BY DEF TypeInv, Shape, Flushes
<1>2. QED
  BY <1>1

LEMMA SyncKeepsTypes ==
  ASSUME TypeInv, Sync
  PROVE  TypeInv'
<1>1. CASE Dies
  BY <1>1, DiesKeepsTypes
<1>2. CASE /\ handle /\ buffer' = <<>> /\ pc' = "ready"
           /\ \/ Flushes(buffer) /\ UNCHANGED broken
              \/ FlushFails(buffer) /\ broken' = TRUE
           /\ UNCHANGED <<newFile, handle, offset, memory, clock, leaving, entry,
                          then, starts>>
  <2>1. buffer \in Seq(Half)
    BY DEF TypeInv, TypeOK
  <2>2. /\ file' \in Seq(Half) /\ file' # Missing
        /\ written' \in Seq(Moment) /\ written' # <<>> /\ errors' \in 0..MaxErrors
    BY <1>2, <2>1, FlushTypes
  <2>3. broken' \in BOOLEAN
    BY <1>2 DEF TypeInv, TypeOK
  <2>4. handle' /\ ~ broken' => offset' = Len(file') + Len(buffer')
    BY <1>2, <2>1, FlushLength DEF TypeInv, TypeOK
  <2>5. buffer' \in Seq(Half) /\ pc' = "ready"
    BY <1>2
  <2>6. TypeOK'
    BY <1>2, <2>2, <2>3, <2>4, <2>5 DEF TypeInv, TypeOK, memory
  <2>7. Shape'
    BY <1>2, <2>2 DEF Shape
  <2>8. QED
    BY <2>6, <2>7 DEF TypeInv
<1>3. QED
  BY <1>1, <1>2 DEF Sync

LEMMA ShutdownKeepsTypes ==
  ASSUME TypeInv, Shutdown
  PROVE  TypeInv'
<1>1. CASE Dies
  BY <1>1, DiesKeepsTypes
<1>2. CASE handle /\ (Flushes(buffer) \/ FlushFails(buffer)) /\ Ends
  <2>1. buffer \in Seq(Half)
    BY DEF TypeInv, TypeOK
  <2>2. /\ file' \in Seq(Half)
        /\ written' \in Seq(Moment) /\ written' # <<>> /\ errors' \in 0..MaxErrors
    BY <1>2, <2>1, FlushTypes
  <2>3. QED
    BY <1>2, <2>2, EndKeepsTypes
<1>3. QED
  BY <1>1, <1>2 DEF Shutdown

LEMMA AppendKeepsTypes ==
  ASSUME TypeInv, AppendLine
  PROVE  TypeInv'
<1> DEFINE all == buffer \o Halves(entry)
<1>1. /\ pc = "append" /\ entry \in Lines
      /\ buffer \in Seq(Half) /\ then \in {"ready", "clock", "sync"}
      /\ written \in Seq(Moment) /\ written # <<>> /\ errors \in 0..MaxErrors
      /\ handle => file \in Seq(Half)
      /\ handle /\ ~ broken => offset = Len(file) + Len(buffer)
      /\ broken \in BOOLEAN /\ offset \in Nat
  BY DEF AppendLine, TypeInv, TypeOK, Shape
<1>2. all \in Seq(Half) /\ Len(all) = Len(buffer) + 2 /\ Len(buffer) \in Nat
  <2>1. Halves(entry) \in Seq(Half) /\ Len(Halves(entry)) = 2
    BY <1>1, HalvesType
  <2>2. all \in Seq(Half) /\ Len(all) = Len(buffer) + Len(Halves(entry))
    BY <1>1, <2>1, HalvesJoined
  <2>3. QED
    BY <1>1, <2>1, <2>2
<1>3. CASE Dies
  BY <1>3, DiesKeepsTypes
<1>4. CASE /\ handle
           /\ \/ /\ \/ ~ broken /\ buffer' = all /\ UNCHANGED <<file, written, errors>>
                    \/ Flushes(all) /\ buffer' = <<>>
                 /\ offset' = offset + 2
                 /\ pc' = IF offset + 2 > MaxSize THEN "compact" ELSE then
                 /\ UNCHANGED broken
              \/ /\ FlushFails(all)
                 /\ buffer' = <<>>
                 /\ broken' = TRUE
                 /\ pc' = then
                 /\ UNCHANGED offset
           /\ entry' = NoLine
           /\ UNCHANGED <<newFile, handle, memory, clock, leaving, then, starts>>
  <2> HIDE DEF all
  <2>1. /\ file' \in Seq(Half) /\ file' # Missing
        /\ written' \in Seq(Moment) /\ written' # <<>> /\ errors' \in 0..MaxErrors
    <3>1. CASE UNCHANGED <<file, written, errors>>
      BY <1>1, <1>4, <3>1, MissingIsNoFile
    <3>2. CASE Flushes(all) \/ FlushFails(all)
      BY <1>2, <1>4, <3>2, FlushTypes
    <3>3. QED
      BY <1>4, <3>1, <3>2
  <2>2. /\ buffer' \in Seq(Half) /\ broken' \in BOOLEAN /\ offset' \in Nat
        /\ pc' \in {"compact", "ready", "clock", "sync"}
        /\ pc' = "compact" => ~ broken'
        /\ broken' => buffer' = <<>>
    <3>1. broken' => buffer' = <<>>
      BY <1>4 DEF Flushes
    <3>2. pc' = "compact" => ~ broken'
      BY <1>1, <1>4 DEF Flushes
    <3>3. buffer' \in Seq(Half)
      <4>1. buffer' = all \/ buffer' = <<>>
        BY <1>4
      <4>2. <<>> \in Seq(Half)
        OBVIOUS
      <4>3. QED
        BY <1>2, <4>1, <4>2, Zenon
    <3>4. broken' \in BOOLEAN
      BY <1>1, <1>4
    <3>5. offset' \in Nat
      BY <1>1, <1>4
    <3>6. pc' \in {"compact", "ready", "clock", "sync"}
      BY <1>1, <1>4
    <3>7. QED
      BY <3>1, <3>2, <3>3, <3>4, <3>5, <3>6
  <2>3. ~ broken' => offset' = Len(file') + Len(buffer')
    <3>1. CASE ~ broken /\ buffer' = all /\ UNCHANGED file /\ offset' = offset + 2
      BY <1>1, <1>2, <1>4, <3>1
    <3>2. CASE Flushes(all) /\ buffer' = <<>> /\ offset' = offset + 2
      <4>1. Len(file') + Len(buffer') = Len(file) + Len(all)
        BY <1>2, <1>4, <3>2, FlushLength
      <4>2. ~ broken /\ Len(file) \in Nat
        BY <1>1, <1>4, <3>2 DEF Flushes
      <4>3. QED
        BY <1>1, <1>2, <1>4, <3>2, <4>1, <4>2
    <3>3. QED
      BY <1>4, <3>1, <3>2
  <2>4. TypeOK'
    BY <1>4, <2>1, <2>2, <2>3 DEF TypeInv, TypeOK, memory
  <2>5. Shape'
    BY <1>4, <2>1, <2>2 DEF Shape
  <2>6. QED
    BY <2>4, <2>5 DEF TypeInv
<1>5. QED
  BY <1>3, <1>4 DEF AppendLine

\* A compaction that returns with an error before it has replaced the file.
LEMMA FailKeepsTypes ==
  ASSUME TypeInv, Fails, pc \in {"compact", "remove", "rename"},
         UNCHANGED <<disk, memory, clock, leaving, entry, then, starts, written>>
  PROVE  TypeInv'
<1>1. /\ errors' \in 0..MaxErrors /\ pc' = then
      /\ then \in {"ready", "clock", "sync"}
  BY DEF Fails, TypeInv, TypeOK
<1>2. TypeOK'
  BY <1>1 DEF TypeInv, TypeOK, disk, memory
<1>3. Shape'
  BY <1>1 DEF TypeInv, Shape, disk
<1>4. QED
  BY <1>2, <1>3 DEF TypeInv

LEMMA WriteNewFileKeepsTypes ==
  ASSUME TypeInv, WriteNewFile
  PROVE  TypeInv'
<1>1. CASE Fails /\ UNCHANGED <<file, newFile, buffer, handle, broken, written>>
  BY <1>1, FailKeepsTypes DEF WriteNewFile, disk, memory
<1>2. ASSUME NEW names \in SetToSeqs(alive), newFile' = Image(names),
             \/ Flushes(buffer) /\ UNCHANGED broken
             \/ FlushFails(buffer) /\ broken' = TRUE,
             buffer' = <<>>, handle' = FALSE, pc' = "remove"
      PROVE  TypeInv'
  <2>1. /\ alive \in SUBSET Node /\ last \in [Clocks -> 0..MaxClock]
        /\ buffer \in Seq(Half) /\ broken \in BOOLEAN /\ handle
    BY DEF TypeInv, TypeOK, Shape, WriteNewFile
  <2>2. newFile' \in Seq(Half)
    BY <1>2, <2>1, ImageTells
  <2>3. /\ file' \in Seq(Half) /\ file' # Missing
        /\ written' \in Seq(Moment) /\ written' # <<>> /\ errors' \in 0..MaxErrors
    BY <1>2, <2>1, FlushTypes
  <2>4. ~ handle' /\ handle' \in BOOLEAN /\ broken' \in BOOLEAN
        /\ buffer' \in Seq(Half)
    <3>1. broken' \in BOOLEAN
      BY <1>2, <2>1
    <3>2. buffer' \in Seq(Half)
      BY <1>2
    <3>3. ~ handle' /\ handle' \in BOOLEAN
      BY <1>2
    <3>4. QED
      BY <3>1, <3>2, <3>3
  <2>5. UNCHANGED <<offset, alive, last, clock, leaving, entry, then, starts>>
    BY DEF WriteNewFile, memory
  <2>6. TypeOK'
    BY <1>2, <2>2, <2>3, <2>4, <2>5 DEF TypeInv, TypeOK
  <2>7. Shape'
    BY <1>2, <2>2, <2>3, <2>4 DEF Shape
  <2>8. QED
    BY <2>6, <2>7 DEF TypeInv
<1>3. QED
  BY <1>1, <1>2 DEF WriteNewFile

LEMMA RemoveOldKeepsTypes ==
  ASSUME TypeInv, RemoveOld
  PROVE  TypeInv'
<1>1. CASE Fails /\ UNCHANGED file
  BY <1>1, FailKeepsTypes DEF RemoveOld, disk
<1>2. CASE file' = Missing /\ pc' = "rename" /\ UNCHANGED errors
  <2>1. /\ UNCHANGED <<newFile, buffer, handle, broken, offset, alive, last, clock,
                       leaving, entry, then, starts, written>>
        /\ ~ handle /\ newFile \in Seq(Half) /\ buffer = <<>> /\ written # <<>>
    BY DEF RemoveOld, memory, TypeInv, Shape
  <2>2. TypeOK'
    BY <1>2, <2>1 DEF TypeInv, TypeOK
  <2>3. Shape'
    BY <1>2, <2>1 DEF Shape
  <2>4. QED
    BY <2>2, <2>3 DEF TypeInv
<1>3. QED
  BY <1>1, <1>2 DEF RemoveOld

LEMMA RenameKeepsTypes ==
  ASSUME TypeInv, Rename
  PROVE  TypeInv'
<1>1. CASE Fails /\ UNCHANGED <<file, newFile, handle, broken, offset, written>>
  BY <1>1, FailKeepsTypes DEF Rename, disk
<1>2. CASE /\ Renamed /\ pc' = then /\ errors' \in 0..MaxErrors
           /\ \/ handle' = TRUE /\ offset' = Len(newFile)
              \/ UNCHANGED <<handle, offset>>
  <2>1. /\ newFile \in Seq(Half) /\ buffer = <<>> /\ ~ handle
        /\ then \in {"ready", "clock", "sync"}
        /\ alive \in SUBSET Node /\ last \in [Clocks -> 0..MaxClock]
        /\ offset \in Nat /\ handle \in BOOLEAN
    BY DEF Rename, TypeInv, TypeOK, Shape
  <2>2. UNCHANGED <<buffer, alive, last, clock, leaving, entry, then, starts>>
    BY DEF Rename, memory
  <2>3. /\ file' = newFile /\ newFile' = Missing /\ broken' = FALSE
        /\ written' = << [told |-> Memory, spoilt |-> {}] >>
    BY <1>2 DEF Renamed
  <2>4. written' \in Seq(Moment) /\ written' # <<>>
    <3>1. [told |-> Memory, spoilt |-> {}] \in Moment
      BY <2>1 DEF Moment, Memory, Told
    <3>2. QED
      BY <2>3, <3>1
  <2>5. /\ handle' => offset' = Len(file') + Len(buffer')
        /\ offset' \in Nat /\ handle' \in BOOLEAN
    <3>1. CASE handle' = TRUE /\ offset' = Len(newFile)
      <4>1. Len(newFile) \in Nat /\ Len(newFile) = Len(newFile) + Len(<<>>)
        BY <2>1
      <4>2. QED
        BY <2>1, <2>2, <2>3, <3>1, <4>1
    <3>2. CASE UNCHANGED <<handle, offset>>
      BY <2>1, <3>2
    <3>3. QED
      BY <1>2, <3>1, <3>2
  <2>6. TypeOK'
    BY <1>2, <2>1, <2>2, <2>3, <2>4, <2>5 DEF TypeInv, TypeOK
  <2>7. file' # Missing
    BY <2>1, <2>3, MissingIsNoFile
  <2>8. Shape'
    BY <1>2, <2>1, <2>2, <2>3, <2>4, <2>7 DEF Shape
  <2>9. QED
    BY <2>6, <2>8 DEF TypeInv
<1>3. CASE Renamed /\ handle' = TRUE /\ offset' = Len(newFile) /\ pc' = then
           /\ UNCHANGED errors
  BY <1>2, <1>3 DEF TypeInv, TypeOK
<1>4. CASE Fails /\ Renamed /\ UNCHANGED <<handle, offset>>
  <2>1. errors' \in 0..MaxErrors /\ pc' = then
    BY <1>4 DEF Fails, TypeInv, TypeOK
  <2>2. QED
    BY <1>2, <1>4, <2>1
<1>5. QED
  BY <1>1, <1>3, <1>4 DEF Rename

LEMMA TypesKept ==
  ASSUME TypeInv, [Next]_vars
  PROVE  TypeInv'
<1>1. CASE UNCHANGED vars
  <2>1. TypeOK' /\ Shape'
    BY <1>1 DEF TypeInv, TypeOK, Shape, vars, disk, memory
  <2>2. QED
    BY <2>1 DEF TypeInv
<1>2. QED
  BY <1>1, StartKeepsTypes, DiesKeepsTypes, SpillKeepsTypes, WitnessKeepsTypes,
     StreamKeepsTypes, SyncKeepsTypes, ShutdownKeepsTypes, AppendKeepsTypes,
     WriteNewFileKeepsTypes, RemoveOldKeepsTypes, RenameKeepsTypes DEF Next, Crash

LEMMA InitTypes == Init => TypeInv
<1> SUFFICES ASSUME Init PROVE TypeInv
  OBVIOUS
<1>1. last \in [Clocks -> 0..MaxClock] /\ Nothing \in Told
  BY DEF Init, Nothing, Told
<1>2. written \in Seq(Moment) /\ written # <<>> /\ buffer \in Seq(Half)
  <2>1. [told |-> Nothing, spoilt |-> {}] \in Moment
    BY <1>1 DEF Moment
  <2>2. QED
    BY <2>1 DEF Init
<1>3. /\ ~ handle /\ handle \in BOOLEAN /\ leaving \in BOOLEAN /\ broken \in BOOLEAN
      /\ offset \in Nat /\ clock \in 0..(MaxClock + 1)
      /\ starts \in 0..MaxStarts /\ errors \in 0..MaxErrors
  <2>1. ~ handle /\ handle \in BOOLEAN /\ leaving \in BOOLEAN /\ broken \in BOOLEAN
    BY DEF Init
  <2>2. offset = 0 /\ clock = 0 /\ starts = 0 /\ errors = 0
    BY DEF Init
  <2>3. QED
    BY <2>1, <2>2
<1>4. /\ file \in Seq(Half) \cup {Missing} /\ newFile \in Seq(Half) \cup {Missing}
      /\ alive \in SUBSET Node
      /\ pc \in {"down", "ready", "append", "clock", "sync", "compact", "remove",
                "rename"}
      /\ entry \in Lines \cup {NoLine} /\ then \in {"ready", "clock", "sync"}
  BY DEF Init
<1>5. TypeOK
  BY <1>1, <1>2, <1>3, <1>4 DEF TypeOK
<1>6. Shape
  BY <1>2 DEF Init, Shape
<1>7. QED
  BY <1>5, <1>6 DEF TypeInv

-----------------------------------------------------------------------------
(* Agreement.  What a line changes is its subject, whatever was known.       *)

LEMMA OnlySubject ==
  ASSUME NEW t \in Told, NEW l \in Lines \cup {NoLine}
  PROVE  Agree(Replayed(t, l), t, Subject(l))
<1>1. t.last \in [Clocks -> 0..MaxClock]
  BY DEF Told
<1>2. CASE l[1] \in Clocks
  <2>1. Subject(l) = { <<"last", l[1]>> }
        /\ Replayed(t, l) = [t EXCEPT !.last[l[1]] = l[2]]
    BY <1>2 DEF Subject, Replayed, Clocks
  <2>2. Replayed(t, l).alive = t.alive
        /\ Replayed(t, l).last = [t.last EXCEPT ![l[1]] = l[2]]
    BY <2>1 DEF Told
  <2>3. \A k \in Clocks : k # l[1] => Replayed(t, l).last[k] = t.last[k]
    BY <1>1, <2>2
  <2>4. QED
    BY <2>1, <2>2, <2>3 DEF Agree
<1>3. CASE l[1] \in {"alive", "not-alive"}
  <2>1. Subject(l) = { <<"alive", l[2]>> }
    BY <1>3 DEF Subject, Clocks
  <2>2. /\ Replayed(t, l).last = t.last
        /\ \A n \in Node : n # l[2] => (n \in Replayed(t, l).alive <=> n \in t.alive)
    BY <1>3 DEF Replayed, Clocks, Told
  <2>3. QED
    BY <2>1, <2>2 DEF Agree
<1>4. CASE l[1] \notin Clocks /\ l[1] \notin {"alive", "not-alive"}
  <2>1. Replayed(t, l) = t
    BY <1>4 DEF Replayed
  <2>2. QED
    BY <2>1 DEF Agree
<1>5. QED
  BY <1>2, <1>3, <1>4

LEMMA AgreeTransitive ==
  ASSUME NEW t, NEW u, NEW v, NEW a, NEW b, NEW c, a \subseteq c, b \subseteq c,
         Agree(t, u, a), Agree(u, v, b)
  PROVE  Agree(t, v, c)
  BY DEF Agree

LEMMA AgreeSymmetric ==
  ASSUME NEW t, NEW u, NEW a, Agree(t, u, a)
  PROVE  Agree(u, t, a)
  BY DEF Agree

LEMMA AgreeWithItself == \A t, a : Agree(t, t, a)
  BY DEF Agree

\* A line tells its subject anew.
LEMMA LineTells ==
  ASSUME NEW t \in Told, NEW u \in Told, NEW s, NEW l \in Lines, Agree(t, u, s)
  PROVE  Agree(Replayed(t, l), Replayed(u, l), s \ Subject(l))
<1>1. t.last \in [Clocks -> 0..MaxClock] /\ u.last \in [Clocks -> 0..MaxClock]
  BY DEF Told
<1>2. CASE l[1] \in Clocks
  <2>1. Subject(l) = { <<"last", l[1]>> }
        /\ Replayed(t, l) = [t EXCEPT !.last[l[1]] = l[2]]
        /\ Replayed(u, l) = [u EXCEPT !.last[l[1]] = l[2]]
    BY <1>2 DEF Subject, Replayed, Clocks
  <2>2. /\ Replayed(t, l).alive = t.alive /\ Replayed(u, l).alive = u.alive
        /\ Replayed(t, l).last = [t.last EXCEPT ![l[1]] = l[2]]
        /\ Replayed(u, l).last = [u.last EXCEPT ![l[1]] = l[2]]
    BY <2>1 DEF Told
  <2>3. \A k \in Clocks : k # l[1] => Replayed(t, l).last[k] = t.last[k]
                                      /\ Replayed(u, l).last[k] = u.last[k]
    BY <1>1, <2>2
  <2>4. Replayed(t, l).last[l[1]] = l[2] /\ Replayed(u, l).last[l[1]] = l[2]
    BY <1>1, <1>2, <2>2
  <2>5. ASSUME NEW k \in Clocks, <<"last", k>> \notin s \ Subject(l)
        PROVE  Replayed(t, l).last[k] = Replayed(u, l).last[k]
    <3>1. CASE k = l[1]
      BY <2>4, <3>1
    <3>2. CASE k # l[1]
      <4>1. <<"last", k>> \notin s
        BY <2>1, <2>5, <3>2
      <4>2. QED
        BY <2>3, <2>5, <3>2, <4>1 DEF Agree
    <3>3. QED
      BY <3>1, <3>2
  <2>6. ASSUME NEW n \in Node, <<"alive", n>> \notin s \ Subject(l)
        PROVE  n \in Replayed(t, l).alive <=> n \in Replayed(u, l).alive
    <3>1. <<"alive", n>> \notin s
      BY <2>1, <2>6
    <3>2. QED
      BY <2>2, <2>6, <3>1 DEF Agree
  <2>7. QED
    BY <2>5, <2>6 DEF Agree
<1>3. CASE l[1] \in {"alive", "not-alive"}
  <2>1. Subject(l) = { <<"alive", l[2]>> }
    BY <1>3 DEF Subject, Clocks
  <2>2. /\ Replayed(t, l).last = t.last /\ Replayed(u, l).last = u.last
        /\ \A n \in Node : n # l[2] => /\ n \in Replayed(t, l).alive <=> n \in t.alive
                                       /\ n \in Replayed(u, l).alive <=> n \in u.alive
        /\ l[2] \in Replayed(t, l).alive <=> l[2] \in Replayed(u, l).alive
    BY <1>3 DEF Replayed, Clocks, Told
  <2>3. QED
    BY <2>1, <2>2 DEF Agree
<1>4. CASE l[1] \notin Clocks /\ l[1] \notin {"alive", "not-alive"}
  <2>1. Replayed(t, l) = t /\ Replayed(u, l) = u /\ Subject(l) = {}
    BY <1>4 DEF Replayed, Subject
  <2>2. QED
    BY <2>1 DEF Agree
<1>5. QED
  BY <1>2, <1>3, <1>4

\* What is read where two lines are glued together is of what they speak of.
LEMMA GluedSubject ==
  ASSUME NEW h \in Lines, NEW l \in Lines
  PROVE  Subject(Glued(h, l)) \subseteq Subject(h) \cup Subject(l)
         /\ Subject(NoLine) = {}
<1>1. CASE HarmfulCuts /\ h[1] = "event-clock" /\ l[1] = "clock"
  <2>1. Glued(h, l) = <<"event-clock", l[2]>>
    BY <1>1 DEF Glued
  <2>2. Subject(Glued(h, l)) = { <<"last", "event-clock">> }
    BY <2>1 DEF Subject, Clocks
  <2>3. Subject(h) = { <<"last", "event-clock">> }
    BY <1>1 DEF Subject, Clocks
  <2>4. QED
    BY <2>2, <2>3 DEF Subject, NoLine, Clocks
<1>2. CASE ~ (HarmfulCuts /\ h[1] = "event-clock" /\ l[1] = "clock")
  <2>1. Glued(h, l) \in {h, NoLine} /\ Subject(NoLine) = {}
    BY <1>2 DEF Glued, Subject, NoLine, Clocks
  <2>2. QED
    BY <2>1
<1>3. QED
  BY <1>1, <1>2

\* A line is recorded: what the file will tell agrees with memory, but for what
\* is spoilt then.
LEMMA RecordAgrees ==
  ASSUME NEW f \in Seq(Half), NEW l \in Lines, NEW t \in Told, NEW s,
         Agree(Replay(f), t, s)
  PROVE  Agree(Replay(f \o Halves(l)), Replayed(t, l), SpoiltBy(f, l, s))
<1> DEFINE g == f \o Halves(l)
<1>1. /\ ~ Torn(f) => Replay(g) = Replayed(Replay(f), l)
      /\ Torn(f) => /\ Last(f)[1] \in Lines
                    /\ \E m \in {NoLine, Glued(Last(f)[1], l)} :
                         Replay(g) = Replayed(Replay(f), m)
  BY ReadLine
<1>2. Replay(f) \in Told
  BY ReplayType
<1> HIDE DEF g
<1>3. CASE ~ Torn(f)
  <2>1. Agree(Replayed(Replay(f), l), Replayed(t, l), s \ Subject(l))
    BY <1>2, LineTells
  <2>2. QED
    BY <1>1, <1>3, <2>1 DEF SpoiltBy, g
<1>4. CASE Torn(f)
  <2> DEFINE h == Last(f)[1]
             c == s \cup Subject(h) \cup Subject(l)
  <2>1. PICK m \in {NoLine, Glued(h, l)} : Replay(g) = Replayed(Replay(f), m)
    BY <1>1, <1>4
  <2>2. h \in Lines
    BY <1>1, <1>4
  <2> HIDE DEF h
  <2>3. m \in Lines \cup {NoLine} /\ Subject(m) \subseteq c
    BY <2>1, <2>2, GluedType, GluedSubject
  <2>4. Agree(Replay(g), Replay(f), Subject(m))
    BY <1>2, <2>1, <2>3, OnlySubject
  <2>5. Agree(t, Replayed(t, l), Subject(l))
    BY OnlySubject, AgreeSymmetric
  <2>6. Agree(Replay(g), t, c)
    BY <2>3, <2>4, AgreeTransitive
  <2>7. Agree(Replay(g), Replayed(t, l), c)
    BY <2>5, <2>6, AgreeTransitive
  <2>8. QED
    BY <1>4, <2>7 DEF SpoiltBy, g, h
<1>5. QED
  BY <1>3, <1>4

-----------------------------------------------------------------------------
(* What the file tells.  After a write that failed nothing more reaches the  *)
(* file, and only the new file of a compaction is known to be right, from    *)
(* which Rename starts anew.                                                 *)

InHand == IF pc = "append" THEN Halves(entry) ELSE <<>>

\* All that may get into the file before anything else is recorded.
Coming == IF broken THEN Content ELSE (Content \o buffer) \o InHand

\* However much of g from n on gets to the file, what it tells then is in W.
Recalls(n, g, W) ==
  \A k \in n..Len(g) : \E w \in W : Agree(Read(g)[k], w.told, w.spoilt)

Tells ==
  /\ Last(written).told = Memory
  /\ Agree(Replay(Coming), Memory, Last(written).spoilt)

Records ==
  /\ pc # "down" /\ ~ broken => Tells
  /\ pc \in {"remove", "rename"} => /\ ~ Torn(newFile) /\ Replay(newFile) = Memory
                                    /\ Last(written).told = Memory
  /\ Content # Missing => Recalls(Len(Content), Coming, Range(written))

Inv == TypeInv /\ Records

LEMMA RangeOfWritten ==
  ASSUME NEW w \in Seq(Moment), w # <<>>, NEW x
  PROVE  /\ Last(w) \in Range(w) /\ Last(Append(w, x)) = x
         /\ x \in Range(<<x>>) /\ Last(<<x>>) = x
         /\ x \in Moment => Range(w) \subseteq Range(Append(w, x))
                            /\ x \in Range(Append(w, x))
<1>1. Len(w) \in Nat /\ Len(w) > 0 /\ DOMAIN w = 1..Len(w)
  OBVIOUS
<1>2. Last(w) \in Range(w)
  BY <1>1 DEF Last, Range
<1>3. Last(Append(w, x)) = x
  BY <1>1 DEF Last
<1>4. x \in Range(<<x>>) /\ Last(<<x>>) = x
  <2>1. 1 \in DOMAIN <<x>> /\ <<x>>[1] = x /\ Len(<<x>>) = 1
    OBVIOUS
  <2>2. QED
    BY <2>1, Zenon DEF Range, Last
<1>5. ASSUME x \in Moment, NEW y \in Range(w)
      PROVE  y \in Range(Append(w, x))
  <2>1. PICK k \in 1..Len(w) : y = w[k]
    BY <1>1, <1>5 DEF Range
  <2>2. k \in DOMAIN Append(w, x) /\ Append(w, x)[k] = y
    BY <1>1, <1>5, <2>1
  <2>3. QED
    BY <2>2 DEF Range
<1>6. ASSUME x \in Moment
      PROVE  x \in Range(Append(w, x))
  <2>1. Len(w) + 1 \in DOMAIN Append(w, x) /\ Append(w, x)[Len(w) + 1] = x
    BY <1>1, <1>6
  <2>2. QED
    BY <2>1 DEF Range
<1>7. QED
  BY <1>2, <1>3, <1>4, <1>5, <1>6

\* Less of the same, and more that was recorded.
LEMMA RecallsLess ==
  ASSUME NEW g \in Seq(Half), NEW h \in Seq(Half), NEW n \in Nat, NEW m \in Nat,
         n <= m, Len(h) <= Len(g), \A i \in 1..Len(h) : h[i] = g[i],
         NEW V, NEW W, V \subseteq W, Recalls(n, g, V)
  PROVE  Recalls(m, h, W)
<1>1. SUFFICES ASSUME NEW k \in m..Len(h)
               PROVE  \E w \in W : Agree(Read(h)[k], w.told, w.spoilt)
  BY DEF Recalls
<1>2. /\ k \in n..Len(g) /\ k \in 0..Len(h) /\ Len(h) \in Nat
      /\ Len(h) <= Len(h)
  OBVIOUS
<1>3. \A i \in 0..Len(h) : Read(h)[i] = Read(g)[i]
  BY <1>2, ReadPrefix
<1>4. PICK w \in V : Agree(Read(g)[k], w.told, w.spoilt)
  BY <1>2 DEF Recalls
<1>5. QED
  BY <1>2, <1>3, <1>4

\* One thing to recall.
LEMMA RecallsOne ==
  ASSUME NEW f \in Seq(Half), NEW W, NEW w \in W, Agree(Replay(f), w.told, w.spoilt)
  PROVE  Recalls(Len(f), f, W)
<1>1. Len(f) \in Nat /\ Len(f)..Len(f) = {Len(f)} /\ Replay(f) = Read(f)[Len(f)]
  BY Reading
<1>2. QED
  BY <1>1 DEF Recalls

\* What the pieces are, where the process runs.
LEMMA ComingType ==
  ASSUME TypeInv, pc # "down"
  PROVE  /\ Content \in Seq(Half) /\ Content # Missing /\ buffer \in Seq(Half)
         /\ InHand \in Seq(Half) /\ Coming \in Seq(Half)
         /\ Content \o buffer \in Seq(Half)
         /\ Len(Content) \in Nat /\ Len(Content) <= Len(Coming)
         /\ \A i \in 1..Len(Content) : Coming[i] = Content[i]
         /\ broken => buffer = <<>>
         /\ handle => Content = file
<1>1. /\ Content \in Seq(Half) /\ buffer \in Seq(Half)
      /\ Content \o buffer \in Seq(Half) /\ handle => Content = file
  BY ContentType
<1>2. Content # Missing
  BY <1>1, MissingIsNoFile
<1>3. InHand \in Seq(Half)
  <2>1. pc = "append" => Halves(entry) \in Seq(Half)
    BY HalvesType DEF TypeInv, Shape
  <2>2. QED
    BY <2>1 DEF InHand
<1>4. broken => buffer = <<>>
  BY DEF TypeInv, Shape
<1> DEFINE t == Content \o buffer
           g == t \o InHand
<1>5. /\ Len(Content) \in Nat /\ Len(t) = Len(Content) + Len(buffer)
      /\ Len(buffer) \in Nat /\ \A i \in 1..Len(Content) : t[i] = Content[i]
  BY <1>1
<1>6. t \in Seq(Half)
  BY <1>1
<1> HIDE DEF t
<1>7. /\ g \in Seq(Half) /\ Len(g) = Len(t) + Len(InHand) /\ Len(InHand) \in Nat
      /\ \A i \in 1..Len(t) : g[i] = t[i]
  BY <1>3, <1>6
<1> HIDE DEF g
<1>8. Len(Content) <= Len(g) /\ \A i \in 1..Len(Content) : g[i] = Content[i]
  BY <1>5, <1>7
<1>9. Coming = IF broken THEN Content ELSE g
  BY DEF Coming, t, g
<1>10. QED
  BY <1>1, <1>2, <1>3, <1>4, <1>5, <1>7, <1>8, <1>9

\* What is there already is among what may be recalled.
LEMMA RecallsContent ==
  ASSUME Inv, Content # Missing
  PROVE  /\ Content \in Seq(Half)
         /\ Recalls(Len(Content), Content, Range(written))
<1>1. Recalls(Len(Content), Coming, Range(written))
  BY DEF Inv, Records
<1>2. CASE pc # "down"
  <2>1. /\ Content \in Seq(Half) /\ Coming \in Seq(Half) /\ Len(Content) \in Nat
        /\ Len(Content) <= Len(Coming) /\ Len(Content) <= Len(Content)
        /\ \A i \in 1..Len(Content) : Content[i] = Coming[i]
    BY <1>2, ComingType DEF Inv
  <2>2. QED
    BY <1>1, <2>1, RecallsLess
<1>3. CASE pc = "down"
  <2>1. /\ Content \in Seq(Half) /\ buffer = <<>>
    BY <1>3, ContentType DEF Inv, TypeInv, Shape
  <2>2. Coming = Content
    <3>1. (Content \o <<>>) \o <<>> = Content
      BY <2>1
    <3>2. QED
      BY <1>3, <2>1, <3>1 DEF Coming, InHand
  <2>3. QED
    BY <1>1, <2>1, <2>2
<1>4. QED
  BY <1>2, <1>3

\* With nothing to write, all that is coming is there.
LEMMA NothingComing ==
  ASSUME buffer = <<>>, pc # "append", Content \in Seq(Half)
  PROVE  Coming = Content
<1>1. (Content \o <<>>) \o <<>> = Content
  OBVIOUS
<1>2. QED
  BY <1>1 DEF Coming, InHand

LEMMA DiesKeepsRecords ==
  ASSUME Inv, Dies
  PROVE  Records'
<1>1. /\ pc' = "down" /\ buffer' = <<>> /\ UNCHANGED <<file, newFile, written>>
  BY DEF Dies, Ends
<1>2. Content' = Content
  BY <1>1 DEF Content
<1>3. ASSUME Content # Missing
      PROVE  Recalls(Len(Content), Coming', Range(written))
  <2>1. Content \in Seq(Half) /\ Recalls(Len(Content), Content, Range(written))
    BY <1>3, RecallsContent
  <2>2. Coming' = Content
    <3>1. (Content \o <<>>) \o <<>> = Content
      BY <2>1
    <3>2. QED
      BY <1>1, <1>2, <3>1 DEF Coming, InHand
  <2>3. QED
    BY <2>1, <2>2
<1>4. QED
  BY <1>1, <1>2, <1>3 DEF Records

LEMMA StartKeepsRecords ==
  ASSUME Inv, NewSnapshotter
  PROVE  Records'
<1> DEFINE f == IF file = Missing THEN <<>> ELSE file
           t == Replay(f)
           m == [told |-> t, spoilt |-> {}]
<1>1. f \in Seq(Half)
  BY DEF Inv, TypeInv, TypeOK
<1>2. t \in Told /\ f # Missing
  BY <1>1, ReplayType, MissingIsNoFile
<1>3. /\ pc = "down" /\ file' = f /\ alive' = t.alive /\ last' = t.last
      /\ pc' = "ready" /\ written' = <<m>> /\ UNCHANGED <<buffer, broken>>
  BY DEF NewSnapshotter
<1>4. m.told = t /\ m.spoilt = {}
  OBVIOUS
<1>5. m \in Range(<<m>>) /\ Last(<<m>>) = m
  <2>1. 1 \in DOMAIN <<m>> /\ <<m>>[1] = m /\ Len(<<m>>) = 1
    OBVIOUS
  <2> HIDE DEF m
  <2>2. QED
    BY <2>1, Zenon DEF Range, Last
<1> HIDE DEF f, t, m
<1>6. buffer = <<>>
  BY <1>3 DEF Inv, TypeInv, Shape
<1>7. Memory' = t
  BY <1>2, <1>3 DEF Memory, Told
<1>8. Content' = f /\ Coming' = f
  <2>1. Content' = f
    BY <1>2, <1>3 DEF Content
  <2>2. (f \o <<>>) \o <<>> = f
    BY <1>1
  <2>3. QED
    BY <1>3, <1>6, <2>1, <2>2 DEF Coming, InHand
<1>9. Agree(Replay(f), t, {})
  BY AgreeWithItself DEF t
<1>10. Tells'
  BY <1>3, <1>4, <1>5, <1>7, <1>8, <1>9 DEF Tells
<1>11. Recalls(Len(f), f, Range(<<m>>))
  BY <1>1, <1>4, <1>5, <1>9, RecallsOne
<1>12. QED
  BY <1>3, <1>8, <1>10, <1>11 DEF Records

LEMMA SpillKeepsRecords ==
  ASSUME Inv, Spill
  PROVE  Records'
<1>1. PICK n \in 1..Len(buffer) :
        /\ file' = file \o SubSeq(buffer, 1, n)
        /\ buffer' = SubSeq(buffer, n + 1, Len(buffer))
  BY DEF Spill
<1>2. /\ pc \in {"ready", "append", "clock", "sync"} /\ handle /\ ~ broken
      /\ UNCHANGED <<broken, alive, last, pc, entry, written>>
  BY DEF Spill, memory
<1>3. /\ file \in Seq(Half) /\ buffer \in Seq(Half) /\ Content = file
      /\ Coming \in Seq(Half) /\ Content # Missing
  BY <1>2, ComingType, ContentType DEF Inv
<1>4. /\ file' \in Seq(Half) /\ Len(file) <= Len(file')
      /\ file' \o buffer' = file \o buffer
  BY <1>1, <1>3, SpillMoves
<1>5. Content' = file' /\ Coming' = Coming /\ Memory' = Memory
  <2>1. Content' = file'
    BY <1>4, MissingIsNoFile DEF Content
  <2>2. QED
    BY <1>2, <1>3, <1>4, <2>1 DEF Coming, InHand, Memory
<1>6. Recalls(Len(file), Coming, Range(written))
  BY <1>3 DEF Inv, Records
<1>7. Recalls(Len(file'), Coming, Range(written))
  BY <1>3, <1>4, <1>6 DEF Recalls
<1>8. Tells'
  BY <1>2, <1>5 DEF Inv, Records, Tells
<1>9. QED
  BY <1>2, <1>5, <1>7, <1>8 DEF Records

\* Steps that touch nothing of this.
LEMMA SameRecords ==
  ASSUME Inv, UNCHANGED <<file, newFile, buffer, broken, alive, last, entry, written>>,
         UNCHANGED pc
         \/ /\ pc \in {"clock", "compact", "remove", "rename"}
            /\ pc' \in {"ready", "clock", "sync"}
  PROVE  Records'
<1>1. Content' = Content /\ Memory' = Memory
  BY DEF Content, Memory
<1>2. Coming' = Coming
  BY <1>1 DEF Coming, InHand
<1>3. QED
  BY <1>1, <1>2 DEF Inv, Records, Tells

\* A line to append, and the memory as that line makes it.
LEMMA RecordKeepsRecords ==
  ASSUME Inv, NEW l \in Lines, NEW next, Record(l, next), pc \in {"ready", "clock"},
         Memory' = Replayed(Memory, l), Memory' \in Told
  PROVE  Records'
<1> DEFINE f == Content \o buffer
           g == f \o Halves(l)
           m == [told |-> Memory',
                 spoilt |-> SpoiltBy(f, l, Last(written).spoilt)]
<1>1. /\ entry' = l /\ pc' = "append"
      /\ UNCHANGED <<file, newFile, buffer, handle, broken>>
      /\ written' = IF broken THEN written ELSE Append(written, m)
  BY DEF Record, disk
<1>2. /\ Content \in Seq(Half) /\ buffer \in Seq(Half) /\ f \in Seq(Half)
      /\ Content # Missing /\ Len(Content) \in Nat
      /\ written \in Seq(Moment) /\ written # <<>>
  BY ComingType DEF Inv, TypeInv, TypeOK, Shape
<1>3. Content' = Content
  BY <1>1 DEF Content
<1>4. CASE broken
  <2>1. Coming' = Coming
    BY <1>1, <1>3, <1>4 DEF Coming
  <2>2. QED
    BY <1>1, <1>3, <1>4, <2>1 DEF Inv, Records
<1>5. CASE ~ broken
  <2>1. Coming = f /\ Coming' = g
    <3>1. f \o <<>> = f
      BY <1>2
    <3>2. Coming = f
      BY <1>5, <3>1 DEF Coming, InHand
    <3>3. Coming' = g
      BY <1>1, <1>3, <1>5 DEF Coming, InHand
    <3>4. QED
      BY <3>2, <3>3
  <2>2. /\ Last(written).told = Memory
        /\ Agree(Replay(f), Memory, Last(written).spoilt)
        /\ Recalls(Len(Content), f, Range(written))
    BY <1>2, <1>5, <2>1 DEF Inv, Records, Tells
  <2>3. Memory \in Told
    BY DEF Inv, TypeInv, TypeOK, Memory, Told
  <2>4. Agree(Replay(g), Memory', SpoiltBy(f, l, Last(written).spoilt))
    <3> HIDE DEF f
    <3>1. QED
      BY <1>2, <2>2, <2>3, RecordAgrees
  <2>5. m \in Moment /\ m.told = Memory'
        /\ m.spoilt = SpoiltBy(f, l, Last(written).spoilt)
    <3>1. Last(written).spoilt \in SUBSET Subjects
      BY <1>2, FlushedType DEF Moment
    <3> HIDE DEF f
    <3>2. SpoiltBy(f, l, Last(written).spoilt) \in SUBSET Subjects
      BY <1>2, <3>1, SpoiltType
    <3>3. QED
      BY <3>2 DEF Moment
  <2> HIDE DEF m
  <2>6. /\ written' = Append(written, m) /\ Last(written') = m
        /\ m \in Range(written') /\ Range(written) \subseteq Range(written')
    BY <1>1, <1>2, <1>5, <2>5, RangeOfWritten
  <2>7. Tells'
    BY <2>1, <2>4, <2>5, <2>6 DEF Tells
  <2>8. /\ g \in Seq(Half) /\ Len(g) = Len(f) + 2 /\ Len(f) \in Nat
        /\ \A i \in 0..Len(f) : Read(g)[i] = Read(f)[i]
        /\ Read(g)[Len(f) + 1] = Replay(f)
        /\ Replay(f) = Read(f)[Len(f)] /\ Replay(g) = Read(g)[Len(g)]
        /\ Len(Content) <= Len(f)
    <3>1. Len(Content) <= Len(f) /\ Len(f) \in Nat
      BY <1>2
    <3> HIDE DEF f
    <3>2. /\ g \in Seq(Half) /\ Len(g) = Len(f) + 2
          /\ \A i \in 0..Len(f) : Read(g)[i] = Read(f)[i]
          /\ Read(g)[Len(f) + 1] = Replay(f)
      BY <1>2, ReadLine
    <3> HIDE DEF g
    <3>3. Replay(f) = Read(f)[Len(f)] /\ Replay(g) = Read(g)[Len(g)]
      BY <1>2, <3>2, Reading
    <3>4. QED
      BY <3>1, <3>2, <3>3
  <2> HIDE DEF f, g
  <2>9. Recalls(Len(Content), g, Range(written'))
    <3>1. SUFFICES ASSUME NEW k \in Len(Content)..Len(g)
                   PROVE  \E w \in Range(written') :
                            Agree(Read(g)[k], w.told, w.spoilt)
      BY DEF Recalls
    <3>2. \A i \in Len(Content)..Len(f) :
            \E w \in Range(written) : Agree(Read(f)[i], w.told, w.spoilt)
      BY <2>2 DEF Recalls
    <3>3. CASE k \in Len(Content)..Len(f)
      <4>1. PICK w \in Range(written) : Agree(Read(f)[k], w.told, w.spoilt)
        BY <3>2, <3>3
      <4>2. Read(g)[k] = Read(f)[k]
        BY <1>2, <2>8, <3>3
      <4>3. QED
        BY <2>6, <4>1, <4>2
    <3>4. CASE k = Len(f) + 1
      <4>1. Len(f) \in Len(Content)..Len(f)
        BY <1>2, <2>8
      <4>2. PICK w \in Range(written) : Agree(Read(f)[Len(f)], w.told, w.spoilt)
        BY <3>2, <4>1
      <4>3. QED
        BY <2>6, <2>8, <3>4, <4>2
    <3>5. CASE k = Len(f) + 2
      BY <2>4, <2>5, <2>6, <2>8, <3>5
    <3>6. k \in Len(Content)..Len(f) \/ k = Len(f) + 1 \/ k = Len(f) + 2
      BY <1>2, <2>8, <3>1
    <3>7. QED
      BY <3>3, <3>4, <3>5, <3>6
  <2>10. QED
    BY <1>1, <1>3, <2>1, <2>7, <2>9 DEF Records
<1>6. QED
  BY <1>4, <1>5

LEMMA StreamKeepsRecords ==
  ASSUME Inv, TypeInv',
         \/ \E n \in Node, status \in {"alive", "not-alive"} : MemberEvent(n, status)
         \/ \E time \in 1..MaxClock : UserEvent(time)
         \/ UpdateClock \/ Leave
  PROVE  Records'
<1>1. /\ alive \in SUBSET Node /\ last \in [Clocks -> 0..MaxClock]
      /\ clock \in 0..(MaxClock + 1)
  BY DEF Inv, TypeInv, TypeOK
<1>2. Memory' \in Told /\ Memory' = [alive |-> alive', last |-> last']
  BY DEF TypeInv, TypeOK, Memory, Told
<1>3. ASSUME NEW n \in Node, NEW status \in {"alive", "not-alive"},
             MemberEvent(n, status)
      PROVE  Records'
  <2> DEFINE l == <<status, n>>
  <2>1. l \in Lines /\ l[1] = status /\ l[2] = n
    BY DEF Lines
  <2>2. /\ Record(l, "clock") /\ pc = "ready" /\ last' = last
        /\ alive' = IF status = "alive" THEN alive \cup {n} ELSE alive \ {n}
    BY <1>3 DEF MemberEvent
  <2> HIDE DEF l
  <2>3. CASE status = "alive"
    <3>1. Replayed(Memory, l) = [Memory EXCEPT !.alive = @ \cup {n}]
      BY <2>1, <2>3 DEF Replayed, Clocks
    <3>2. Replayed(Memory, l) = [alive |-> alive', last |-> last']
      BY <2>2, <2>3, <3>1 DEF Memory
    <3>3. QED
      BY <1>2, <2>1, <2>2, <3>2, RecordKeepsRecords
  <2>4. CASE status = "not-alive"
    <3>1. Replayed(Memory, l) = [Memory EXCEPT !.alive = @ \ {n}]
      BY <2>1, <2>4 DEF Replayed, Clocks
    <3>2. Replayed(Memory, l) = [alive |-> alive', last |-> last']
      BY <2>2, <2>4, <3>1 DEF Memory
    <3>3. QED
      BY <1>2, <2>1, <2>2, <3>2, RecordKeepsRecords
  <2>5. QED
    BY <2>3, <2>4
<1>4. ASSUME NEW k \in Clocks, NEW time \in 0..MaxClock,
             last' = [last EXCEPT ![k] = time], alive' = alive
      PROVE  <<k, time>> \in Lines /\ Memory' = Replayed(Memory, <<k, time>>)
  <2> DEFINE l == <<k, time>>
  <2>1. l \in Lines
    BY DEF Lines
  <2>2. l[1] = k /\ l[2] = time /\ k # "alive" /\ k # "not-alive"
    BY DEF Clocks
  <2> HIDE DEF l
  <2>3. Replayed(Memory, l) = [Memory EXCEPT !.last[k] = time]
    BY <2>2 DEF Replayed
  <2>4. [Memory EXCEPT !.last[k] = time] = [alive |-> alive', last |-> last']
    BY <1>4 DEF Memory
  <2>5. QED
    BY <1>2, <2>1, <2>3, <2>4 DEF l
<1>5. ASSUME NEW time \in 1..MaxClock, UserEvent(time)
      PROVE  Records'
  <2>1. /\ Record(<<"event-clock", time>>, "ready") /\ pc = "ready"
        /\ last' = [last EXCEPT !["event-clock"] = time] /\ alive' = alive
    BY <1>5 DEF UserEvent
  <2>2. "event-clock" \in Clocks /\ time \in 0..MaxClock
    BY DEF Clocks
  <2>3. QED
    BY <1>2, <1>4, <2>1, <2>2, RecordKeepsRecords
<1>6. CASE UpdateClock
  <2>1. CASE clock - 1 > last["clock"] /\ Record(<<"clock", clock - 1>>, "ready")
             /\ last' = [last EXCEPT !["clock"] = clock - 1]
             /\ UNCHANGED <<alive, leaving>>
    <3>1. clock - 1 \in 0..MaxClock /\ "clock" \in Clocks
      BY <1>1, <2>1 DEF Clocks
    <3>2. pc \in {"ready", "clock"}
      BY <1>6 DEF UpdateClock
    <3>3. QED
      BY <1>2, <1>4, <2>1, <3>1, <3>2, RecordKeepsRecords
  <2>2. CASE /\ pc = "clock" /\ pc' = "ready"
             /\ UNCHANGED <<disk, memory, clock, leaving, entry, then, starts,
                            errors, written>>
    BY <2>2, SameRecords DEF disk, memory
  <2>3. QED
    BY <1>6, <2>1, <2>2 DEF UpdateClock
<1>7. CASE Leave
  <2> DEFINE l == <<"leave", "leave">>
  <2>1. l \in Lines /\ l[1] = "leave"
    BY DEF Lines
  <2>2. /\ Record(l, "sync") /\ pc = "ready" /\ UNCHANGED <<alive, last>>
    BY <1>7 DEF Leave, memory
  <2> HIDE DEF l
  <2>3. Replayed(Memory, l) = Memory /\ Memory' = Memory
    BY <2>1, <2>2 DEF Replayed, Clocks, Memory
  <2>4. QED
    BY <1>2, <2>1, <2>2, <2>3, RecordKeepsRecords
<1>8. QED
  BY <1>3, <1>5, <1>6, <1>7

\* All that is coming is given to Flush.  What the file tells afterwards was
\* recorded, and if there was no error it is what is in memory.
LEMMA FlushRecords ==
  ASSUME Inv, pc # "down", handle, NEW all, all = buffer \o InHand,
         Flushes(all) \/ FlushFails(all)
  PROVE  /\ file' \in Seq(Half) /\ file' # Missing
         /\ Recalls(Len(file'), file', Range(written'))
         /\ Flushes(all) => /\ Last(written') = Last(written)
                            /\ Last(written).told = Memory
                            /\ Agree(Replay(file'), Memory, Last(written).spoilt)
<1>1. /\ file \in Seq(Half) /\ Content = file /\ buffer \in Seq(Half)
      /\ InHand \in Seq(Half) /\ Coming \in Seq(Half) /\ Len(file) \in Nat
      /\ written \in Seq(Moment) /\ written # <<>> /\ Content # Missing
      /\ Len(file) <= Len(Coming)
  BY ComingType DEF Inv, TypeInv, TypeOK, Shape
<1>2. all \in Seq(Half) /\ file \o all = (file \o buffer) \o InHand
  <2>1. buffer \o InHand \in Seq(Half)
    BY <1>1, HalvesJoined
  <2>2. file \in Seq(Half) /\ buffer \in Seq(Half) /\ InHand \in Seq(Half)
    BY <1>1
  <2>3. (file \o buffer) \o InHand = file \o (buffer \o InHand)
    BY <2>2, HalvesAssociate, Zenon
  <2>4. QED
    BY <2>1, <2>3
<1>3. Recalls(Len(file), Coming, Range(written))
  BY <1>1 DEF Inv, Records
<1>4. ~ broken => Coming = file \o all
  BY <1>1, <1>2 DEF Coming
<1>5. CASE Flushes(all)
  <2>1. ~ broken /\ file' = Coming /\ written' = <<Last(written)>>
    BY <1>4, <1>5 DEF Flushes
  <2>2. /\ Last(written).told = Memory
        /\ Agree(Replay(Coming), Memory, Last(written).spoilt)
    BY <2>1 DEF Inv, Records, Tells
  <2> DEFINE m == Last(written)
  <2>3. m \in Range(<<m>>) /\ Last(<<m>>) = m
    <3>1. m \in Moment
      BY <1>1, FlushedType
    <3>2. QED
      BY <1>1, RangeOfWritten
  <2>4. Recalls(Len(Coming), Coming, Range(<<m>>))
    BY <1>1, <2>2, <2>3, RecallsOne
  <2>5. file' # Missing
    BY <1>1, <2>1, MissingIsNoFile
  <2>6. QED
    BY <1>1, <2>1, <2>2, <2>3, <2>4, <2>5
<1>6. CASE ~ broken /\ UNCHANGED written
           /\ \E n \in 0..(Len(all) - 1) : file' = file \o SubSeq(all, 1, n)
  <2>1. PICK n \in 0..(Len(all) - 1) : file' = file \o SubSeq(all, 1, n)
    BY <1>6
  <2>2. n \in 0..Len(all) /\ Len(all) \in Nat
    BY <1>2
  <2>3. /\ file' \in Seq(Half) /\ Len(file') = Len(file) + n
        /\ \A i \in 1..Len(file') : file'[i] = Coming[i]
    <3>1. file \in Seq(Half) /\ all \in Seq(Half)
      BY <1>1, <1>2
    <3>2. StartOf(file \o SubSeq(all, 1, n), file \o all, Len(file) + n)
      BY <2>2, <3>1, HalvesCut, Zenon
    <3>3. StartOf(file', Coming, Len(file) + n)
      BY <1>4, <1>6, <2>1, <3>2, Zenon
    <3>4. QED
      BY <3>3, Zenon DEF StartOf
  <2>4. Len(Coming) = Len(file) + Len(all)
    BY <1>1, <1>2, <1>4, <1>6
  <2>5. Len(file) <= Len(file') /\ Len(file') <= Len(Coming) /\ Len(file') \in Nat
    BY <1>1, <2>2, <2>3, <2>4
  <2>6. Recalls(Len(file'), file', Range(written))
    BY <1>1, <1>3, <2>3, <2>5, RecallsLess
  <2>7. file' # Missing
    BY <2>3, MissingIsNoFile
  <2>8. ~ Flushes(all)
    <3>1. SUFFICES ASSUME Flushes(all) PROVE FALSE
      OBVIOUS
    <3>2. Len(file') = Len(file) + Len(all)
      BY <1>1, <1>2, <3>1 DEF Flushes
    <3>3. QED
      BY <1>1, <2>2, <2>3, <3>2
  <2>9. QED
    BY <1>6, <2>3, <2>6, <2>7, <2>8
<1>7. CASE broken /\ UNCHANGED <<file, written>>
  <2>1. Coming = file
    BY <1>1, <1>7 DEF Coming
  <2>2. QED
    BY <1>1, <1>3, <1>7, <2>1, MissingIsNoFile DEF Flushes
<1>8. QED
  BY <1>5, <1>6, <1>7 DEF FlushFails

\* The step after it, if the goroutine goes on.
LEMMA AfterFlush ==
  ASSUME Inv, pc # "down", handle, NEW all, all = buffer \o InHand,
         \/ Flushes(all) /\ UNCHANGED broken
         \/ FlushFails(all) /\ broken' = TRUE,
         buffer' = <<>>, pc' \notin {"down", "append", "remove", "rename"},
         UNCHANGED <<alive, last>>
  PROVE  Records'
<1>1. /\ file' \in Seq(Half) /\ file' # Missing
      /\ Recalls(Len(file'), file', Range(written'))
      /\ Flushes(all) => /\ Last(written') = Last(written)
                         /\ Last(written).told = Memory
                         /\ Agree(Replay(file'), Memory, Last(written).spoilt)
  BY FlushRecords
<1>2. Content' = file' /\ Coming' = file' /\ Memory' = Memory
  <2>1. Content' = file'
    BY <1>1 DEF Content
  <2>2. (file' \o <<>>) \o <<>> = file'
    BY <1>1
  <2>3. QED
    BY <2>1, <2>2 DEF Coming, InHand, Memory
<1>3. ~ broken' => Flushes(all)
  OBVIOUS
<1>4. ~ broken' => Tells'
  BY <1>1, <1>2, <1>3 DEF Tells
<1>5. QED
  BY <1>1, <1>2, <1>4 DEF Records

LEMMA BufferIsAll ==
  ASSUME Inv, pc # "append"
  PROVE  buffer = buffer \o InHand
<1>1. buffer \in Seq(Half)
  BY DEF Inv, TypeInv, TypeOK
<1>2. buffer \o <<>> = buffer
  BY <1>1
<1>3. QED
  BY <1>2 DEF InHand

LEMMA EndsKeepRecords ==
  ASSUME Inv, Sync \/ Shutdown
  PROVE  Records'
<1>1. CASE Dies
  BY <1>1, DiesKeepsRecords
<1>2. CASE /\ handle /\ buffer' = <<>> /\ pc = "sync" /\ pc' = "ready"
           /\ \/ Flushes(buffer) /\ UNCHANGED broken
              \/ FlushFails(buffer) /\ broken' = TRUE
           /\ UNCHANGED <<alive, last>>
  BY <1>2, BufferIsAll, AfterFlush
<1>3. CASE /\ handle /\ pc = "ready" /\ (Flushes(buffer) \/ FlushFails(buffer))
           /\ Ends
  <2>1. /\ file' \in Seq(Half) /\ file' # Missing
        /\ Recalls(Len(file'), file', Range(written'))
    BY <1>3, BufferIsAll, FlushRecords
  <2>2. pc' = "down" /\ buffer' = <<>>
    BY <1>3 DEF Ends
  <2>3. Content' = file' /\ Coming' = file'
    <3>1. Content' = file'
      BY <2>1 DEF Content
    <3>2. (file' \o <<>>) \o <<>> = file'
      BY <2>1
    <3>3. QED
      BY <2>2, <3>1, <3>2 DEF Coming, InHand
  <2>4. QED
    BY <2>1, <2>2, <2>3 DEF Records
<1>4. QED
  BY <1>1, <1>2, <1>3 DEF Sync, Shutdown, memory

LEMMA AppendKeepsRecords ==
  ASSUME Inv, AppendLine
  PROVE  Records'
<1> DEFINE all == buffer \o Halves(entry)
<1>1. /\ pc = "append" /\ then \in {"ready", "clock", "sync"}
  BY DEF AppendLine, Inv, TypeInv, TypeOK
<1>2. all = buffer \o InHand
  BY <1>1 DEF InHand
<1>3. CASE Dies
  BY <1>3, DiesKeepsRecords
<1>4. CASE /\ handle
           /\ \/ /\ \/ ~ broken /\ buffer' = all /\ UNCHANGED <<file, written, errors>>
                    \/ Flushes(all) /\ buffer' = <<>>
                 /\ pc' = IF offset + 2 > MaxSize THEN "compact" ELSE then
                 /\ UNCHANGED broken
              \/ /\ FlushFails(all)
                 /\ buffer' = <<>>
                 /\ broken' = TRUE
                 /\ pc' = then
           /\ UNCHANGED <<newFile, memory>>
  <2>1. pc' \in {"compact", "ready", "clock", "sync"} /\ UNCHANGED <<alive, last>>
    BY <1>1, <1>4 DEF memory
  <2>2. CASE ~ broken /\ buffer' = all /\ UNCHANGED <<file, broken, written>>
    <3>1. /\ file \in Seq(Half) /\ Content = file /\ buffer \in Seq(Half)
          /\ InHand \in Seq(Half) /\ all \in Seq(Half)
      BY <1>1, <1>2, <1>4, ComingType, HalvesJoined DEF Inv
    <3>2. Content' = Content /\ Memory' = Memory
      BY <1>4, <2>1, <2>2 DEF Content, Memory
    <3>3. Coming' = Coming
      <4>1. (file \o buffer) \o InHand = file \o (buffer \o InHand)
        <5>1. file \in Seq(Half) /\ buffer \in Seq(Half) /\ InHand \in Seq(Half)
          BY <3>1
        <5>2. QED
          BY <5>1, HalvesAssociate, Zenon
      <4>2. (file \o all) \o <<>> = file \o all
        BY <3>1
      <4>3. InHand' = <<>>
        BY <2>1 DEF InHand
      <4> HIDE DEF all
      <4>4. Coming' = (file \o all) \o <<>>
        BY <2>2, <3>1, <3>2, <4>3 DEF Coming
      <4>5. QED
        BY <1>2, <2>2, <3>1, <4>1, <4>2, <4>4 DEF Coming
    <3>4. QED
      BY <1>1, <2>1, <2>2, <3>2, <3>3 DEF Inv, Records, Tells
  <2>3. CASE /\ buffer' = <<>>
             /\ \/ Flushes(all) /\ UNCHANGED broken
                \/ FlushFails(all) /\ broken' = TRUE
    <3> HIDE DEF all
    <3>1. QED
      BY <1>1, <1>2, <1>4, <2>1, <2>3, AfterFlush
  <2>4. QED
    BY <1>4, <2>2, <2>3
<1>5. QED
  BY <1>3, <1>4 DEF AppendLine

LEMMA WriteNewFileKeepsRecords ==
  ASSUME Inv, WriteNewFile
  PROVE  Records'
<1>1. /\ alive \in SUBSET Node /\ last \in [Clocks -> 0..MaxClock]
      /\ then \in {"ready", "clock", "sync"} /\ pc = "compact"
      /\ handle /\ ~ broken /\ UNCHANGED <<alive, last, entry>>
  BY DEF Inv, TypeInv, TypeOK, Shape, WriteNewFile, memory
<1>2. CASE Fails /\ UNCHANGED <<file, newFile, buffer, handle, broken, written>>
  BY <1>1, <1>2, SameRecords DEF Fails
<1>3. ASSUME NEW names \in SetToSeqs(alive), newFile' = Image(names),
             \/ Flushes(buffer) /\ UNCHANGED broken
             \/ FlushFails(buffer) /\ broken' = TRUE,
             buffer' = <<>>, pc' = "remove"
      PROVE  Records'
  <2>1. /\ file' \in Seq(Half) /\ file' # Missing
        /\ Recalls(Len(file'), file', Range(written'))
        /\ Flushes(buffer) =>
             /\ Last(written') = Last(written) /\ Last(written).told = Memory
             /\ Agree(Replay(file'), Memory, Last(written).spoilt)
    BY <1>1, <1>3, BufferIsAll, FlushRecords
  <2>2. Content' = file' /\ Coming' = file' /\ Memory' = Memory
    <3>1. Content' = file'
      BY <2>1 DEF Content
    <3>2. (file' \o <<>>) \o <<>> = file'
      BY <2>1
    <3>3. QED
      BY <1>1, <1>3, <3>1, <3>2 DEF Coming, InHand, Memory
  <2>3. ~ Torn(newFile') /\ Replay(newFile') = Memory
    BY <1>1, <1>3, ImageTells
  <2>4. Last(written') = Last(written) /\ Last(written).told = Memory
    <3>1. Last(written).told = Memory
      BY <1>1 DEF Inv, Records, Tells
    <3>2. FlushFails(buffer) => UNCHANGED written
      BY DEF FlushFails
    <3>3. QED
      BY <1>3, <2>1, <3>1, <3>2
  <2>5. ~ broken' => Tells'
    BY <1>3, <2>1, <2>2, <2>4 DEF Tells
  <2>6. QED
    BY <1>3, <2>1, <2>2, <2>3, <2>4, <2>5 DEF Records
<1>4. QED
  BY <1>2, <1>3 DEF WriteNewFile

\* The new file tells what is in memory.
LEMMA NewFileTells ==
  ASSUME Inv, pc \in {"remove", "rename"}
  PROVE  /\ newFile \in Seq(Half) /\ newFile # Missing /\ buffer = <<>>
         /\ Replay(newFile) = Memory
         /\ \A m : m.told = Memory =>
              /\ Agree(Replay(newFile), Memory, m.spoilt)
              /\ \A W : m \in W => Recalls(Len(newFile), newFile, W)
<1>1. newFile \in Seq(Half) /\ buffer = <<>> /\ Replay(newFile) = Memory
  BY DEF Inv, TypeInv, Shape, Records
<1>2. ASSUME NEW m, m.told = Memory, NEW W, m \in W
      PROVE  Recalls(Len(newFile), newFile, W)
  BY <1>1, <1>2, AgreeWithItself, RecallsOne
<1>3. QED
  BY <1>1, <1>2, MissingIsNoFile, AgreeWithItself

LEMMA RemoveOldKeepsRecords ==
  ASSUME Inv, RemoveOld
  PROVE  Records'
<1>1. /\ then \in {"ready", "clock", "sync"} /\ pc = "remove"
      /\ UNCHANGED <<newFile, buffer, broken, alive, last, entry, written>>
      /\ written \in Seq(Moment) /\ written # <<>> /\ Last(written).told = Memory
  BY DEF Inv, TypeInv, TypeOK, Shape, Records, RemoveOld, memory
<1>2. CASE Fails /\ UNCHANGED file
  BY <1>1, <1>2, SameRecords DEF Fails
<1>3. CASE file' = Missing /\ pc' = "rename"
  <2>1. Content' = newFile /\ Memory' = Memory
    BY <1>1, <1>3 DEF Content, Memory
  <2>2. /\ newFile \in Seq(Half) /\ newFile # Missing /\ buffer = <<>>
        /\ Agree(Replay(newFile), Memory, Last(written).spoilt)
        /\ Recalls(Len(newFile), newFile, Range(written))
    BY <1>1, NewFileTells, RangeOfWritten
  <2>3. Coming' = newFile
    <3>1. (newFile \o <<>>) \o <<>> = newFile
      BY <2>2
    <3>2. QED
      BY <1>1, <1>3, <2>1, <2>2, <3>1 DEF Coming, InHand
  <2>4. Tells'
    BY <1>1, <2>1, <2>2, <2>3 DEF Tells
  <2>5. QED
    BY <1>1, <1>3, <2>1, <2>2, <2>3, <2>4 DEF Inv, Records
<1>4. QED
  BY <1>2, <1>3 DEF RemoveOld

LEMMA RenameKeepsRecords ==
  ASSUME Inv, Rename
  PROVE  Records'
<1>1. /\ then \in {"ready", "clock", "sync"} /\ pc = "rename"
      /\ UNCHANGED <<buffer, alive, last, entry>>
  BY DEF Inv, TypeInv, TypeOK, Rename, memory
<1>2. CASE Fails /\ UNCHANGED <<file, newFile, handle, broken, offset, written>>
  BY <1>1, <1>2, SameRecords DEF Fails
<1>3. CASE Renamed /\ pc' = then
  <2> DEFINE m == [told |-> Memory, spoilt |-> {}]
  <2>1. file' = newFile /\ newFile' = Missing /\ broken' = FALSE /\ written' = <<m>>
    BY <1>3 DEF Renamed
  <2>2. m.told = Memory /\ m \in Range(<<m>>) /\ Last(<<m>>) = m
    <3>1. 1 \in DOMAIN <<m>> /\ <<m>>[1] = m /\ Len(<<m>>) = 1
      OBVIOUS
    <3>2. m.told = Memory
      OBVIOUS
    <3> HIDE DEF m
    <3>3. QED
      BY <3>1, <3>2, Zenon DEF Range, Last
  <2> HIDE DEF m
  <2>3. /\ newFile \in Seq(Half) /\ newFile # Missing /\ buffer = <<>>
        /\ Agree(Replay(newFile), Memory, m.spoilt)
        /\ Recalls(Len(newFile), newFile, Range(<<m>>))
    BY <1>1, <2>2, NewFileTells
  <2>4. Content' = newFile /\ Memory' = Memory
    BY <1>1, <2>1, <2>3 DEF Content, Memory
  <2>5. Coming' = newFile
    <3>1. (newFile \o <<>>) \o <<>> = newFile
      BY <2>3
    <3>2. QED
      BY <1>1, <1>3, <2>1, <2>3, <2>4, <3>1 DEF Coming, InHand
  <2>6. Tells'
    BY <2>1, <2>2, <2>3, <2>4, <2>5 DEF Tells
  <2>7. QED
    BY <1>1, <1>3, <2>1, <2>3, <2>4, <2>5, <2>6 DEF Records
<1>4. QED
  BY <1>2, <1>3 DEF Rename, Fails

LEMMA InvKept ==
  ASSUME Inv, [Next]_vars
  PROVE  Inv'
<1>1. TypeInv'
  BY TypesKept DEF Inv
<1>2. CASE UNCHANGED vars
  <2>1. Records'
    BY <1>2, SameRecords DEF vars, disk, memory
  <2>2. QED
    BY <1>1, <2>1 DEF Inv
<1>3. CASE Witness
  <2>1. Records'
    BY <1>3, SameRecords DEF Witness, disk, memory
  <2>2. QED
    BY <1>1, <2>1 DEF Inv
<1>4. QED
  BY <1>1, <1>2, <1>3, StartKeepsRecords, DiesKeepsRecords, SpillKeepsRecords,
     StreamKeepsRecords, EndsKeepRecords, AppendKeepsRecords,
     WriteNewFileKeepsRecords, RemoveOldKeepsRecords, RenameKeepsRecords
     DEF Inv, Next, Crash

LEMMA InitInv == Init => Inv
<1> SUFFICES ASSUME Init PROVE Inv
  OBVIOUS
<1>1. pc = "down" /\ file = Missing /\ newFile = Missing
  BY DEF Init
<1>2. Content = Missing
  BY <1>1 DEF Content
<1>3. QED
  BY <1>1, <1>2, InitTypes DEF Inv, Records

LEMMA Invariant == Spec => []Inv
<1>1. Inv /\ [Next]_vars => Inv'
  BY InvKept
<1>2. QED
  BY InitInv, <1>1, PTL DEF Spec

-----------------------------------------------------------------------------

\* Types, and the offset that compaction goes by is the length of the file and
\* of what waits to be written to it, until a write fails.
THEOREM TypeCorrect == Spec => []TypeOK
<1>1. Inv => TypeOK
  BY DEF Inv, TypeInv
<1>2. QED
  BY Invariant, <1>1, PTL

\* Until a write fails, the file, the buffer and the line in hand replay to what
\* is in memory, at every step of a compaction too, but for what half a line and
\* the line glued to it speak of.
THEOREM FileIsTheMemory == Spec => []FileTellsTheMemory
<1>1. Inv => FileTellsTheMemory
  <2>1. SUFFICES ASSUME Inv, pc # "down", ~ broken
                 PROVE  Agree(Replay(Content \o buffer
                                \o (IF pc = "append" THEN Halves(entry) ELSE <<>>)),
                              Memory, Last(written).spoilt)
    BY DEF FileTellsTheMemory
  <2>2. /\ Agree(Replay(Coming), Memory, Last(written).spoilt)
        /\ Coming = (Content \o buffer) \o InHand
    BY <2>1 DEF Inv, Records, Tells, Coming
  <2>3. QED
    BY <2>2 DEF InHand
<1>2. QED
  BY Invariant, <1>1, PTL

\* What a restart recalls was in memory at some moment no older than the last
\* flush that succeeded, but for what half a line spoils, whatever failed and
\* wherever the process died.
THEOREM WhatIsRecalledIsRecent == Spec => []RecallIsRecent
<1>1. Inv => RecallIsRecent
  <2>1. SUFFICES ASSUME Inv, pc = "down", Content # Missing
                 PROVE  \E w \in Range(written) :
                          Agree(Replay(Content), w.told, w.spoilt)
    BY DEF RecallIsRecent
  <2>2. Content \in Seq(Half) /\ Recalls(Len(Content), Content, Range(written))
    BY <2>1, RecallsContent
  <2>3. Len(Content) \in Len(Content)..Len(Content)
        /\ Replay(Content) = Read(Content)[Len(Content)]
    BY <2>2, Reading
  <2>4. QED
    BY <2>2, <2>3 DEF Recalls
<1>2. QED
  BY Invariant, <1>1, PTL
=============================================================================
