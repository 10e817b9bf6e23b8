---------------------------- MODULE SessionProofs ----------------------------
(***************************************************************************)
(* A client's session, end to end: the parser that its lines pass, for any *)
(* runes and lines of any length; the client itself, for any number of     *)
(* lines and sessions and a ring of any size; and the SSH server that      *)
(* echoes what is sent, for any connections, channels and number of        *)
(* messages.                                                               *)
(***************************************************************************)
EXTENDS SshServer, Parser, Client, WellFoundedInduction, SequenceTheorems, TLAPS

-----------------------------------------------------------------------------
(* The rings. *)

LEMMA RingStoredType ==
  ASSUME NEW S, NEW r \in Rings(S), NEW e \in S
  PROVE  Stored(r, e) \in Rings(S) /\ Stored(r, e).n = r.n
<1>1. PICK b \in [0..2 -> S], i \in 0..2, n \in Nat : r = [buf |-> b, i |-> i, n |-> n]
  BY DEF Rings, Slots
<1> DEFINE j == (i + 1) % 3
<1>2. j \in 0..2
  OBVIOUS
<1>3. Stored(r, e) = [buf |-> [b EXCEPT ![j] = e], i |-> j, n |-> n]
  <2>1. r.i = i /\ (r.i + 1) % Slots = j
    BY <1>1 DEF Slots
  <2>2. Stored(r, e) = [r EXCEPT !.buf[j] = e, !.i = j]
    BY <2>1 DEF Stored
  <2> HIDE DEF j
  <2>3. QED
    BY <1>1, <2>2
<1> HIDE DEF j
<1>4. [b EXCEPT ![j] = e] \in [0..2 -> S]
  BY <1>2
<1>5. QED
  BY <1>1, <1>2, <1>3, <1>4 DEF Rings, Slots

LEMMA RingUnreadType ==
  ASSUME NEW S, NEW r \in Rings(S), NEW k \in Nat
  PROVE  /\ r.n \in Nat
         /\ Unread(r, k) \in Rings(S) /\ Unread(r, k).n = r.n + k
         /\ r.n > 0 => Reread(r) \in Rings(S) /\ Reread(r).n = r.n - 1
  BY DEF Rings, Slots, Unread, Reread

\* What is stored is the last element, and the others are one place older.
LEMMA RingStores ==
  ASSUME NEW S, NEW r \in Rings(S), NEW e \in S
  PROVE  At(Stored(r, e), 0) = e /\ At(Stored(r, e), 1) = At(r, 0)
         /\ At(Stored(r, e), 2) = At(r, 1)
<1>1. r = [buf |-> r.buf, i |-> r.i, n |-> r.n] /\ r.buf \in [0..2 -> S]
      /\ r.i \in {0, 1, 2} /\ r.n \in Nat
  BY DEF Rings, Slots
<1>2. CASE r.i = 0
  BY <1>1, <1>2 DEF At, Stored, Slots
<1>3. CASE r.i = 1
  BY <1>1, <1>3 DEF At, Stored, Slots
<1>4. CASE r.i = 2
  BY <1>1, <1>4 DEF At, Stored, Slots
<1>5. QED
  BY <1>1, <1>2, <1>3, <1>4

LEMMA RingKeeps ==
  ASSUME NEW S, NEW r \in Rings(S), NEW k \in Nat, NEW j \in 0..2
  PROVE  At(Unread(r, k), j) = At(r, j) /\ At(Reread(r), j) = At(r, j)
<1>1. r = [buf |-> r.buf, i |-> r.i, n |-> r.n]
  BY DEF Rings
<1>2. QED
  BY <1>1 DEF At, Unread, Reread, Slots

-----------------------------------------------------------------------------
(* Reading. *)

Char == Rune \cup {"eof"}

\* The line and its end, which can be read again and again.
Stream(j) == IF j <= Len(source) THEN source[j] ELSE "eof"

\* So many runes have been read from the source, and the slots hold the last.
Window(read) ==
  /\ read \in Nat /\ read >= Len(source) /\ runes.n <= read
  /\ read > Len(source) => Ended
  /\ \A j \in 1..(Len(source) - 1) : source[j] # "eof"
  /\ \A k \in 0..2 : k < read => At(runes, k) = Stream(read - k)

\* What a read does when pos runes are before it.
LEMMA ReadRuneMoves ==
  ASSUME LexTypeOK, NEW pos \in Nat, Window(pos + runes.n), runes.n <= 2,
         NEW ch \in Char, NEW back \in 0..2, back <= pos + 1, ReadRune(ch, back)
  PROVE  /\ source' \in Seq(Char) /\ runes' \in Rings(Char)
         /\ runes'.n = back + IF runes.n > 0 THEN runes.n - 1 ELSE 0
         /\ Window((pos + 1 - back) + runes.n)'
         /\ Stream(pos + 1)' = ch
         /\ Len(source') >= Len(source)
         /\ \A j \in 1..Len(source) : source'[j] = source[j]
         /\ ch # "eof" => pos + 1 <= Len(source')
         /\ ch = "eof" => Ended' /\ pos + 1 >= Len(source')
         /\ source' # source => ~ Ended /\ Len(source') = pos + 1
<1>1. source \in Seq(Char) /\ runes \in Rings(Char) /\ runes.n \in Nat
      /\ Len(source) \in Nat
  BY DEF LexTypeOK, Char, Rings
<1>2. CASE runes.n > 0 /\ ch = Curr(Reread(runes))
           /\ runes' = Unread(Reread(runes), back) /\ UNCHANGED source
  <2>1. Reread(runes) \in Rings(Char) /\ Reread(runes).n = runes.n - 1
    BY <1>1, <1>2, RingUnreadType
  <2>2. runes' \in Rings(Char) /\ runes'.n = runes.n - 1 + back
    <3>1. back \in Nat
      OBVIOUS
    <3>2. /\ Unread(Reread(runes), back) \in Rings(Char)
          /\ Unread(Reread(runes), back).n = Reread(runes).n + back
      BY <2>1, <3>1, RingUnreadType
    <3>3. QED
      BY <1>2, <2>1, <3>2
  <2>3. \A k \in 0..2 : At(runes', k) = At(runes, k)
    BY <1>1, <1>2, <2>1, RingKeeps
  <2>4. ch = At(runes, runes.n - 1) /\ runes.n - 1 \in 0..2
    BY <1>1, <1>2, <2>1, RingKeeps DEF Curr
  <2>5. ch = Stream(pos + 1)
    <3>1. runes.n - 1 < pos + runes.n /\ (pos + runes.n) - (runes.n - 1) = pos + 1
      BY <1>1
    <3>2. QED
      BY <2>4, <3>1 DEF Window
  <2>6. \A j : Stream(j)' = Stream(j)
    BY <1>2 DEF Stream
  <2>7. Ended' <=> Ended
    BY <1>2 DEF Ended
  <2>8. (pos + 1 - back) + runes'.n = pos + runes.n
    BY <1>1, <2>2
  <2>9. Window((pos + 1 - back) + runes.n)'
    <3>1. runes'.n <= pos + runes.n
      BY <1>1, <2>2
    <3>2. QED
      BY <1>2, <2>3, <2>6, <2>7, <2>8, <3>1 DEF Window
  <2>10. ch # "eof" => pos + 1 <= Len(source)
    BY <2>5 DEF Stream
  <2>11. ch = "eof" => Ended /\ pos + 1 >= Len(source)
    <3>1. SUFFICES ASSUME ch = "eof" PROVE Ended /\ pos + 1 >= Len(source)
      OBVIOUS
    <3>2. CASE pos + 1 <= Len(source)
      <4>1. source[pos + 1] = "eof" /\ pos + 1 \in 1..Len(source)
        BY <1>1, <2>5, <3>1, <3>2 DEF Stream
      <4>2. pos + 1 = Len(source)
        BY <1>1, <4>1 DEF Window
      <4>3. QED
        BY <1>1, <4>1, <4>2 DEF Ended
    <3>3. CASE pos + 1 > Len(source)
      BY <1>1, <1>2, <3>3 DEF Window
    <3>4. QED
      BY <1>1, <3>2, <3>3
  <2>12. QED
    BY <1>1, <1>2, <2>2, <2>5, <2>6, <2>7, <2>9, <2>10, <2>11
<1>3. CASE runes.n = 0 /\ (Ended => ch = "eof")
           /\ runes' = Unread(Stored(runes, ch), back)
           /\ source' = IF Ended THEN source ELSE Append(source, ch)
  <2>1. Stored(runes, ch) \in Rings(Char) /\ Stored(runes, ch).n = 0
    BY <1>1, <1>3, RingStoredType
  <2>2. runes' \in Rings(Char) /\ runes'.n = back
    <3>1. back \in Nat /\ 0 + back = back
      OBVIOUS
    <3>2. /\ Unread(Stored(runes, ch), back) \in Rings(Char)
          /\ Unread(Stored(runes, ch), back).n = Stored(runes, ch).n + back
      BY <2>1, <3>1, RingUnreadType
    <3>3. QED
      BY <1>3, <2>1, <3>1, <3>2
  <2>3. /\ At(runes', 0) = ch /\ At(runes', 1) = At(runes, 0)
        /\ At(runes', 2) = At(runes, 1)
    BY <1>1, <1>3, <2>1, RingStores, RingKeeps
  <2>4. /\ source' \in Seq(Char)
        /\ Len(source') = IF Ended THEN Len(source) ELSE Len(source) + 1
        /\ \A j \in 1..Len(source) : source'[j] = source[j]
        /\ ~ Ended => source'[Len(source) + 1] = ch
    BY <1>1, <1>3
  <2>5. pos + runes.n = pos /\ pos >= Len(source) /\ (~ Ended => pos = Len(source))
    BY <1>1, <1>3 DEF Window
  <2>6. Ended' <=> Ended \/ ch = "eof"
    <3>1. CASE Ended
      BY <1>3, <3>1 DEF Ended
    <3>2. CASE ~ Ended
      <4>1. Len(source') = Len(source) + 1 /\ source'[Len(source')] = ch
            /\ source' # <<>>
        BY <1>1, <2>4, <3>2
      <4>2. QED
        BY <3>2, <4>1 DEF Ended
    <3>3. QED
      BY <3>1, <3>2
  <2>7. Stream(pos + 1)' = ch
    BY <1>1, <1>3, <2>4, <2>5 DEF Stream
  <2>8. \A j \in 1..pos : Stream(j)' = Stream(j)
    BY <1>1, <2>4, <2>5 DEF Stream
  <2>9. \A j \in 1..(Len(source') - 1) : source'[j] # "eof"
    <3>1. CASE Ended
      BY <1>3, <3>1 DEF Window
    <3>2. CASE ~ Ended
      <4>1. \A j \in 1..Len(source) : source[j] # "eof"
        BY <1>1, <3>2 DEF Window, Ended
      <4>2. QED
        BY <1>1, <2>4, <3>2, <4>1
    <3>3. QED
      BY <3>1, <3>2
  <2>10. (pos + 1 - back) + runes'.n = pos + 1
    BY <2>2
  <2>11. \A k \in 0..2 : k < pos + 1 => At(runes', k) = Stream(pos + 1 - k)'
    <3>1. \A k \in 0..2 : k < pos => At(runes, k) = Stream(pos - k)
      BY <2>5 DEF Window
    <3>2. SUFFICES ASSUME NEW k \in {0, 1, 2}, k < pos + 1
                   PROVE  At(runes', k) = Stream(pos + 1 - k)'
      BY DEF Stream
    <3>3. CASE k = 0
      BY <2>3, <2>7, <3>3
    <3>4. CASE k = 1
      <4>1. 0 < pos /\ pos + 1 - k = pos /\ pos - 0 = pos /\ pos \in 1..pos
        BY <3>2, <3>4
      <4>2. QED
        BY <2>3, <2>8, <3>1, <3>4, <4>1
    <3>5. CASE k = 2
      <4>1. 1 < pos /\ pos + 1 - k = pos - 1 /\ pos - 1 \in 1..pos
        BY <3>2, <3>5
      <4>2. QED
        BY <2>3, <2>8, <3>1, <3>5, <4>1
    <3>6. QED
      BY <3>2, <3>3, <3>4, <3>5
  <2>12. /\ pos + 1 >= Len(source') /\ back <= pos + 1
         /\ pos + 1 > Len(source') => Ended'
    BY <1>1, <2>4, <2>5, <2>6
  <2>13. Window((pos + 1 - back) + runes.n)'
    BY <2>2, <2>9, <2>10, <2>11, <2>12 DEF Window
  <2>14. ch # "eof" => pos + 1 <= Len(source')
    BY <1>1, <1>3, <2>4, <2>5
  <2>15. ch = "eof" => Ended' /\ pos + 1 >= Len(source')
    BY <2>6, <2>12
  <2>16. source' # source => ~ Ended /\ Len(source') = pos + 1
    BY <1>1, <1>3, <2>4, <2>5
  <2>17. Len(source') >= Len(source)
    BY <1>1, <2>4
  <2>18. QED
    BY <1>3, <2>2, <2>4, <2>7, <2>13, <2>14, <2>15, <2>16, <2>17
<1>4. QED
  BY <1>2, <1>3 DEF ReadRune

-----------------------------------------------------------------------------
(* Tokens. *)

\* Nothing but the end of the line is read after this.
Past(p) == Ended /\ p >= Len(source)

\* The line goes on with lit, an identifier.
Spelled(s, lit) ==
  /\ Len(lit) > 0 /\ s + Len(lit) <= Len(source)
  /\ \A j \in 1..Len(lit) : lit[j] \in IdentChar /\ source[s + j] = lit[j]
  /\ lit[1] \in Letter

\* No identifier goes on after e.
EndsAt(e) == e < Len(source) /\ source[e + 1] \notin IdentChar

BlankFrom(s, p) ==
  s < p /\ p <= Len(source) /\ \A j \in (s + 1)..p : source[j] \in Blank

PeriodAt(p) == p <= Len(source) /\ source[p] = "."

\* What a token that was returned says of the line between s and p.
Returned(s, p) ==
  /\ lex.tok = "WS" => BlankFrom(s, p) \/ Past(p)
  /\ lex.tok \in Keyword \cup {"IDENT"} =>
       /\ Spelled(s, lex.lit) /\ EndsAt(s + Len(lex.lit))
       /\ p = s + Len(lex.lit) \/ Past(p)
  /\ lex.tok \in Keyword => lex.lit = <<lex.tok>>
  /\ lex.tok = "DOT" => p = s + 1 /\ PeriodAt(p)

\* What the scanner knows of the line between s, where the token begins, and p,
\* where the scanner is.
TokenFits(s, p) ==
  /\ lex.at = "scan" => p = s /\ lex = Scanning
  /\ lex.at = "white" => BlankFrom(s, p)
  /\ lex.at = "ident" =>
       IF lex.lit = <<>>
         THEN p = s /\ s < Len(source) /\ source[s + 1] \in Letter
         ELSE Spelled(s, lex.lit) /\ p = s + Len(lex.lit)
  /\ lex.at = "identEof" =>
       /\ Spelled(s, lex.lit) /\ EndsAt(s + Len(lex.lit)) /\ Past(p)
  /\ lex.at \notin {"string", "escape"}
  /\ lex.at = "dot" => p = s + 1 /\ PeriodAt(p)
  /\ lex.at = "returned" => Returned(s, p)
  /\ Past(s) => lex.at = "scan" \/ (lex.at = "returned" /\ lex.tok = "EOF")

\* As many runes are unread as the scanner reads again before it unreads more.
Depth ==
  /\ runes.n <= 2
  /\ lex.at \in {"dot", "fraction", "sign"} => runes.n <= 1
  /\ lex.at = "sign2" => runes.n = 0

LexOK(s, p) ==
  /\ LexTypeOK /\ Depth /\ Window(p + runes.n) /\ s <= p
  /\ lex.at \in {"dot", "fraction", "sign", "sign2"} => s < p
  /\ lex.at = "dot" \/ lex.tok = "DOT" => "." \in Rune
  /\ Bare => TokenFits(s, p)

Moved(s, p, ch, back) ==
  /\ source' \in Seq(Char) /\ runes' \in Rings(Char)
  /\ runes'.n = back + IF runes.n > 0 THEN runes.n - 1 ELSE 0
  /\ Window((p + 1 - back) + runes.n)'
  /\ Len(source') \in Nat /\ Len(source) \in Nat /\ Len(source') >= Len(source)
  /\ \A j \in 1..Len(source) : source'[j] = source[j]
  /\ ch # "eof" => p + 1 <= Len(source') /\ source'[p + 1] = ch
  /\ ch = "eof" => Past(p + 1)'
  /\ Bare' => Bare /\ ch \notin {"quote", "tick", "\\", "nul"}
  /\ Past(s)' => Past(s)
  /\ Past(p) => ch = "eof"
  /\ p + 1 <= Len(source) => ch = source[p + 1]

LEMMA ReadRuneOK ==
  ASSUME NEW s \in Nat, NEW p \in Nat, s <= p, LexTypeOK, Depth,
         Window(p + runes.n), NEW ch \in Char, NEW back \in 0..2, back <= p + 1,
         ReadRune(ch, back)
  PROVE  Moved(s, p, ch, back)
<1>1. /\ source' \in Seq(Char) /\ runes' \in Rings(Char)
      /\ runes'.n = back + IF runes.n > 0 THEN runes.n - 1 ELSE 0
      /\ Window((p + 1 - back) + runes.n)'
      /\ Stream(p + 1)' = ch
      /\ Len(source') >= Len(source)
      /\ \A j \in 1..Len(source) : source'[j] = source[j]
      /\ ch # "eof" => p + 1 <= Len(source')
      /\ ch = "eof" => Ended' /\ p + 1 >= Len(source')
      /\ source' # source => ~ Ended /\ Len(source') = p + 1
  BY ReadRuneMoves DEF Depth
<1>2. Len(source') \in Nat /\ Len(source) \in Nat /\ source \in Seq(Char)
  BY <1>1 DEF LexTypeOK, Char
<1>3. ch # "eof" => source'[p + 1] = ch
  BY <1>1 DEF Stream
<1>4. ASSUME Bare' PROVE Bare /\ ch \notin {"quote", "tick", "\\", "nul"}
  <2>1. \A i \in 1..Len(source') : source'[i] \notin {"quote", "tick", "\\", "nul"}
    BY <1>1, <1>4 DEF Bare
  <2>2. \A i \in 1..Len(source) : source[i] \notin {"quote", "tick", "\\", "nul"}
    BY <1>1, <1>2, <2>1
  <2>3. ch # "eof" => ch \notin {"quote", "tick", "\\", "nul"}
    <3>1. ch # "eof" => p + 1 \in 1..Len(source')
      BY <1>1, <1>2
    <3>2. QED
      BY <1>3, <2>1, <3>1
  <2>4. QED
    BY <1>2, <2>2, <2>3 DEF Bare
<1>5. Past(s)' => Past(s)
  <2>1. CASE source' = source
    BY <2>1 DEF Past, Ended
  <2>2. CASE source' # source
    BY <1>1, <1>2, <2>2 DEF Past
  <2>3. QED
    BY <2>1, <2>2
<1>6. ASSUME Past(p) PROVE ch = "eof"
  <2>1. source' = source /\ p + 1 > Len(source')
    BY <1>1, <1>2, <1>6 DEF Past
  <2>2. QED
    BY <1>1, <2>1 DEF Stream
<1>7. ASSUME p + 1 <= Len(source) PROVE ch = source[p + 1]
  <2>1. p + 1 \in 1..Len(source) /\ p + 1 <= Len(source')
    BY <1>1, <1>2, <1>7
  <2>2. QED
    BY <1>1, <2>1 DEF Stream
<1>8. ch = "eof" => Past(p + 1)'
  BY <1>1, <1>2 DEF Past
<1>9. QED
  BY <1>1, <1>2, <1>3, <1>4, <1>5, <1>6, <1>7, <1>8 DEF Moved

LEMMA Runes ==
  /\ IdentChar = Letter \cup Digit /\ IdentChar \subseteq Rune
  /\ Keyword \subseteq Letter /\ Letter \subseteq IdentChar
  /\ Digit \subseteq IdentChar
  /\ "eof" \notin Rune /\ "eof" \notin IdentChar /\ "quote" \notin IdentChar
  /\ "nul" \notin IdentChar
  /\ "." \notin IdentChar /\ " " \notin IdentChar /\ "nl" \notin IdentChar
  /\ "EOF" \notin Keyword /\ "WS" \notin Keyword /\ "IDENT" \notin Keyword
  /\ "DOT" \notin Keyword /\ "OTHER" \notin Keyword
  BY RuneAssumption DEF IdentChar, Eof

Lexes == [at : Places, lit : Seq(Rune), first : Char, ident : BOOLEAN, tok : Token]

LEMMA LexTypes ==
  /\ Char = Rune \cup {"eof"}
  /\ LexTypeOK <=> source \in Seq(Char) /\ runes \in Rings(Char) /\ lex \in Lexes
  BY DEF LexTypeOK, Char, Lexes

LEMMA ReturnsType ==
  ASSUME lex \in Lexes, NEW tok \in Token, NEW lit, Returns(tok, lit),
         lit \in Seq(Rune) \/ lit = <<>>
  PROVE  lex' \in Lexes /\ lex'.at = "returned" /\ lex'.tok = tok /\ lex'.lit = lit
<1>1. <<>> \in Seq(Rune)
  OBVIOUS
<1>2. lit \in Seq(Rune)
  BY <1>1, Zenon
<1>3. QED
  BY <1>2 DEF Lexes, Places, Returns

\* What is left to show of a place once the rune is read.
LEMMA LexGoesOn ==
  ASSUME NEW s \in Nat, NEW p \in Nat, NEW ch \in Char, NEW back \in 0..2,
         NEW q \in Nat, LexOK(s, p), Moved(s, p, ch, back), q = p + 1 - back, s <= q,
         lex' \in Lexes, Depth',
         lex'.at \in {"dot", "fraction", "sign", "sign2"} => s < q,
         lex'.at = "dot" \/ lex'.tok = "DOT" => "." \in Rune,
         Bare' => TokenFits(s, q)'
  PROVE  LexOK(s, q)'
<1>1. LexTypeOK'
  BY LexTypes DEF Moved, LexTypeOK, Char, Lexes
<1>2. Window(q + runes.n)'
  BY DEF Moved
<1>3. QED
  BY <1>1, <1>2 DEF LexOK

LEMMA Kept ==
  ASSUME NEW s \in Nat, NEW p \in Nat, NEW ch, NEW back, Moved(s, p, ch, back),
         source \in Seq(Char)
  PROVE  /\ \A i, j \in Nat : BlankFrom(i, j) => BlankFrom(i, j)'
         /\ \A i \in Nat, lit \in Seq(Rune) : Spelled(i, lit) => Spelled(i, lit)'
         /\ \A i \in Nat : EndsAt(i) => EndsAt(i)'
         /\ \A i \in Nat \ {0} : PeriodAt(i) => PeriodAt(i)'
<1>1. /\ Len(source') \in Nat /\ Len(source) \in Nat /\ Len(source') >= Len(source)
      /\ \A j \in 1..Len(source) : source'[j] = source[j]
  BY DEF Moved
<1>2. ASSUME NEW i \in Nat, NEW j \in Nat, BlankFrom(i, j) PROVE BlankFrom(i, j)'
  BY <1>1, <1>2 DEF BlankFrom
<1>3. ASSUME NEW i \in Nat, NEW lit \in Seq(Rune), Spelled(i, lit)
      PROVE  Spelled(i, lit)'
  <2>1. Len(lit) \in Nat /\ \A j \in 1..Len(lit) : i + j \in 1..Len(source)
    BY <1>1, <1>3 DEF Spelled
  <2>2. QED
    BY <1>1, <1>3, <2>1 DEF Spelled
<1>4. ASSUME NEW i \in Nat, EndsAt(i) PROVE EndsAt(i)'
  BY <1>1, <1>4 DEF EndsAt
<1>5. ASSUME NEW i \in Nat \ {0}, PeriodAt(i) PROVE PeriodAt(i)'
  BY <1>1, <1>5 DEF PeriodAt
<1>6. QED
  BY <1>2, <1>3, <1>4, <1>5

LEMMA ScanOK ==
  ASSUME NEW s \in Nat, NEW p \in Nat, LexOK(s, p), NEW ch \in Char, Scan(ch)
  PROVE  \E q \in Nat : LexOK(s, q)'
<1>1. /\ source \in Seq(Char) /\ lex \in Lexes /\ runes.n \in Nat /\ runes.n <= 2
      /\ s <= p /\ lex.at = "scan"
  BY LexTypes DEF LexOK, Depth, Scan, Rings
<1>2. ASSUME NEW back \in {0, 1}, ReadRune(ch, back) PROVE Moved(s, p, ch, back)
  BY <1>2, ReadRuneOK DEF LexOK
<1>3. Bare => p = s /\ lex = Scanning
  BY <1>1 DEF LexOK, TokenFits
<1>4. CASE ch \in Blank /\ ReadRune(ch, 0) /\ Goto("white")
  <2>1. Moved(s, p, ch, 0)
    BY <1>2, <1>4
  <2>2. lex' \in Lexes /\ lex'.at = "white" /\ lex'.tok = lex.tok
    BY <1>1, <1>4 DEF Goto, Lexes, Places
  <2>3. Depth'
    BY <1>1, <2>1, <2>2 DEF Moved, Depth
  <2>4. ASSUME Bare' PROVE TokenFits(s, p + 1)'
    <3>1. p = s /\ ch # "eof" /\ p + 1 <= Len(source') /\ source'[p + 1] = ch
          /\ ~ Past(s)'
      BY <1>3, <1>4, <2>1, <2>4, Runes DEF Moved, Blank
    <3>2. BlankFrom(s, p + 1)'
      BY <1>4, <3>1 DEF BlankFrom
    <3>3. QED
      BY <2>2, <3>1, <3>2 DEF TokenFits
  <2>5. LexOK(s, p + 1)'
    BY <1>1, <2>1, <2>2, <2>3, <2>4, LexGoesOn DEF LexOK
  <2>6. QED
    BY <2>5
<1>5. CASE ch \in Letter \cup {"quote"} /\ ReadRune(ch, 1)
           /\ lex' = [lex EXCEPT !.at = "ident", !.ident = TRUE]
  <2>1. Moved(s, p, ch, 1)
    BY <1>2, <1>5
  <2>2. lex' \in Lexes /\ lex'.at = "ident" /\ lex'.tok = lex.tok
        /\ lex'.lit = lex.lit
    BY <1>1, <1>5 DEF Lexes, Places
  <2>3. Depth'
    BY <1>1, <2>1, <2>2 DEF Moved, Depth
  <2>4. ASSUME Bare' PROVE TokenFits(s, p)'
    <3>1. p = s /\ ch # "eof" /\ p + 1 <= Len(source') /\ source'[p + 1] = ch
          /\ ~ Past(s)' /\ ch \in Letter /\ lex.lit = <<>>
      <4>1. ch # "eof" /\ ch \in Letter
        BY <1>5, <2>1, <2>4, Runes DEF Moved
      <4>2. QED
        BY <1>3, <2>1, <2>4, <4>1 DEF Moved, Scanning
    <3>2. s < Len(source')
      BY <2>1, <3>1 DEF Moved
    <3>3. QED
      BY <2>2, <3>1, <3>2 DEF TokenFits
  <2>5. LexOK(s, p)'
    BY <1>1, <2>1, <2>2, <2>3, <2>4, LexGoesOn DEF LexOK
  <2>6. QED
    BY <2>5
<1>6. CASE ch \in Digit /\ ReadRune(ch, 1) /\ Goto("digits")
  <2>1. Moved(s, p, ch, 1)
    BY <1>2, <1>6
  <2>2. lex' \in Lexes /\ lex'.at = "digits" /\ lex'.tok = lex.tok
    BY <1>1, <1>6 DEF Goto, Lexes, Places
  <2>3. Depth'
    BY <1>1, <2>1, <2>2 DEF Moved, Depth
  <2>4. ASSUME Bare' PROVE TokenFits(s, p)'
    <3>1. ch # "eof" /\ p = s /\ ~ Past(s)'
      BY <1>3, <1>6, <2>1, <2>4, Runes DEF Moved
    <3>2. QED
      BY <2>2, <3>1 DEF TokenFits
  <2>5. LexOK(s, p)'
    BY <1>1, <2>1, <2>2, <2>3, <2>4, LexGoesOn DEF LexOK
  <2>6. QED
    BY <2>5
<1>7. CASE ch \in Eof /\ ReadRune(ch, 0) /\ Returns("EOF", <<>>)
  <2>1. Moved(s, p, ch, 0)
    BY <1>2, <1>7
  <2>2. lex' \in Lexes /\ lex'.at = "returned" /\ lex'.tok = "EOF"
    BY <1>1, <1>7, ReturnsType DEF Token
  <2>3. Depth'
    BY <1>1, <2>1, <2>2 DEF Moved, Depth
  <2>4. TokenFits(s, p + 1)'
    BY <2>2, Runes DEF TokenFits, Returned
  <2>5. LexOK(s, p + 1)'
    BY <1>1, <2>1, <2>2, <2>3, <2>4, LexGoesOn DEF LexOK
  <2>6. QED
    BY <2>5
<1>8. CASE ch = "tick" /\ ReadRune(ch, 0)
           /\ lex' = [lex EXCEPT !.at = "string", !.first = ch]
  <2>1. Moved(s, p, ch, 0)
    BY <1>2, <1>8
  <2>2. lex' \in Lexes /\ lex'.at = "string" /\ lex'.tok = lex.tok
    BY <1>1, <1>8 DEF Lexes, Places
  <2>3. Depth'
    BY <1>1, <2>1, <2>2 DEF Moved, Depth
  <2>4. ~ Bare'
    BY <1>8, <2>1 DEF Moved
  <2>5. LexOK(s, p + 1)'
    BY <1>1, <2>1, <2>2, <2>3, <2>4, LexGoesOn DEF LexOK
  <2>6. QED
    BY <2>5
<1>9. CASE ch = "." /\ ReadRune(ch, 0) /\ Goto("dot")
  <2>1. Moved(s, p, ch, 0)
    BY <1>2, <1>9
  <2>2. lex' \in Lexes /\ lex'.at = "dot" /\ lex'.tok = lex.tok /\ "." \in Rune
    BY <1>1, <1>9 DEF Goto, Lexes, Places, Char
  <2>3. Depth'
    BY <1>1, <2>1, <2>2 DEF Moved, Depth
  <2>4. ASSUME Bare' PROVE TokenFits(s, p + 1)'
    <3>1. p = s /\ p + 1 <= Len(source') /\ source'[p + 1] = ch /\ ~ Past(s)'
      BY <1>3, <1>9, <2>1, <2>4 DEF Moved
    <3>2. QED
      BY <1>9, <2>2, <3>1 DEF TokenFits, PeriodAt
  <2>5. LexOK(s, p + 1)'
    BY <1>1, <2>1, <2>2, <2>3, <2>4, LexGoesOn DEF LexOK
  <2>6. QED
    BY <2>5
<1>10. CASE ch = "+" /\ ReadRune(ch, 0) /\ Goto("sign")
  <2>1. Moved(s, p, ch, 0)
    BY <1>2, <1>10
  <2>2. lex' \in Lexes /\ lex'.at = "sign" /\ lex'.tok = lex.tok
    BY <1>1, <1>10 DEF Goto, Lexes, Places
  <2>3. Depth'
    BY <1>1, <2>1, <2>2 DEF Moved, Depth
  <2>4. ASSUME Bare' PROVE TokenFits(s, p + 1)'
    <3>1. p = s /\ ~ Past(s)'
      BY <1>3, <1>10, <2>1, <2>4 DEF Moved
    <3>2. QED
      BY <2>2, <3>1 DEF TokenFits
  <2>5. LexOK(s, p + 1)'
    BY <1>1, <2>1, <2>2, <2>3, <2>4, LexGoesOn DEF LexOK
  <2>6. QED
    BY <2>5
<1>11. CASE /\ ch \notin Blank \cup IdentChar \cup Eof \cup {"quote", "tick", ".", "+"}
            /\ ReadRune(ch, 0) /\ Returns("OTHER", <<>>)
  <2>1. Moved(s, p, ch, 0)
    BY <1>2, <1>11
  <2>2. lex' \in Lexes /\ lex'.at = "returned" /\ lex'.tok = "OTHER"
    BY <1>1, <1>11, ReturnsType DEF Token
  <2>3. Depth'
    BY <1>1, <2>1, <2>2 DEF Moved, Depth
  <2>4. ASSUME Bare' PROVE TokenFits(s, p + 1)'
    <3>1. p = s /\ ~ Past(s)'
      BY <1>3, <1>11, <2>1, <2>4 DEF Moved, Eof
    <3>2. QED
      BY <2>2, <3>1, Runes DEF TokenFits, Returned
  <2>5. LexOK(s, p + 1)'
    BY <1>1, <2>1, <2>2, <2>3, <2>4, LexGoesOn DEF LexOK
  <2>6. QED
    BY <2>5
<1>12. QED
  BY <1>4, <1>5, <1>6, <1>7, <1>8, <1>9, <1>10, <1>11 DEF Scan

\* The places with nothing to say of the line but that it went on.
LEMMA OtherGoesOn ==
  ASSUME NEW s \in Nat, NEW p \in Nat, NEW ch \in Char, NEW back \in 0..2,
         NEW q \in Nat, LexOK(s, p), Moved(s, p, ch, back), q = p + 1 - back, s <= q,
         lex' \in Lexes, Depth',
         lex.at \notin {"scan", "white", "ident", "identEof", "returned"},
         \/ lex'.at \in {"digits", "decimals"}
         \/ lex'.at \in {"fraction", "sign", "sign2"} /\ s < q
         \/ lex'.at = "returned" /\ lex'.tok = "OTHER",
         lex'.at # "returned" => lex'.tok = lex.tok
  PROVE  LexOK(s, q)'
<1>1. ASSUME Bare' PROVE TokenFits(s, q)'
  <2>1. ~ Past(s)'
    BY <1>1 DEF Moved, LexOK, TokenFits
  <2>2. QED
    BY <2>1, Runes DEF TokenFits, Returned
<1>2. lex'.at = "dot" \/ lex'.tok = "DOT" => "." \in Rune
  BY DEF LexOK
<1>3. QED
  BY <1>1, <1>2, LexGoesOn

LEMMA DigitsOK ==
  ASSUME NEW s \in Nat, NEW p \in Nat, LexOK(s, p), NEW ch \in Char,
         Digits(ch) \/ Sign(ch)
  PROVE  \E q \in Nat : LexOK(s, q)'
<1>1. /\ lex \in Lexes /\ runes.n \in Nat /\ runes.n <= 2 /\ s <= p
      /\ lex.at \in {"fraction", "sign"} => runes.n <= 1
      /\ lex.at = "sign2" => runes.n = 0
      /\ lex.at \in {"fraction", "sign", "sign2"} => s < p
  BY LexTypes DEF LexOK, Depth, Rings
<1>2. ASSUME NEW back \in 0..2, back <= p + 1, ReadRune(ch, back)
      PROVE  Moved(s, p, ch, back)
  BY <1>2, ReadRuneOK DEF LexOK
<1>3. ASSUME NEW back \in {0, 1, 2}, ReadRune(ch, back), back = 2 => s < p,
             lex' \in Lexes, lex.at \in {"digits", "decimals", "fraction", "sign", "sign2"},
             lex'.at # "returned" => lex'.tok = lex.tok,
             \/ lex'.at \in {"digits", "decimals"} /\ back \in {0, 2}
             \/ lex'.at \in {"fraction", "sign2"} /\ back = 0
             \/ lex'.at = "returned" /\ lex'.tok = "OTHER",
             back = 2 => runes.n <= 1, lex'.at = "sign2" => runes.n <= 1
      PROVE  \E q \in Nat : LexOK(s, q)'
  <2> DEFINE q == p + 1 - back
  <2>1. q \in Nat /\ s <= q /\ (lex'.at \in {"fraction", "sign2"} => s < q)
        /\ back <= p + 1
    BY <1>1, <1>3
  <2>2. Moved(s, p, ch, back)
    BY <1>2, <1>3, <2>1
  <2>3. Depth'
    <3>1. runes'.n = back + IF runes.n > 0 THEN runes.n - 1 ELSE 0
      BY <2>2 DEF Moved
    <3>2. runes.n \in Nat
      BY <1>1
    <3>3. QED
      BY <1>1, <1>3, <3>1, <3>2 DEF Depth
  <2>4. LexOK(s, q)'
    BY <1>3, <2>1, <2>2, <2>3, OtherGoesOn
  <2>5. QED
    BY <2>1, <2>4
<1>4. ASSUME NEW place \in Places, Goto(place)
      PROVE  lex' \in Lexes /\ lex'.at = place /\ lex'.tok = lex.tok
  BY <1>1, <1>4 DEF Goto, Lexes
<1>5. ASSUME Returns("OTHER", <<>>)
      PROVE  lex' \in Lexes /\ lex'.at = "returned" /\ lex'.tok = "OTHER"
  BY <1>1, <1>5, ReturnsType DEF Token
<1>6. CASE lex.at \in {"digits", "decimals"} /\ ReadRune(ch, 0) /\ UNCHANGED lex
  BY <1>1, <1>3, <1>6
<1>7. CASE lex.at = "digits" /\ ReadRune(ch, 0) /\ Goto("fraction")
  BY <1>1, <1>3, <1>4, <1>7 DEF Places
<1>8. CASE /\ lex.at = "digits" /\ Returns("OTHER", <<>>)
           /\ ReadRune(ch, 1) \/ ReadRune(ch, 0)
  BY <1>1, <1>3, <1>5, <1>8
<1>9. CASE lex.at = "fraction" /\ ReadRune(ch, 0) /\ Goto("decimals")
  BY <1>1, <1>3, <1>4, <1>9 DEF Places
<1>10. CASE lex.at = "fraction" /\ ReadRune(ch, 2) /\ Returns("OTHER", <<>>)
  BY <1>1, <1>3, <1>5, <1>10
<1>11. CASE lex.at = "decimals" /\ ReadRune(ch, 1) /\ Returns("OTHER", <<>>)
  BY <1>1, <1>3, <1>5, <1>11
<1>12. CASE /\ lex.at = "sign" /\ ReadRune(ch, 0)
            /\ lex' = [lex EXCEPT !.at = "sign2", !.first = ch]
  <2>1. lex' \in Lexes /\ lex'.at = "sign2" /\ lex'.tok = lex.tok
    BY <1>1, <1>12 DEF Lexes, Places
  <2>2. QED
    BY <1>1, <1>3, <1>12, <2>1
<1>13. CASE /\ lex.at = "sign2" /\ ReadRune(ch, 2)
            /\ Goto("digits") \/ Returns("OTHER", <<>>)
  BY <1>1, <1>3, <1>4, <1>5, <1>13 DEF Places
<1>14. QED
  BY <1>6, <1>7, <1>8, <1>9, <1>10, <1>11, <1>12, <1>13 DEF Digits, Sign

LEMMA WhiteOK ==
  ASSUME NEW s \in Nat, NEW p \in Nat, LexOK(s, p), NEW ch \in Char, White(ch)
  PROVE  \E q \in Nat : LexOK(s, q)'
<1>1. /\ source \in Seq(Char) /\ lex \in Lexes /\ runes.n \in Nat /\ runes.n <= 2
      /\ s <= p /\ lex.at = "white"
  BY LexTypes DEF LexOK, Depth, White, Rings
<1>2. ASSUME NEW back \in {0, 1}, ReadRune(ch, back) PROVE Moved(s, p, ch, back)
  BY <1>2, ReadRuneOK DEF LexOK
<1>3. ASSUME Bare', NEW back \in {0, 1}, ReadRune(ch, back)
      PROVE  BlankFrom(s, p)' /\ ~ Past(s)'
  <2>1. BlankFrom(s, p) /\ ~ Past(s) /\ Moved(s, p, ch, back)
    BY <1>1, <1>2, <1>3 DEF LexOK, TokenFits, Moved
  <2>2. QED
    BY <1>1, <2>1, Kept DEF Moved
<1>4. CASE ch \in Blank /\ ReadRune(ch, 0) /\ UNCHANGED lex
  <2>1. Moved(s, p, ch, 0)
    BY <1>2, <1>4
  <2>2. Depth'
    BY <1>1, <1>4, <2>1 DEF Moved, Depth
  <2>3. ASSUME Bare' PROVE TokenFits(s, p + 1)'
    <3>1. BlankFrom(s, p)' /\ ~ Past(s)'
      BY <1>3, <1>4, <2>3
    <3>2. ch # "eof"
      BY <1>4 DEF Blank
    <3>3. p + 1 <= Len(source') /\ source'[p + 1] = ch
      BY <2>1, <3>2 DEF Moved
    <3>4. BlankFrom(s, p + 1)'
      BY <1>1, <1>4, <3>1, <3>3 DEF BlankFrom
    <3>5. QED
      BY <1>1, <1>4, <3>1, <3>4 DEF TokenFits
  <2>4. LexOK(s, p + 1)'
    BY <1>1, <1>4, <2>1, <2>2, <2>3, LexGoesOn DEF LexOK
  <2>5. QED
    BY <2>4
<1>5. CASE ch \in Eof /\ ReadRune(ch, 0) /\ Returns("WS", <<>>)
  <2>1. Moved(s, p, ch, 0)
    BY <1>2, <1>5
  <2>2. lex' \in Lexes /\ lex'.at = "returned" /\ lex'.tok = "WS"
    BY <1>1, <1>5, ReturnsType DEF Token
  <2>3. Depth'
    BY <1>1, <2>1, <2>2 DEF Moved, Depth
  <2>4. ASSUME Bare' PROVE TokenFits(s, p + 1)'
    <3>1. ~ Past(s)' /\ Past(p + 1)'
      BY <1>3, <1>5, <2>1, <2>4 DEF Moved, Eof
    <3>2. QED
      BY <2>2, <3>1, Runes DEF TokenFits, Returned
  <2>5. LexOK(s, p + 1)'
    BY <1>1, <2>1, <2>2, <2>3, <2>4, LexGoesOn DEF LexOK
  <2>6. QED
    BY <2>5
<1>6. CASE ReadRune(ch, 1) /\ Returns("WS", <<>>)
  <2>1. Moved(s, p, ch, 1)
    BY <1>2, <1>6
  <2>2. lex' \in Lexes /\ lex'.at = "returned" /\ lex'.tok = "WS"
    BY <1>1, <1>6, ReturnsType DEF Token
  <2>3. Depth'
    BY <1>1, <2>1, <2>2 DEF Moved, Depth
  <2>4. ASSUME Bare' PROVE TokenFits(s, p)'
    <3>1. BlankFrom(s, p)' /\ ~ Past(s)'
      BY <1>3, <1>6, <2>4
    <3>2. QED
      BY <2>2, <3>1, Runes DEF TokenFits, Returned
  <2>5. LexOK(s, p)'
    BY <1>1, <2>1, <2>2, <2>3, <2>4, LexGoesOn DEF LexOK
  <2>6. QED
    BY <2>5
<1>7. QED
  BY <1>4, <1>5, <1>6 DEF White

LEMMA DotOK ==
  ASSUME NEW s \in Nat, NEW p \in Nat, LexOK(s, p), NEW ch \in Char, Dot(ch)
  PROVE  \E q \in Nat : LexOK(s, q)'
<1>1. /\ source \in Seq(Char) /\ lex \in Lexes /\ runes.n \in Nat /\ runes.n <= 1
      /\ s < p /\ lex.at = "dot" /\ "." \in Rune
  BY LexTypes DEF LexOK, Depth, Dot, Rings
<1>2. ASSUME NEW back \in {1, 2}, ReadRune(ch, back) PROVE Moved(s, p, ch, back)
  BY <1>1, <1>2, ReadRuneOK DEF LexOK
<1>3. CASE ReadRune(ch, 2) /\ Goto("digits")
  <2>1. Moved(s, p, ch, 2)
    BY <1>2, <1>3
  <2>2. lex' \in Lexes /\ lex'.at = "digits" /\ lex'.tok = lex.tok
    BY <1>1, <1>3 DEF Goto, Lexes, Places
  <2>3. Depth' /\ p - 1 \in Nat /\ s <= p - 1 /\ p - 1 = p + 1 - 2
    BY <1>1, <2>1, <2>2 DEF Moved, Depth
  <2>4. LexOK(s, p - 1)'
    BY <1>1, <2>1, <2>2, <2>3, OtherGoesOn
  <2>5. QED
    BY <2>3, <2>4
<1>4. CASE ReadRune(ch, 1) /\ Returns("DOT", <<>>)
  <2>1. Moved(s, p, ch, 1)
    BY <1>2, <1>4
  <2>2. lex' \in Lexes /\ lex'.at = "returned" /\ lex'.tok = "DOT"
    BY <1>1, <1>4, ReturnsType DEF Token
  <2>3. Depth'
    BY <1>1, <2>1, <2>2 DEF Moved, Depth
  <2>4. ASSUME Bare' PROVE TokenFits(s, p)'
    <3>1. p = s + 1 /\ PeriodAt(p) /\ ~ Past(s)
      BY <1>1, <2>1, <2>4 DEF LexOK, TokenFits, Moved
    <3>2. ~ Past(s)'
      BY <2>1, <3>1 DEF Moved
    <3>3. PeriodAt(p)'
      <4>1. p \in Nat \ {0}
        BY <3>1
      <4>2. QED
        BY <1>1, <2>1, <3>1, <4>1, Kept
    <3>4. QED
      BY <2>2, <3>1, <3>2, <3>3, Runes DEF TokenFits, Returned
  <2>5. LexOK(s, p)'
    BY <1>1, <2>1, <2>2, <2>3, <2>4, LexGoesOn DEF LexOK
  <2>6. QED
    BY <2>5
<1>5. QED
  BY <1>3, <1>4 DEF Dot

LEMMA StringOK ==
  ASSUME NEW s \in Nat, NEW p \in Nat, LexOK(s, p), NEW ch \in Char,
         String(ch) \/ Escape(ch)
  PROVE  \E q \in Nat : LexOK(s, q)'
<1>1. /\ lex \in Lexes /\ runes.n \in Nat /\ runes.n <= 2
      /\ s <= p /\ lex.at \in {"string", "escape"} /\ ReadRune(ch, 0)
  BY LexTypes DEF LexOK, Depth, String, Escape, Rings
<1>2. Moved(s, p, ch, 0)
  BY <1>1, ReadRuneOK DEF LexOK
<1>3. ~ Bare'
  BY <1>1, <1>2 DEF Moved, LexOK, TokenFits
<1>4. /\ lex' \in Lexes /\ lex'.at \in {"string", "escape", "returned"}
      /\ lex'.tok # "DOT" \/ lex'.tok = lex.tok
  <2>1. ASSUME NEW tok \in {"IDENT", "OTHER"}, NEW lit, Returns(tok, lit),
               lit \in Seq(Rune) \/ lit = <<>>
        PROVE  lex' \in Lexes /\ lex'.at = "returned" /\ lex'.tok # "DOT"
    <3>1. tok \in Token /\ tok # "DOT"
      BY DEF Token
    <3>2. lex' \in Lexes /\ lex'.at = "returned" /\ lex'.tok = tok
      BY <1>1, <2>1, <3>1, ReturnsType
    <3>3. QED
      BY <3>1, <3>2
  <2>2. CASE \/ Returns(IF lex.ident THEN "IDENT" ELSE "OTHER", lex.lit)
             \/ Returns("OTHER", <<>>)
    <3>1. lex.lit \in Seq(Rune)
      BY <1>1 DEF Lexes
    <3>2. QED
      BY <2>1, <2>2, <3>1
  <2>3. CASE Goto("escape")
    BY <1>1, <2>3 DEF Goto, Lexes, Places
  <2>4. CASE ch # "eof" /\ lex' = [lex EXCEPT !.lit = Append(@, ch)]
    <3>1. Append(lex.lit, ch) \in Seq(Rune)
      BY <1>1, <2>4 DEF Lexes, Char
    <3>2. QED
      BY <1>1, <2>4, <3>1 DEF Lexes
  <2>5. CASE /\ ch \in {"\\", "quote", "tick"}
             /\ lex' = [lex EXCEPT !.at = "string", !.lit = Append(@, ch)]
    <3>1. Append(lex.lit, ch) \in Seq(Rune)
      BY <1>1, <2>5 DEF Lexes, Char
    <3>2. QED
      BY <1>1, <2>5, <3>1 DEF Lexes, Places
  <2>6. QED
    BY <2>2, <2>3, <2>4, <2>5 DEF String, Escape, Eof
<1>5. Depth'
  BY <1>1, <1>2, <1>4 DEF Moved, Depth
<1>6. LexOK(s, p + 1)'
  BY <1>1, <1>2, <1>3, <1>4, <1>5, LexGoesOn DEF LexOK
<1>7. QED
  BY <1>6

LEMMA LookupType ==
  ASSUME NEW lit \in Seq(Rune)
  PROVE  /\ Lookup(lit) \in Keyword \cup {"IDENT"}
         /\ Lookup(lit) \in Keyword => lit = <<Lookup(lit)>>
<1>1. CASE Len(lit) = 1 /\ lit[1] \in Keyword
  <2>1. lit = <<lit[1]>>
    BY <1>1
  <2>2. QED
    BY <1>1, <2>1 DEF Lookup
<1>2. CASE ~ (Len(lit) = 1 /\ lit[1] \in Keyword)
  BY <1>2, Runes DEF Lookup
<1>3. QED
  BY <1>1, <1>2

LEMMA SpelledOn ==
  ASSUME NEW s \in Nat, NEW lit \in Seq(Rune), NEW ch \in Rune, ch \in IdentChar,
         Len(source') \in Nat,
         s + Len(lit) < Len(source'), source'[s + Len(lit) + 1] = ch,
         IF lit = <<>> THEN ch \in Letter ELSE Spelled(s, lit)'
  PROVE  Spelled(s, Append(lit, ch))' /\ Append(lit, ch) # <<>>
<1> DEFINE l == Append(lit, ch)
<1>1. /\ Len(lit) \in Nat /\ Len(l) = Len(lit) + 1 /\ l[Len(lit) + 1] = ch
      /\ \A j \in 1..Len(lit) : l[j] = lit[j]
  OBVIOUS
<1>2. lit = <<>> <=> Len(lit) = 0
  OBVIOUS
<1>3. l # <<>>
  BY <1>1
<1> HIDE DEF l
<1>4. ASSUME NEW j \in 1..Len(l) PROVE l[j] \in IdentChar /\ source'[s + j] = l[j]
  <2>1. CASE j = Len(lit) + 1
    <3>1. s + j = s + Len(lit) + 1
      BY <1>1, <2>1
    <3>2. QED
      BY <1>1, <2>1, <3>1
  <2>2. CASE j \in 1..Len(lit)
    <3>1. Spelled(s, lit)'
      BY <1>2, <2>2
    <3>2. QED
      BY <1>1, <2>2, <3>1 DEF Spelled
  <2>3. QED
    BY <1>1, <2>1, <2>2
<1>5. l[1] \in Letter
  BY <1>1, <1>2 DEF Spelled
<1>6. Spelled(s, l)'
  BY <1>1, <1>4, <1>5 DEF Spelled
<1>7. QED
  BY <1>3, <1>6 DEF l

LEMMA IdentOK ==
  ASSUME NEW s \in Nat, NEW p \in Nat, LexOK(s, p), NEW ch \in Char, Ident(ch)
  PROVE  \E q \in Nat : LexOK(s, q)'
<1>1. /\ source \in Seq(Char) /\ lex \in Lexes /\ runes.n \in Nat /\ runes.n <= 2
      /\ s <= p /\ lex.at \in {"ident", "identEof"}
  BY LexTypes DEF LexOK, Depth, Ident, Rings
<1>2. PICK lit \in Seq(Rune) : lit = lex.lit
  BY <1>1 DEF Lexes
<1>3. ASSUME NEW back \in {0, 1}, ReadRune(ch, back) PROVE Moved(s, p, ch, back)
  BY <1>3, ReadRuneOK DEF LexOK
\* What has been read is in the line, and begins with a letter.
<1>4. ASSUME Bare', NEW back \in {0, 1}, ReadRune(ch, back)
      PROVE  /\ ~ Past(s)'
             /\ IF lit = <<>> THEN ch \in Letter ELSE Spelled(s, lit)'
             /\ IF lex.at = "ident" THEN p = s + Len(lit)
                  ELSE ch = "eof" /\ EndsAt(s + Len(lit))' /\ Past(p + 1)'
  <2>1. Moved(s, p, ch, back)
    BY <1>3, <1>4
  <2>2. TokenFits(s, p) /\ ~ Past(s) /\ ~ Past(s)'
    BY <1>1, <1>4, <2>1 DEF LexOK, TokenFits, Moved
  <2>3. CASE lex.at = "ident" /\ lit = <<>>
    <3>1. p = s /\ s < Len(source) /\ source[s + 1] \in Letter
      BY <1>2, <2>2, <2>3 DEF TokenFits
    <3>2. ch \in Letter
      BY <1>1, <2>1, <2>2, <3>1 DEF Moved
    <3>3. Len(lit) = 0
      BY <2>3
    <3>4. QED
      BY <2>2, <2>3, <3>1, <3>2, <3>3
  <2>4. CASE lex.at = "ident" /\ lit # <<>>
    <3>1. Spelled(s, lit) /\ p = s + Len(lit)
      BY <1>2, <2>2, <2>4 DEF TokenFits
    <3>2. Spelled(s, lit)'
      BY <1>1, <2>1, <3>1, Kept
    <3>3. QED
      BY <2>2, <2>4, <3>1, <3>2
  <2>5. CASE lex.at = "identEof"
    <3>1. Spelled(s, lit) /\ EndsAt(s + Len(lit)) /\ Past(p)
      BY <1>2, <2>2, <2>5 DEF TokenFits
    <3>2. Len(lit) > 0 /\ s + Len(lit) \in Nat /\ lit # <<>>
      BY <3>1 DEF Spelled
    <3>3. Spelled(s, lit)' /\ EndsAt(s + Len(lit))'
      BY <1>1, <2>1, <3>1, <3>2, Kept
    <3>4. ch = "eof" /\ Past(p + 1)'
      BY <2>1, <3>1 DEF Moved
    <3>5. QED
      BY <2>2, <2>5, <3>2, <3>3, <3>4
  <2>6. QED
    BY <1>1, <2>3, <2>4, <2>5
<1>5. CASE ch \in IdentChar /\ ReadRune(ch, 0)
           /\ lex' = [lex EXCEPT !.at = "ident", !.lit = Append(@, ch)]
  <2>1. Moved(s, p, ch, 0)
    BY <1>3, <1>5
  <2>2. ch \in Rune /\ Append(lit, ch) \in Seq(Rune)
    <3>1. ch \in Rune
      BY <1>5, Runes
    <3>2. QED
      BY <3>1
  <2>3. /\ lex' \in Lexes /\ lex'.at = "ident" /\ lex'.tok = lex.tok
        /\ lex'.lit = Append(lit, ch)
    BY <1>1, <1>2, <1>5, <2>2 DEF Lexes, Places
  <2>4. Depth'
    BY <1>1, <2>1, <2>3 DEF Moved, Depth
  <2>5. ASSUME Bare' PROVE TokenFits(s, p + 1)'
    <3>1. /\ ~ Past(s)' /\ p = s + Len(lit) /\ Len(lit) \in Nat
          /\ IF lit = <<>> THEN ch \in Letter ELSE Spelled(s, lit)'
      <4>1. ch # "eof"
        BY <1>5, Runes
      <4>2. lex.at = "ident"
        BY <1>1, <1>4, <1>5, <2>5, <4>1
      <4>3. QED
        BY <1>4, <1>5, <2>5, <4>2
    <3>2. /\ ch # "eof" /\ p + 1 <= Len(source') /\ source'[p + 1] = ch
          /\ Len(source') \in Nat
      BY <1>5, <2>1, Runes DEF Moved
    <3>3. s + Len(lit) < Len(source') /\ source'[s + Len(lit) + 1] = ch
      BY <3>1, <3>2
    <3>4. Spelled(s, Append(lit, ch))' /\ Append(lit, ch) # <<>>
      BY <1>5, <2>2, <3>1, <3>2, <3>3, SpelledOn
    <3>5. p + 1 = s + Len(Append(lit, ch))
      BY <3>1
    <3>6. Spelled(s, lex.lit)' /\ lex'.lit # <<>> /\ p + 1 = s + Len(lex'.lit)
      BY <2>3, <3>4, <3>5 DEF Spelled
    <3>7. QED
      BY <2>3, <3>1, <3>6 DEF TokenFits
  <2>6. LexOK(s, p + 1)'
    BY <1>1, <2>1, <2>3, <2>4, <2>5, LexGoesOn DEF LexOK
  <2>7. QED
    BY <2>6
<1>6. CASE ch = "quote" /\ ReadRune(ch, 0)
           /\ lex' = [lex EXCEPT !.at = "string", !.first = ch, !.lit = <<>>]
  <2>1. Moved(s, p, ch, 0)
    BY <1>3, <1>6
  <2>2. lex' \in Lexes /\ lex'.at = "string" /\ lex'.tok = lex.tok
    <3>1. <<>> \in Seq(Rune)
      OBVIOUS
    <3>2. QED
      BY <1>1, <1>6, <3>1 DEF Lexes, Places
  <2>3. Depth' /\ ~ Bare'
    BY <1>1, <1>6, <2>1, <2>2 DEF Moved, Depth
  <2>4. LexOK(s, p + 1)'
    BY <1>1, <2>1, <2>2, <2>3, LexGoesOn DEF LexOK
  <2>5. QED
    BY <2>4
\* The identifier ends where it does in the line.
<1>7. ASSUME Bare', NEW back \in {0, 1}, ReadRune(ch, back), lex.at = "ident",
             ch \notin IdentChar
      PROVE  /\ Spelled(s, lit)' /\ EndsAt(s + Len(lit))' /\ p = s + Len(lit)
             /\ ~ Past(s)' /\ (ch = "eof" => Past(p + 1)')
  <2>1. Moved(s, p, ch, back)
    BY <1>3, <1>7
  <2>2. /\ ~ Past(s)' /\ p = s + Len(lit) /\ Len(lit) \in Nat
        /\ Spelled(s, lit)'
    <3>1. ch \notin Letter
      BY <1>7, Runes
    <3>2. QED
      BY <1>4, <1>7, <3>1
  <2>3. CASE ch # "eof"
    BY <1>7, <2>1, <2>2, <2>3 DEF Moved, EndsAt
  <2>4. CASE ch = "eof"
    <3>1. /\ Ended' /\ p + 1 >= Len(source') /\ Len(source') \in Nat
          /\ source' \in Seq(Char) /\ Past(p + 1)'
      BY <2>1, <2>4 DEF Moved, Past
    <3>2. source'[Len(source')] = "eof"
      BY <3>1 DEF Ended
    <3>3. p <= Len(source') /\ source'[p] \in IdentChar
      <4>1. Len(lit) \in 1..Len(lit) /\ p <= Len(source')
        BY <2>2, <3>1 DEF Spelled
      <4>2. source'[s + Len(lit)] \in IdentChar
        BY <2>2, <4>1 DEF Spelled
      <4>3. QED
        BY <2>2, <4>1, <4>2
    <3>4. p + 1 = Len(source')
      <4>1. p # Len(source')
        BY <3>2, <3>3, Runes
      <4>2. QED
        BY <3>1, <3>3, <4>1
    <3>5. EndsAt(p)'
      <4>1. p < Len(source') /\ source'[p + 1] = "eof"
        BY <3>1, <3>2, <3>4
      <4>2. QED
        BY <4>1, Runes DEF EndsAt
    <3>6. QED
      BY <2>2, <3>1, <3>5
  <2>5. QED
    BY <2>3, <2>4
<1>8. CASE lex.at = "ident" /\ ch \in Eof /\ ReadRune(ch, 0) /\ Goto("identEof")
  <2>1. Moved(s, p, ch, 0)
    BY <1>3, <1>8
  <2>2. /\ lex' \in Lexes /\ lex'.at = "identEof" /\ lex'.tok = lex.tok
        /\ lex'.lit = lit
    BY <1>1, <1>2, <1>8 DEF Goto, Lexes, Places
  <2>3. Depth'
    BY <1>1, <2>1, <2>2 DEF Moved, Depth
  <2>4. ASSUME Bare' PROVE TokenFits(s, p + 1)'
    <3>1. ch = "eof"
      BY <1>8, <2>1, <2>4 DEF Moved, Eof
    <3>2. /\ Spelled(s, lit)' /\ EndsAt(s + Len(lit))' /\ ~ Past(s)'
          /\ Past(p + 1)'
      BY <1>7, <1>8, <2>4, <3>1, Runes
    <3>3. QED
      BY <2>2, <3>2 DEF TokenFits, Spelled, EndsAt
  <2>5. LexOK(s, p + 1)'
    BY <1>1, <2>1, <2>2, <2>3, <2>4, LexGoesOn DEF LexOK
  <2>6. QED
    BY <2>5
<1>9. ASSUME NEW back \in {0, 1}, ReadRune(ch, back), Returns(Lookup(lit), lit),
             ch \notin IdentChar, ch # "quote",
             \/ back = 0 /\ lex.at = "identEof" /\ ch \in Eof
             \/ back = 1 /\ ch \notin Eof
      PROVE  \E q \in Nat : LexOK(s, q)'
  <2> DEFINE q == p + 1 - back
  <2>1. Moved(s, p, ch, back) /\ q \in Nat /\ s <= q
    BY <1>1, <1>3, <1>9
  <2>2. /\ Lookup(lit) \in Token /\ Lookup(lit) \in Keyword \cup {"IDENT"}
        /\ Lookup(lit) \in Keyword => lit = <<Lookup(lit)>>
    BY LookupType DEF Token
  <2>3. /\ lex' \in Lexes /\ lex'.at = "returned" /\ lex'.tok = Lookup(lit)
        /\ lex'.lit = lit
    BY <1>1, <1>9, <2>2, ReturnsType
  <2>4. Depth'
    BY <1>1, <2>1, <2>3 DEF Moved, Depth
  <2>5. ASSUME Bare' PROVE TokenFits(s, q)'
    <3>1. /\ Spelled(s, lit)' /\ EndsAt(s + Len(lit))' /\ ~ Past(s)'
          /\ q = s + Len(lit) \/ Past(q)'
      <4>1. CASE lex.at = "ident"
        BY <1>7, <1>9, <2>5, <4>1
      <4>2. CASE lex.at = "identEof"
        <5>1. ch \notin Letter
          BY <1>9, Runes
        <5>2. ch \in Eof /\ back = 0
          BY <1>4, <1>9, <2>5, <4>2 DEF Eof
        <5>3. QED
          BY <1>4, <1>9, <2>5, <4>2, <5>1, <5>2
      <4>3. QED
        BY <1>1, <4>1, <4>2
    <3> HIDE DEF q
    <3>2. Lookup(lit) # "WS" /\ Lookup(lit) # "DOT"
      BY <2>2, Runes
    <3>3. Returned(s, q)'
      BY <2>2, <2>3, <3>1, <3>2 DEF Returned, Spelled, EndsAt
    <3>4. QED
      BY <2>3, <3>1, <3>3 DEF TokenFits
  <2>6. lex'.tok # "DOT"
    BY <2>2, <2>3, Runes
  <2>7. LexOK(s, q)'
    BY <2>1, <2>3, <2>4, <2>5, <2>6, LexGoesOn
  <2>8. QED
    BY <2>1, <2>7
<1>10. CASE lex.at = "identEof" /\ ch \in Eof /\ ReadRune(ch, 0)
            /\ Returns(Lookup(lex.lit), lex.lit)
  BY <1>2, <1>9, <1>10, Runes DEF Eof
<1>11. CASE /\ ch \notin IdentChar \cup Eof \cup {"quote"}
            /\ ReadRune(ch, 1) /\ Returns(Lookup(lex.lit), lex.lit)
  BY <1>2, <1>9, <1>11
<1>12. QED
  BY <1>5, <1>6, <1>8, <1>10, <1>11 DEF Ident

LEMMA LexKeepsLexOK ==
  ASSUME NEW s \in Nat, NEW p \in Nat, LexOK(s, p), Lex
  PROVE  \E q \in Nat : LexOK(s, q)'
<1>1. PICK ch \in Char : \/ Scan(ch) \/ White(ch) \/ Ident(ch) \/ String(ch)
                        \/ Escape(ch) \/ Dot(ch) \/ Sign(ch) \/ Digits(ch)
  BY DEF Lex, Char
<1>2. QED
  BY <1>1, ScanOK, WhiteOK, IdentOK, StringOK, DotOK, DigitsOK

-----------------------------------------------------------------------------
(* Statements. *)

\* All of the line so far is blank but for the statement's first word.
OpBefore(s) ==
  /\ s <= Len(source)
  /\ \E k \in 1..s : /\ source[k] = parse.op
                     /\ \A j \in 1..s : j # k => source[j] \in Blank

\* The name so far is in the line from i on, after the words and a blank.
Named(i) ==
  /\ i > 1 /\ source[i - 1] \in Blank /\ Introduced(i)
  /\ Len(parse.name) > 0 /\ i + Len(parse.name) <= Len(source) + 1
  /\ \A j \in 1..Len(parse.name) : source[i + j - 1] = parse.name[j]
  /\ parse.name[1] \in Letter
  /\ ~ parse.endPeriod =>
       /\ parse.name[Len(parse.name)] # "."
       /\ EndsAt(i + Len(parse.name) - 1)

\* What the parser knows of the line before s.
ParseFits(s) ==
  /\ parse.at = "first" =>
       Past(s) \/ (s <= Len(source) /\ \A k \in 1..s : source[k] \in Blank)
  /\ parse.at = "second" =>
       /\ parse.op \in {"create", "drop", "show"}
       /\ Past(s) \/ OpBefore(s)
  /\ parse.at = "name" =>
       /\ parse.op # "show"
       /\ \/ Past(s)
          \/ /\ s <= Len(source) /\ Introduced(s + 1)
             /\ IF parse.blank THEN s > 0 /\ source[s] \in Blank ELSE EndsAt(s)
  /\ parse.at = "rest" =>
       /\ parse.op # "show"
       /\ \E i \in Nat : Named(i) /\ (Past(s) \/ s = i + Len(parse.name) - 1)
  /\ parse.at = "ok" /\ parse.op # "show" => \E i \in Nat : Named(i)

Parses == [at : {"first", "second", "name", "rest", "ok", "error"},
           blank : BOOLEAN, op : {"none", "use", "create", "drop", "show"},
           name : Seq(Rune), endPeriod : BOOLEAN]
Tokens == [tok : Token, lit : Seq(Rune)]

ParseOK ==
  /\ parse \in Parses /\ tokens \in Rings(Tokens)
  /\ parse.at \in {"first", "second", "name"} => ~ parse.endPeriod
  /\ parse.at = "ok" => ~ parse.endPeriod
  /\ tokens.n <= 1 /\ (~ Done => tokens.n = 0)

ParserInv == ParseOK /\ \E s, p \in Nat : LexOK(s, p) /\ (Bare => ParseFits(s))

\* The line only grows.
LEMMA SourceGrows ==
  ASSUME source \in Seq(Char), Lex
  PROVE  /\ Len(source) \in Nat /\ Len(source') \in Nat /\ Len(source) <= Len(source')
         /\ \A j \in 1..Len(source) : source'[j] = source[j]
         /\ Ended => source' = source
         /\ Bare' => Bare
<1>1. PICK ch \in Char, back \in {0, 1, 2} : ReadRune(ch, back)
  BY DEF Lex, Char, Scan, White, Ident, String, Escape, Dot, Sign, Digits
<1>2. source' = source \/ (~ Ended /\ source' = Append(source, ch))
  <2>1. source' = source \/ source' = IF Ended THEN source ELSE Append(source, ch)
    BY <1>1 DEF ReadRune
  <2>2. QED
    BY <2>1, Zenon
<1>3. /\ Len(source) \in Nat /\ Len(source') \in Nat /\ Len(source) <= Len(source')
      /\ \A j \in 1..Len(source) : source'[j] = source[j]
      /\ source' \in Seq(Char)
  BY <1>2
<1>4. Bare' => Bare
  <2>1. SUFFICES ASSUME Bare', NEW j \in 1..Len(source)
                 PROVE  source[j] \notin {"quote", "tick", "\\", "nul"}
    BY DEF Bare
  <2>2. j \in DOMAIN source'
    BY <1>3, <2>1
  <2>3. QED
    BY <1>3, <2>1, <2>2 DEF Bare
<1>5. QED
  BY <1>2, <1>3, <1>4

LEMMA LexKeepsParseFits ==
  ASSUME NEW s \in Nat, source \in Seq(Char), Lex, UNCHANGED parse, ParseFits(s),
         parse \in Parses
  PROVE  ParseFits(s)'
<1>1. /\ Len(source) \in Nat /\ Len(source') \in Nat /\ Len(source) <= Len(source')
      /\ \A j \in 1..Len(source) : source'[j] = source[j]
      /\ Ended => source' = source
  BY SourceGrows
<1>2. Past(s) => Past(s)'
  BY <1>1 DEF Past, Ended
<1>3. ASSUME NEW i \in Nat, i <= Len(source) + 1, Introduced(i) PROVE Introduced(i)'
  <2>1. \A k \in 1..(i - 1) : source'[k] = source[k]
    BY <1>1, <1>3
  <2>2. {k \in 1..(i - 1) : source[k] \notin Blank}
          = {k \in 1..(i - 1) : source'[k] \notin Blank}
    BY <2>1
  <2>3. QED
    BY <1>3, <2>1, <2>2 DEF Introduced
<1>4. \A i \in Nat : EndsAt(i) => EndsAt(i)'
  BY <1>1 DEF EndsAt
<1>5. ASSUME NEW i \in Nat, Named(i) PROVE Named(i)'
  <2>1. Len(parse.name) \in Nat
    BY DEF Parses
  <2>2. source'[i - 1] = source[i - 1] /\ Introduced(i)'
    <3>1. i - 1 \in 1..Len(source) /\ i <= Len(source) + 1 /\ Introduced(i)
      BY <1>1, <1>5, <2>1 DEF Named
    <3>2. QED
      BY <1>1, <1>3, <3>1
  <2>3. \A j \in 1..Len(parse.name) : source'[i + j - 1] = source[i + j - 1]
    BY <1>1, <1>5, <2>1 DEF Named
  <2>4. EndsAt(i + Len(parse.name) - 1) => EndsAt(i + Len(parse.name) - 1)'
    <3>1. i + Len(parse.name) - 1 \in Nat
      BY <1>5, <2>1 DEF Named
    <3>2. QED
      BY <1>4, <3>1
  <2>5. QED
    BY <1>1, <1>5, <2>1, <2>2, <2>3, <2>4 DEF Named
<1>6. OpBefore(s) => OpBefore(s)'
  BY <1>1 DEF OpBefore
<1>7. s <= Len(source) /\ Introduced(s + 1) => Introduced(s + 1)'
  BY <1>1, <1>3
<1>8. CASE parse.at = "first"
  BY <1>1, <1>2, <1>8 DEF ParseFits
<1>9. CASE parse.at = "second"
  BY <1>2, <1>6, <1>9 DEF ParseFits
<1>10. CASE parse.at = "name"
  <2>1. /\ parse.op # "show"
        /\ \/ Past(s)
           \/ /\ s <= Len(source) /\ Introduced(s + 1)
              /\ IF parse.blank THEN s > 0 /\ source[s] \in Blank ELSE EndsAt(s)
    BY <1>10 DEF ParseFits
  <2>2. s > 0 /\ s <= Len(source) => source'[s] = source[s]
    BY <1>1
  <2>3. QED
    BY <1>1, <1>2, <1>4, <1>7, <1>10, <2>1, <2>2 DEF ParseFits
<1>11. CASE parse.at = "rest"
  <2>1. PICK i \in Nat : Named(i) /\ (Past(s) \/ s = i + Len(parse.name) - 1)
    BY <1>11 DEF ParseFits
  <2>2. Named(i)' /\ (Past(s)' \/ s = i + Len(parse'.name) - 1)
    BY <1>2, <1>5, <2>1
  <2>3. QED
    BY <1>11, <2>2 DEF ParseFits
<1>12. CASE parse.at \in {"ok", "error"}
  BY <1>5, <1>12 DEF ParseFits
<1>13. QED
  BY <1>8, <1>9, <1>10, <1>11, <1>12 DEF Parses

\* The next token begins where this one ended.
LEMMA TakenOK ==
  ASSUME NEW s \in Nat, NEW p \in Nat, LexOK(s, p), lex' = Scanning,
         UNCHANGED <<source, runes>>
  PROVE  LexOK(p, p)'
<1>1. lex' \in Lexes /\ lex'.at = "scan" /\ lex'.tok = "OTHER"
  <2>1. <<>> \in Seq(Rune)
    OBVIOUS
  <2>2. QED
    BY <2>1 DEF Scanning, Lexes, Places, Char, Token
<1>2. LexTypeOK'
  BY <1>1, LexTypes DEF LexOK, LexTypeOK, Char, Lexes
<1>3. Window(p + runes.n)'
  <2>1. Window(p + runes.n)
    BY DEF LexOK
  <2>2. QED
    BY <2>1 DEF Window, Ended, Stream
<1>4. Depth'
  BY <1>1 DEF LexOK, Depth
<1>5. TokenFits(p, p)'
  BY <1>1 DEF TokenFits, Scanning
<1>6. QED
  BY <1>1, <1>2, <1>3, <1>4, <1>5 DEF LexOK

\* What the token says, of a line without quotes and NULs.
LEMMA TokenSays ==
  ASSUME NEW s \in Nat, NEW p \in Nat, LexOK(s, p), Bare, lex.at = "returned"
  PROVE  /\ lex.tok = "WS" => BlankFrom(s, p) \/ Past(p)
         /\ lex.tok \in Keyword \cup {"IDENT"} =>
              /\ Spelled(s, lex.lit) /\ EndsAt(s + Len(lex.lit))
              /\ p = s + Len(lex.lit) \/ Past(p)
         /\ lex.tok \in Keyword => lex.lit = <<lex.tok>>
         /\ lex.tok = "DOT" => p = s + 1 /\ PeriodAt(p)
         /\ Past(s) => lex.tok = "EOF"
  BY DEF LexOK, TokenFits, Returned

\* An identifier does not begin where one has just ended.
LEMMA NothingSpelled ==
  ASSUME NEW s \in Nat, EndsAt(s), NEW lit, Spelled(s, lit)
  PROVE  FALSE
  BY DEF EndsAt, Spelled

LEMMA WordsUnchanged ==
  ASSUME UNCHANGED <<source, runes>>
  PROVE  /\ \A p : Past(p)' <=> Past(p)
         /\ \A p : EndsAt(p)' <=> EndsAt(p)
         /\ Bare' <=> Bare
         /\ parse'.op = parse.op => \A i : Introduced(i)' <=> Introduced(i)
         /\ parse'.op = parse.op => \A i : OpBefore(i)' <=> OpBefore(i)
  BY DEF Past, Ended, EndsAt, Bare, Introduced, OpBefore

LEMMA SkipBlankFits ==
  ASSUME NEW s \in Nat, NEW p \in Nat, LexOK(s, p), Bare, ParseFits(s),
         parse \in Parses, SkipBlank
  PROVE  ParseFits(p)'
<1>1. /\ parse' = [parse EXCEPT !.blank = TRUE] /\ UNCHANGED <<source, runes>>
      /\ parse.at \in {"first", "second", "name"} /\ lex.at = "returned"
      /\ lex.tok = "WS"
  BY DEF SkipBlank, Got, Take
<1>2. /\ parse'.at = parse.at /\ parse'.op = parse.op /\ parse'.blank = TRUE
  BY <1>1 DEF Parses
<1>3. /\ BlankFrom(s, p) \/ Past(p)
      /\ ~ Past(s)
  BY <1>1, TokenSays
<1>4. source \in Seq(Char) /\ Len(source) \in Nat
  BY DEF LexOK, LexTypeOK, Char
<1>5. CASE Past(p)
  BY <1>1, <1>2, <1>5, WordsUnchanged DEF ParseFits
<1>6. CASE BlankFrom(s, p)
  <2>1. s < p /\ p <= Len(source) /\ \A j \in (s + 1)..p : source[j] \in Blank
    BY <1>6 DEF BlankFrom
  <2>2. CASE parse.at = "first"
    <3>1. \A k \in 1..s : source[k] \in Blank
      BY <1>3, <2>2 DEF ParseFits
    <3>2. \A k \in 1..p : source[k] \in Blank
      BY <2>1, <3>1
    <3>3. QED
      BY <1>1, <1>2, <2>1, <2>2, <3>2 DEF ParseFits
  <2>3. CASE parse.at = "second"
    <3>1. OpBefore(s) /\ parse.op \in {"create", "drop", "show"}
      BY <1>3, <2>3 DEF ParseFits
    <3>2. PICK k \in 1..s : /\ source[k] = parse.op
                           /\ \A j \in 1..s : j # k => source[j] \in Blank
      BY <3>1 DEF OpBefore
    <3>3. k \in 1..p /\ \A j \in 1..p : j # k => source[j] \in Blank
      BY <2>1, <3>2
    <3>4. OpBefore(p)
      BY <2>1, <3>2, <3>3 DEF OpBefore
    <3>5. QED
      BY <1>1, <1>2, <2>3, <3>1, <3>4, WordsUnchanged DEF ParseFits
  <2>4. CASE parse.at = "name"
    <3>1. Introduced(s + 1) /\ parse.op # "show"
      BY <1>3, <2>4 DEF ParseFits
    <3>2. {k \in 1..(p + 1 - 1) : source[k] \notin Blank}
            = {k \in 1..(s + 1 - 1) : source[k] \notin Blank}
      BY <2>1
    <3>3. Introduced(p + 1)
      BY <3>1, <3>2 DEF Introduced
    <3>4. p > 0 /\ source[p] \in Blank
      BY <2>1
    <3>5. QED
      BY <1>1, <1>2, <2>1, <2>4, <3>1, <3>3, <3>4, WordsUnchanged DEF ParseFits
  <2>5. QED
    BY <1>1, <2>2, <2>3, <2>4
<1>7. QED
  BY <1>3, <1>5, <1>6

LEMMA StatementFits ==
  ASSUME NEW s \in Nat, NEW p \in Nat, LexOK(s, p), Bare, ParseFits(s),
         parse \in Parses, ParseStatement
  PROVE  ParseFits(p)'
<1>1. PICK op \in {"use", "create", "drop", "show"} :
        /\ parse' = [parse EXCEPT !.at = IF op = "use" THEN "name" ELSE "second",
                                  !.blank = FALSE, !.op = op]
        /\ lex.at = "returned" /\ lex.tok = op
  BY DEF ParseStatement, Got
<1>2. parse.at = "first" /\ UNCHANGED <<source, runes>>
  BY DEF ParseStatement, Take
<1>3. /\ parse'.at = IF op = "use" THEN "name" ELSE "second"
      /\ parse'.op = op /\ parse'.blank = FALSE
  BY <1>1 DEF Parses
<1>4. source \in Seq(Char) /\ Len(source) \in Nat
  BY DEF LexOK, LexTypeOK, Char
<1>5. op \in Keyword
  <2>1. lex.tok \in Token
    BY DEF LexOK, LexTypeOK
  <2>2. QED
    BY <1>1, <2>1 DEF Token
<1>6. /\ Spelled(s, <<op>>) /\ EndsAt(s + 1) /\ (p = s + 1 \/ Past(p)) /\ ~ Past(s)
  BY <1>1, <1>5, TokenSays
<1>7. \A k \in 1..s : source[k] \in Blank
  BY <1>2, <1>6 DEF ParseFits
<1>8. source[s + 1] = op /\ op \notin Blank /\ s + 1 <= Len(source)
  <2>1. Len(<<op>>) = 1 /\ <<op>>[1] = op /\ 1 \in 1..1
    OBVIOUS
  <2>2. source[s + 1] = op /\ s + 1 <= Len(source)
    BY <1>6, <2>1 DEF Spelled
  <2>3. QED
    BY <1>1, <2>2 DEF Blank
<1>9. CASE Past(p)
  BY <1>2, <1>3, <1>9, WordsUnchanged DEF ParseFits
<1>10. CASE p = s + 1 /\ op = "use"
  <2>1. {k \in 1..(p + 1 - 1) : source'[k] \notin Blank} = {p}
    BY <1>2, <1>7, <1>8, <1>10
  <2>2. Introduced(p + 1)'
    BY <1>2, <1>3, <1>8, <1>10, <2>1 DEF Introduced
  <2>3. QED
    BY <1>2, <1>3, <1>6, <1>8, <1>10, <2>2, WordsUnchanged DEF ParseFits
<1>11. CASE p = s + 1 /\ op # "use"
  <2>1. p \in 1..p /\ \A j \in 1..p : j # p => source[j] \in Blank
    BY <1>7, <1>11
  <2>2. OpBefore(p)'
    BY <1>2, <1>3, <1>8, <1>11, <2>1 DEF OpBefore
  <2>3. QED
    BY <1>1, <1>3, <1>11, <2>2 DEF ParseFits
<1>12. QED
  BY <1>6, <1>9, <1>10, <1>11

LEMMA KindFits ==
  ASSUME NEW s \in Nat, NEW p \in Nat, LexOK(s, p), Bare, ParseFits(s),
         parse \in Parses, ParseKind
  PROVE  ParseFits(p)'
<1>1. parse.at = "second" /\ UNCHANGED <<source, runes>> /\ lex.at = "returned"
  BY DEF ParseKind, Take, Got
<1>2. CASE parse.op = "show" /\ Expect("ok")
  BY <1>2 DEF Expect, Parses, ParseFits
<1>3. CASE parse.op # "show" /\ lex.tok = "namespace" /\ Expect("name")
  <2>1. /\ parse'.at = "name" /\ parse'.op = parse.op /\ parse'.blank = FALSE
    BY <1>3 DEF Expect, Parses
  <2>2. source \in Seq(Char) /\ Len(source) \in Nat
    BY DEF LexOK, LexTypeOK, Char
  <2>3. lex.tok \in Keyword
    <3>1. lex.tok \in Token
      BY DEF LexOK, LexTypeOK
    <3>2. QED
      BY <1>3, <3>1 DEF Token
  <2>4. /\ Spelled(s, <<"namespace">>) /\ EndsAt(s + 1) /\ ~ Past(s)
        /\ p = s + 1 \/ Past(p)
    BY <1>1, <1>3, <2>3, TokenSays
  <2>5. /\ source[s + 1] = "namespace" /\ "namespace" \notin Blank
        /\ s + 1 <= Len(source)
    BY <2>4 DEF Spelled, Blank
  <2>6. OpBefore(s) /\ parse.op \in {"create", "drop", "show"}
    BY <1>1, <2>4 DEF ParseFits
  <2>7. PICK k \in 1..s : /\ source[k] = parse.op
                         /\ \A j \in 1..s : j # k => source[j] \in Blank
    BY <2>6 DEF OpBefore
  <2>8. parse.op \notin Blank /\ parse.op # "use"
    BY <2>6 DEF Blank
  <2>9. CASE Past(p)
    BY <1>1, <1>3, <2>1, <2>9, WordsUnchanged DEF ParseFits
  <2>10. CASE p = s + 1
    <3>1. {j \in 1..(p + 1 - 1) : source'[j] \notin Blank} = {k, p}
      BY <1>1, <2>5, <2>7, <2>8, <2>10
    <3>2. k < p /\ source'[p] = "namespace" /\ source'[k] = parse'.op
      BY <1>1, <2>1, <2>5, <2>7, <2>10
    <3>3. Introduced(p + 1)'
      BY <2>1, <2>8, <3>1, <3>2 DEF Introduced
    <3>4. QED
      BY <1>1, <1>3, <2>1, <2>4, <2>5, <2>10, <3>3, WordsUnchanged DEF ParseFits
  <2>11. QED
    BY <2>4, <2>9, <2>10
<1>4. QED
  BY <1>2, <1>3 DEF ParseKind, Got

LEMMA NamespaceFits ==
  ASSUME NEW s \in Nat, NEW p \in Nat, LexOK(s, p), Bare, ParseFits(s),
         parse \in Parses, parse.at = "name" => ~ parse.endPeriod, ParseNamespace
  PROVE  ParseFits(p)'
<1>0. PICK lit \in Seq(Rune), old \in Seq(Rune) : lex.lit = lit /\ parse.name = old
  BY DEF LexOK, LexTypeOK, Parses
<1>1. UNCHANGED <<source, runes>> /\ lex.at = "returned" /\ lex.tok \in {"IDENT", "DOT"}
  BY DEF ParseNamespace, Take, Got
<1>2. source \in Seq(Char) /\ Len(source) \in Nat /\ Len(lit) \in Nat
      /\ Len(old) \in Nat
  BY DEF LexOK, LexTypeOK, Char
<1>3. ~ Past(s)
  BY <1>1, TokenSays
<1>4. CASE parse.at = "name" /\ lex.tok = "IDENT"
           /\ parse' = [parse EXCEPT !.at = "rest", !.name = lex.lit]
  <2>1. /\ parse'.at = "rest" /\ parse'.op = parse.op /\ parse'.name = lit
        /\ ~ parse'.endPeriod
    BY <1>0, <1>4 DEF Parses
  <2>2. /\ Spelled(s, lit) /\ EndsAt(s + Len(lit))
        /\ p = s + Len(lit) \/ Past(p)
    BY <1>0, <1>1, <1>4, TokenSays
  <2>3. /\ parse.op # "show" /\ s <= Len(source) /\ Introduced(s + 1)
        /\ IF parse.blank THEN s > 0 /\ source[s] \in Blank ELSE EndsAt(s)
    BY <1>3, <1>4 DEF ParseFits
  <2>4. s > 0 /\ source[s] \in Blank
    BY <2>2, <2>3, NothingSpelled
  <2>5. lit[Len(lit)] # "."
    <3>1. Len(lit) \in 1..Len(lit)
      BY <1>2, <2>2 DEF Spelled
    <3>2. lit[Len(lit)] \in IdentChar
      BY <2>2, <3>1 DEF Spelled
    <3>3. QED
      BY <3>2, Runes
  <2>6. Named(s + 1)'
    <3>1. Introduced(s + 1)' /\ EndsAt(s + Len(lit))'
      BY <1>1, <2>1, <2>2, <2>3, WordsUnchanged
    <3>2. /\ Len(lit) > 0 /\ s + 1 + Len(lit) <= Len(source) + 1
          /\ \A j \in 1..Len(lit) : source[s + 1 + j - 1] = lit[j]
          /\ lit[1] \in Letter
      BY <1>2, <2>2 DEF Spelled
    <3>3. s + 1 + Len(lit) - 1 = s + Len(lit) /\ s + 1 - 1 = s /\ s + 1 > 1
      BY <1>2, <2>4
    <3>4. QED
      BY <1>1, <2>1, <2>4, <2>5, <3>1, <3>2, <3>3 DEF Named
  <2>7. Past(p)' \/ p = (s + 1) + Len(lit) - 1
    BY <1>1, <1>2, <2>2, WordsUnchanged
  <2>8. QED
    BY <2>1, <2>3, <2>6, <2>7 DEF ParseFits
<1>5. ASSUME parse.at = "rest"
      PROVE  /\ parse.op # "show"
             /\ \E i \in Nat : Named(i) /\ s = i + Len(old) - 1
  BY <1>0, <1>3, <1>5 DEF ParseFits
<1>6. CASE parse.at = "rest" /\ lex.tok = "DOT"
           /\ parse' = [parse EXCEPT !.name = Append(@, "."), !.endPeriod = TRUE]
  <2>1. PICK i \in Nat : Named(i) /\ s = i + Len(old) - 1
    BY <1>5, <1>6
  <2> DEFINE name == Append(old, ".")
  <2>2. /\ parse'.at = "rest" /\ parse'.op = parse.op /\ parse'.name = name
        /\ parse'.endPeriod
    BY <1>0, <1>6 DEF Parses
  <2>3. p = s + 1 /\ p <= Len(source) /\ source[p] = "."
    BY <1>1, <1>6, TokenSays DEF PeriodAt
  <2>4. /\ Len(name) = Len(old) + 1 /\ name[Len(old) + 1] = "."
        /\ \A j \in 1..Len(old) : name[j] = old[j]
    BY <1>2
  <2> HIDE DEF name
  <2>5. /\ i > 1 /\ source[i - 1] \in Blank /\ Introduced(i)
        /\ Len(old) > 0 /\ i + Len(old) <= Len(source) + 1
        /\ \A j \in 1..Len(old) : source[i + j - 1] = old[j]
        /\ old[1] \in Letter
    BY <1>0, <2>1 DEF Named
  <2>6. \A j \in 1..Len(name) : source[i + j - 1] = name[j]
    <3>1. TAKE j \in 1..Len(name)
    <3>2. CASE j = Len(old) + 1
      BY <1>2, <2>1, <2>3, <2>4, <3>1, <3>2
    <3>3. CASE j \in 1..Len(old)
      BY <2>4, <2>5, <3>3
    <3>4. QED
      BY <1>2, <2>4, <3>1, <3>2, <3>3
  <2>7. Introduced(i)'
    BY <1>1, <2>2, <2>5, WordsUnchanged
  <2>8. /\ Len(name) > 0 /\ i + Len(name) <= Len(source) + 1
        /\ name[1] \in Letter /\ p = i + Len(name) - 1
    BY <1>2, <2>1, <2>3, <2>4, <2>5
  <2>9. Named(i)'
    BY <1>1, <2>2, <2>5, <2>6, <2>7, <2>8 DEF Named
  <2>10. QED
    BY <1>5, <1>6, <2>2, <2>8, <2>9 DEF ParseFits
<1>7. CASE parse.at = "rest" /\ lex.tok = "IDENT"
           /\ parse' = [parse EXCEPT !.name = @ \o lex.lit, !.endPeriod = FALSE]
  <2>1. PICK i \in Nat : Named(i) /\ s = i + Len(old) - 1
    BY <1>5, <1>7
  <2> DEFINE name == old \o lit
  <2>2. /\ parse'.at = "rest" /\ parse'.op = parse.op /\ parse'.name = name
        /\ ~ parse'.endPeriod
    BY <1>0, <1>7 DEF Parses
  <2>3. /\ Spelled(s, lit) /\ EndsAt(s + Len(lit))
        /\ p = s + Len(lit) \/ Past(p)
    BY <1>0, <1>1, <1>7, TokenSays
  <2>4. /\ Len(name) = Len(old) + Len(lit)
        /\ \A j \in 1..Len(old) : name[j] = old[j]
        /\ \A j \in 1..Len(lit) : name[Len(old) + j] = lit[j]
    BY <1>2
  <2> HIDE DEF name
  <2>5. /\ Len(lit) > 0 /\ s + Len(lit) <= Len(source)
        /\ \A j \in 1..Len(lit) : lit[j] \in IdentChar /\ source[s + j] = lit[j]
    BY <2>3 DEF Spelled
  <2>6. /\ i > 1 /\ source[i - 1] \in Blank /\ Introduced(i)
        /\ Len(old) > 0
        /\ \A j \in 1..Len(old) : source[i + j - 1] = old[j]
        /\ old[1] \in Letter
    BY <1>0, <2>1 DEF Named
  <2>7. \A j \in 1..Len(name) : source[i + j - 1] = name[j]
    <3>1. TAKE j \in 1..Len(name)
    <3>2. CASE j \in 1..Len(old)
      BY <2>4, <2>6, <3>2
    <3>3. CASE j \notin 1..Len(old)
      <4>1. PICK k \in 1..Len(lit) : j = Len(old) + k
        <5>1. j - Len(old) \in 1..Len(lit)
          BY <1>2, <2>4, <3>1, <3>3
        <5>2. j = Len(old) + (j - Len(old))
          BY <1>2, <3>1
        <5>3. QED
          BY <5>1, <5>2
      <4>2. i + j - 1 = s + k
        BY <1>2, <2>1, <4>1
      <4>3. QED
        BY <2>4, <2>5, <4>1, <4>2
    <3>4. QED
      BY <3>2, <3>3
  <2>8. name[Len(name)] # "."
    <3>1. Len(lit) \in 1..Len(lit)
      BY <1>2, <2>5
    <3>2. name[Len(name)] = lit[Len(lit)] /\ lit[Len(lit)] \in IdentChar
      BY <2>4, <2>5, <3>1
    <3>3. QED
      BY <3>2, Runes
  <2>9. /\ Len(name) > 0 /\ i + Len(name) <= Len(source) + 1
        /\ name[1] \in Letter /\ i + Len(name) - 1 = s + Len(lit)
    <3>1. s = i + Len(old) - 1
      BY <1>0, <2>1
    <3>2. 1 \in 1..Len(old)
      BY <1>2, <2>6
    <3>3. name[1] = old[1]
      BY <2>4, <3>2
    <3>4. QED
      BY <1>2, <2>4, <2>5, <2>6, <3>1, <3>3
  <2>10. Introduced(i)' /\ EndsAt(s + Len(lit))'
    BY <1>1, <2>2, <2>3, <2>6, WordsUnchanged
  <2>11. Named(i)'
    BY <1>1, <2>2, <2>6, <2>7, <2>8, <2>9, <2>10 DEF Named
  <2>12. Past(p)' \/ p = i + Len(name) - 1
    BY <1>1, <2>3, <2>9, WordsUnchanged
  <2>13. QED
    BY <1>5, <1>7, <2>2, <2>11, <2>12 DEF ParseFits
<1>8. QED
  BY <1>4, <1>6, <1>7 DEF ParseNamespace, Got

LEMMA EndFits ==
  ASSUME NEW s \in Nat, NEW p \in Nat, Bare, ParseFits(s), parse \in Parses,
         EndNamespace
  PROVE  ParseFits(p)'
<1>1. /\ parse.at = "rest" /\ UNCHANGED <<source, runes>>
      /\ parse' = [parse EXCEPT !.at = IF parse.endPeriod THEN "error" ELSE "ok"]
  BY DEF EndNamespace
<1>2. /\ parse'.at = IF parse.endPeriod THEN "error" ELSE "ok"
      /\ parse'.op = parse.op /\ parse'.name = parse.name
      /\ parse'.endPeriod = parse.endPeriod
  BY <1>1 DEF Parses
<1>3. PICK i \in Nat : Named(i)
  BY <1>1 DEF ParseFits
<1>4. Named(i)'
  BY <1>1, <1>2, <1>3, WordsUnchanged DEF Named
<1>5. QED
  BY <1>2, <1>4 DEF ParseFits

\* Whatever token the parser takes, it knows as much of the line before the next.
LEMMA ParseKeepsParseFits ==
  ASSUME NEW s \in Nat, NEW p \in Nat, LexOK(s, p), Bare, ParseFits(s), ParseOK, Parse
  PROVE  ParseFits(p)'
<1>1. parse \in Parses /\ (parse.at = "name" => ~ parse.endPeriod)
  BY DEF ParseOK
<1>2. ASSUME Fail PROVE ParseFits(p)'
  <2>1. parse'.at = "error"
    BY <1>1, <1>2 DEF Fail, Expect, Parses
  <2>2. QED
    BY <2>1 DEF ParseFits
<1>3. QED
  BY <1>1, <1>2, SkipBlankFits, StatementFits, KindFits, NamespaceFits, EndFits DEF Parse

LEMMA ParseKeepsParseOK ==
  ASSUME NEW s \in Nat, NEW p \in Nat, LexOK(s, p), ParseOK, Parse
  PROVE  ParseOK' /\ lex' = Scanning /\ UNCHANGED <<source, runes>>
<1>1. /\ parse \in Parses /\ tokens \in Rings(Tokens) /\ tokens.n \in Nat
      /\ parse.at \in {"first", "second", "name"} => ~ parse.endPeriod
      /\ tokens.n <= 1 /\ (~ Done => tokens.n = 0)
  BY DEF ParseOK, Rings
<1>2. /\ lex.lit \in Seq(Rune) /\ lex.tok \in Token
      /\ lex.tok = "DOT" => "." \in Rune
  BY DEF LexOK, LexTypeOK
<1> DEFINE stored == Stored(tokens, [tok |-> lex.tok, lit |-> lex.lit])
<1>3. stored \in Rings(Tokens) /\ stored.n = tokens.n
  <2>1. [tok |-> lex.tok, lit |-> lex.lit] \in Tokens
    BY <1>2 DEF Tokens
  <2>2. QED
    BY <1>1, <2>1, RingStoredType
<1>4. Unread(stored, 1) \in Rings(Tokens) /\ Unread(stored, 1).n = stored.n + 1
  <2> HIDE DEF stored
  <2>1. 1 \in Nat
    OBVIOUS
  <2>2. QED
    BY <1>3, <2>1, RingUnreadType
<1>5. /\ lex' = Scanning /\ UNCHANGED <<source, runes>>
      /\ \/ tokens' = stored
         \/ parse.at = "rest" /\ tokens' = Unread(stored, 1)
  BY DEF Parse, SkipBlank, ParseStatement, ParseKind, ParseNamespace,
         EndNamespace, Fail, Take
<1>6. ~ Done
  BY DEF Done, Parse, SkipBlank, ParseStatement, ParseKind, ParseNamespace,
         EndNamespace, Fail
<1> HIDE DEF stored
<1>7. /\ parse' \in Parses
      /\ parse'.at \in {"first", "second", "name"} => ~ parse'.endPeriod
      /\ parse'.at = "ok" => ~ parse'.endPeriod
  <2>1. CASE SkipBlank
    BY <1>1, <2>1 DEF SkipBlank, Parses
  <2>2. CASE ParseStatement
    BY <1>1, <2>2 DEF ParseStatement, Parses
  <2>3. CASE ParseKind
    BY <1>1, <2>3 DEF ParseKind, Expect, Parses
  <2>4. CASE ParseNamespace
    <3>1. CASE parse.at = "name" /\ parse' = [parse EXCEPT !.at = "rest", !.name = lex.lit]
      BY <1>1, <1>2, <3>1 DEF Parses
    <3>2. CASE /\ parse.at = "rest" /\ lex.tok = "DOT"
               /\ parse' = [parse EXCEPT !.name = Append(@, "."), !.endPeriod = TRUE]
      <4>1. Append(parse.name, ".") \in Seq(Rune)
        BY <1>1, <1>2, <3>2 DEF Parses
      <4>2. QED
        BY <1>1, <3>2, <4>1 DEF Parses
    <3>3. CASE /\ parse.at = "rest"
               /\ parse' = [parse EXCEPT !.name = @ \o lex.lit, !.endPeriod = FALSE]
      <4>1. parse.name \o lex.lit \in Seq(Rune)
        BY <1>1, <1>2 DEF Parses
      <4>2. QED
        BY <1>1, <3>3, <4>1 DEF Parses
    <3>4. QED
      BY <2>4, <3>1, <3>2, <3>3 DEF ParseNamespace, Got
  <2>5. CASE EndNamespace
    BY <1>1, <2>5 DEF EndNamespace, Parses
  <2>6. CASE Fail
    BY <1>1, <2>6 DEF Fail, Expect, Parses
  <2>7. QED
    BY <2>1, <2>2, <2>3, <2>4, <2>5, <2>6 DEF Parse
<1>8. tokens' \in Rings(Tokens) /\ tokens'.n <= 1 /\ (~ Done' => tokens'.n = 0)
  <2>1. CASE tokens' = stored
    BY <1>1, <1>3, <1>6, <2>1
  <2>2. CASE parse.at = "rest" /\ tokens' = Unread(stored, 1)
    <3>1. EndNamespace \/ tokens' = stored
      BY DEF stored, Parse, SkipBlank, ParseStatement, ParseKind, ParseNamespace,
             Fail, Take
    <3>2. ASSUME EndNamespace PROVE Done'
      <4>1. parse'.at \in {"ok", "error"}
        BY <1>1, <3>2 DEF EndNamespace, Parses
      <4>2. QED
        BY <4>1 DEF Done
    <3>3. QED
      BY <1>1, <1>3, <1>4, <1>6, <2>1, <2>2, <3>1, <3>2
  <2>3. QED
    BY <1>5, <2>1, <2>2
<1>9. QED
  BY <1>5, <1>7, <1>8 DEF ParseOK

-----------------------------------------------------------------------------
(* The invariant. *)

LEMMA ParserInitInv ==
  ASSUME ParserInit
  PROVE  ParserInv
<1>1. LexTypeOK
  BY DEF ParserInit, LexInit, LexTypeOK, EmptyRing, Rings, Slots, Scanning, Places, Token
<1>2. Window(0 + runes.n) /\ Depth
  BY DEF ParserInit, LexInit, EmptyRing, Window, Depth, Ended, Scanning, Slots
<1>3. TokenFits(0, 0)
  BY DEF ParserInit, LexInit, TokenFits, Scanning
<1>4. LexOK(0, 0)
  BY <1>1, <1>2, <1>3 DEF LexOK, ParserInit, LexInit, Scanning
<1>5. ParseFits(0)
  BY DEF ParserInit, LexInit, ParseFits
<1>6. ParseOK
  <2>1. [tok |-> "OTHER", lit |-> <<>>] \in Tokens
    BY DEF Tokens, Token
  <2>2. tokens \in Rings(Tokens) /\ tokens.n = 0
    BY <2>1 DEF ParserInit, EmptyRing, Rings, Slots, Nothing
  <2>3. QED
    BY <2>2 DEF ParserInit, ParseOK, Parses
<1>7. QED
  BY <1>4, <1>5, <1>6 DEF ParserInv

LEMMA ParserNextInv ==
  ASSUME ParserInv, [ParserNext]_parserVars
  PROVE  ParserInv'
<1>1. PICK s \in Nat, p \in Nat : LexOK(s, p) /\ (Bare => ParseFits(s))
  BY DEF ParserInv
<1>2. ParseOK /\ parse \in Parses /\ source \in Seq(Char)
  BY <1>1 DEF ParserInv, ParseOK, LexOK, LexTypeOK, Char
<1>3. CASE Lex /\ UNCHANGED <<tokens, parse>>
  <2>1. PICK q \in Nat : LexOK(s, q)'
    BY <1>1, <1>3, LexKeepsLexOK
  <2>2. Bare' => ParseFits(s)'
    BY <1>1, <1>2, <1>3, SourceGrows, LexKeepsParseFits
  <2>3. ParseOK'
    BY <1>2, <1>3 DEF ParseOK, Done
  <2>4. QED
    BY <2>1, <2>2, <2>3 DEF ParserInv
<1>4. CASE Parse
  <2>1. ParseOK' /\ lex' = Scanning /\ UNCHANGED <<source, runes>>
    BY <1>1, <1>2, <1>4, ParseKeepsParseOK
  <2>2. LexOK(p, p)'
    BY <1>1, <2>1, TakenOK
  <2>3. Bare' => ParseFits(p)'
    BY <1>1, <1>2, <1>4, <2>1, WordsUnchanged, ParseKeepsParseFits
  <2>4. QED
    BY <2>1, <2>2, <2>3 DEF ParserInv
<1>5. CASE UNCHANGED parserVars
  <2>1. UNCHANGED <<source, runes, lex, tokens, parse>>
    BY <1>5 DEF parserVars, lexVars
  <2>2. LexOK(s, p)'
    <3>1. LexTypeOK' /\ Depth' /\ (Bare' <=> Bare)
      BY <1>1, <2>1 DEF LexOK, LexTypeOK, Depth, Bare
    <3>2. Window(p + runes.n)'
      BY <1>1, <2>1 DEF LexOK, Window, Stream, Ended
    <3>3. TokenFits(s, p) => TokenFits(s, p)'
      BY <2>1 DEF TokenFits, BlankFrom, Spelled, PeriodAt, Returned, EndsAt, Past,
         Ended
    <3>4. QED
      BY <1>1, <2>1, <3>1, <3>2, <3>3 DEF LexOK
  <2>3. Bare' => ParseFits(s)'
    <3>1. /\ Past(s)' <=> Past(s)
          /\ \A i : EndsAt(i)' <=> EndsAt(i)
          /\ \A i : Introduced(i)' <=> Introduced(i)
          /\ \A i : OpBefore(i)' <=> OpBefore(i)
          /\ Bare' <=> Bare
      BY <2>1, WordsUnchanged
    <3>2. \A i : Named(i) => Named(i)'
      BY <2>1, <3>1 DEF Named
    <3>3. QED
      BY <1>1, <2>1, <3>1, <3>2 DEF ParseFits
  <2>4. ParseOK'
    BY <1>2, <2>1 DEF ParseOK, Done
  <2>5. QED
    BY <2>2, <2>3, <2>4 DEF ParserInv
<1>6. QED
  BY <1>3, <1>4, <1>5 DEF ParserNext

LEMMA ParserInvHolds == ParserSpec => []ParserInv
BY ParserInitInv, ParserNextInv, PTL DEF ParserSpec

\* The variables keep their types; in particular an identifier never holds the
\* rune that ends the source.
THEOREM ParserTypeCorrect == ParserSpec => []ParserTypeOK
<1>1. ParserInv => ParserTypeOK
  BY DEF ParserInv, ParseOK, LexOK, ParserTypeOK, Parses, Tokens
<1>2. QED
  BY <1>1, ParserInvHolds, PTL

\* Three slots are enough for the reader and for the parser, on any line: what
\* is unread is still in its slot when it is read again.
THEOREM UnreadIsKept == ParserSpec => []UnreadRunesAreKept
<1>1. ParserInv => UnreadRunesAreKept
  <2>1. SUFFICES ASSUME ParserInv PROVE UnreadRunesAreKept
    OBVIOUS
  <2>2. PICK s \in Nat, p \in Nat : LexOK(s, p)
    BY <2>1 DEF ParserInv
  <2>3. /\ runes.n \in Nat /\ runes.n <= 2 /\ Window(p + runes.n)
        /\ Len(source) \in Nat
    BY <2>2 DEF LexOK, LexTypeOK, Depth, Rings
  <2>4. tokens.n <= 1 /\ tokens.n \in Nat
    BY <2>1 DEF ParserInv, ParseOK, Rings
  <2>5. ASSUME NEW k \in 0..runes.n, k < Len(source), ~ Ended
        PROVE  At(runes, k) = source[Len(source) - k]
    <3>1. p + runes.n = Len(source)
      BY <2>3, <2>5 DEF Window
    <3>2. k \in 0..2 /\ k < p + runes.n /\ Len(source) - k <= Len(source)
      BY <2>3, <2>5, <3>1
    <3>3. At(runes, k) = Stream(Len(source) - k)
      BY <2>3, <3>1, <3>2 DEF Window
    <3>4. QED
      BY <3>2, <3>3 DEF Stream
  <2>6. QED
    BY <2>3, <2>4, <2>5 DEF UnreadRunesAreKept, Slots
<1>2. QED
  BY <1>1, ParserInvHolds, PTL

\* Whatever the runes and however long the line, the name that ParseStatement
\* accepts from a line without quotes and NULs stands there as it is, after the
\* words that introduce it.
THEOREM BareNamesStand == ParserSpec => []BareNamesAreVerbatim
<1>1. ParserInv => BareNamesAreVerbatim
  <2>1. SUFFICES ASSUME ParserInv, parse.at = "ok", Bare, parse.op # "show"
                 PROVE  /\ parse.name[1] \in Letter
                        /\ parse.name[Len(parse.name)] # "."
                        /\ \E i \in 3..Len(source) :
                             LET after == i + Len(parse.name)
                             IN  /\ after <= Len(source)
                                 /\ source[i - 1] \in Blank
                                 /\ Introduced(i)
                                 /\ SubSeq(source, i, after - 1) = parse.name
                                 /\ source[after] \notin IdentChar
    BY DEF BareNamesAreVerbatim
  <2>2. PICK name \in Seq(Rune) : parse.name = name
    BY <2>1 DEF ParserInv, ParseOK, Parses
  <2>3. PICK i \in Nat : Named(i)
    BY <2>1 DEF ParserInv, ParseFits
  <2>4. source \in Seq(Char) /\ Len(source) \in Nat /\ Len(name) \in Nat
    BY <2>1 DEF ParserInv, LexOK, LexTypeOK, Char
  <2>5. ~ parse.endPeriod
    BY <2>1 DEF ParserInv, ParseOK
  <2>6. /\ i > 1 /\ source[i - 1] \in Blank /\ Introduced(i)
        /\ Len(name) > 0
        /\ \A j \in 1..Len(name) : source[i + j - 1] = name[j]
        /\ name[1] \in Letter /\ name[Len(name)] # "."
        /\ EndsAt(i + Len(name) - 1)
    BY <2>2, <2>3, <2>5 DEF Named
  <2>7. i \in 3..Len(source) /\ i + Len(name) <= Len(source)
        /\ source[i + Len(name)] \notin IdentChar
    <3>1. PICK k \in 1..(i - 1) : source[k] \notin Blank
      BY <2>6 DEF Introduced
    <3>2. k # i - 1
      BY <2>6, <3>1
    <3>3. /\ i + Len(name) - 1 < Len(source)
          /\ source[(i + Len(name) - 1) + 1] \notin IdentChar
      BY <2>6 DEF EndsAt
    <3>4. (i + Len(name) - 1) + 1 = i + Len(name)
      BY <2>4
    <3>5. QED
      BY <2>4, <2>6, <3>1, <3>2, <3>3, <3>4
  <2>8. SubSeq(source, i, i + Len(name) - 1) = name
    <3> DEFINE piece == SubSeq(source, i, i + Len(name) - 1)
    <3>1. /\ piece \in Seq(Char) /\ Len(piece) = Len(name)
          /\ \A j \in 1..Len(name) : piece[j] = source[i + j - 1]
      BY <2>4, <2>6, <2>7
    <3>2. piece = name
      <4> HIDE DEF piece
      <4>1. \A j \in 1..Len(name) : piece[j] = name[j]
        BY <2>6, <3>1
      <4>2. name \in Seq(Char)
        BY DEF Char
      <4>3. QED
        BY <3>1, <4>1, <4>2
    <3>3. QED
      BY <3>2
  <2>9. QED
    BY <2>2, <2>6, <2>7, <2>8
<1>2. QED
  BY <1>1, ParserInvHolds, PTL

-----------------------------------------------------------------------------
(* Numbers. *)

\* A set of numbers that is not empty has a least one.
LEMMA LeastElement ==
  ASSUME NEW T, T \subseteq Nat, T # {}
  PROVE  \E x \in T : \A y \in T : x <= y
<1> DEFINE R == OpToRel(<, Nat)
<1>1. IsWellFoundedOn(R, Nat)
  BY NatLessThanWellFounded
<1>2. \A x, y \in Nat : <<y, x>> \in R <=> y < x
  BY DEF OpToRel
<1> HIDE DEF R
<1>3. PICK x \in T : \A y \in T : ~ (<<y, x>> \in R)
  BY <1>1, WFMin
<1>4. SUFFICES ASSUME NEW y \in T PROVE x <= y
  OBVIOUS
<1>5. x \in Nat /\ y \in Nat
  OBVIOUS
<1>6. ~ (y < x)
  BY <1>2, <1>3, <1>5, Zenon
<1>7. QED
  BY <1>5, <1>6

\* Induction, for a set.
LEMMA StepByStep ==
  ASSUME NEW m \in Nat, NEW T, 0 \in T, \A i \in 1..m : i - 1 \in T => i \in T
  PROVE  \A i \in 0..m : i \in T
<1> DEFINE U == {i \in 0..m : i \notin T}
<1>1. SUFFICES ASSUME U # {} PROVE FALSE
  OBVIOUS
<1>2. PICK i \in U : \A k \in U : i <= k
  <2>1. U \subseteq Nat
    OBVIOUS
  <2> HIDE DEF U
  <2>2. QED
    BY <1>1, <2>1, LeastElement
<1>3. i \in 1..m /\ i - 1 \in 0..m /\ i - 1 \notin U
  BY <1>2
<1>4. QED
  BY <1>2, <1>3

\* The first k values of a recursive function.
Recursive(S, b, G, k, f) ==
  /\ f \in [0..k -> S] /\ f[0] = b
  /\ \A i \in 1..k : f[i] = G[i][f[i - 1]]

LEMMA Recursion ==
  ASSUME NEW S, NEW b \in S, NEW n \in Nat, NEW G \in [1..n -> [S -> S]]
  PROVE  \E f : Recursive(S, b, G, n, f)
<1> DEFINE T == {k \in 0..n : \E f : Recursive(S, b, G, k, f)}
<1>1. 0 \in T
  <2>1. Recursive(S, b, G, 0, [i \in 0..0 |-> b])
    BY DEF Recursive
  <2>2. QED
    BY <2>1
<1>2. ASSUME NEW k \in 1..n, k - 1 \in T PROVE k \in T
  <2>1. PICK f : Recursive(S, b, G, k - 1, f)
    BY <1>2
  <2>2. f \in [0..(k - 1) -> S] /\ f[0] = b
        /\ \A i \in 1..(k - 1) : f[i] = G[i][f[i - 1]]
    BY <2>1 DEF Recursive
  <2> DEFINE h == [i \in 0..k |-> IF i = k THEN G[k][f[k - 1]] ELSE f[i]]
  <2>3. f[k - 1] \in S /\ G[k][f[k - 1]] \in S
    BY <2>2
  <2>4. h \in [0..k -> S] /\ h[k] = G[k][f[k - 1]]
        /\ \A i \in 0..(k - 1) : h[i] = f[i]
    BY <2>2, <2>3
  <2> HIDE DEF h
  <2>5. h[0] = b
    BY <2>2, <2>4
  <2>6. ASSUME NEW i \in 1..k PROVE h[i] = G[i][h[i - 1]]
    <3>1. h[i - 1] = f[i - 1]
      BY <2>4
    <3>2. CASE i = k
      BY <2>4, <3>1, <3>2
    <3>3. CASE i # k
      <4>1. i \in 1..(k - 1) /\ h[i] = f[i]
        BY <2>4, <3>3
      <4>2. QED
        BY <2>2, <3>1, <4>1
    <3>4. QED
      BY <3>2, <3>3
  <2>7. Recursive(S, b, G, k, h)
    BY <2>4, <2>5, <2>6 DEF Recursive
  <2>8. QED
    BY <2>7
<1>3. n \in T
  <2> HIDE DEF T
  <2>1. \A k \in 1..n : k - 1 \in T => k \in T
    BY <1>2
  <2>2. \A k \in 0..n : k \in T
    BY <1>1, <2>1, StepByStep, Zenon
  <2>3. QED
    BY <2>2
<1>4. QED
  BY <1>3

LEMMA SmallRem ==
  ASSUME NEW m \in Nat, m >= 1, NEW x \in 0..m
  PROVE  Rem(x, m) = IF x = m THEN 0 ELSE x
BY DEF Rem

-----------------------------------------------------------------------------
(* The ring of the terminal. *)

Histories(max) ==
  [slot : [0..(max - 1) -> Line], head : -1..(max - 1), size : 0..max, max : {max}]

\* The ring gives back these lines, as far as it can.
Recalls(r, lines) ==
  \A n \in 0..(Len(lines) - 1) :
    n < r.max - 1 => n < r.size /\ r.slot[Index(r, n)] = lines[Len(lines) - n]

LEMMA PutRecalls ==
  ASSUME NEW max \in Nat, max >= 2, NEW r \in Histories(max), NEW a \in Line,
         NEW lines \in Seq(Line), Recalls(r, lines)
  PROVE  /\ Put(r, a) \in Histories(max) /\ Put(r, a).head >= 0
         /\ Put(r, a).size >= r.size /\ Put(r, a).size > 0
         /\ Recalls(Put(r, a), Append(lines, a))
         /\ RemoveLast(Put(r, a)) \in Histories(max)
         /\ RemoveLast(Put(r, a)).size >= r.size
         /\ Recalls(RemoveLast(Put(r, a)), lines)
<1> DEFINE h == IF r.head + 1 = max THEN 0 ELSE r.head + 1
<1>1. PICK slot \in [0..(max - 1) -> Line], head \in -1..(max - 1), size0 \in 0..max :
        r = [slot |-> slot, head |-> head, size |-> size0, max |-> max]
  BY DEF Histories
<1>2. r.slot = slot /\ r.head = head /\ r.size = size0 /\ r.max = max
  BY <1>1
<1>3. Rem(r.head + 1, r.max) = h
  BY <1>2, SmallRem
<1> DEFINE new == [slot EXCEPT ![h] = a]
           more == IF size0 < max THEN size0 + 1 ELSE size0
<1>4. h \in 0..(max - 1) /\ more \in 0..max /\ more > 0 /\ more >= size0
      /\ new \in [0..(max - 1) -> Line] /\ new[h] = a
      /\ \A i \in 0..(max - 1) : i # h => new[i] = slot[i]
  BY <1>2
<1>5. Put(r, a) = [slot |-> new, head |-> h, size |-> more, max |-> max]
  <2>1. Put(r, a) = [r EXCEPT !.head = h, !.slot[h] = a,
                              !.size = IF @ < r.max THEN @ + 1 ELSE @]
    BY <1>3 DEF Put
  <2> HIDE DEF h
  <2>2. QED
    BY <1>1, <2>1
<1>6. RemoveLast(Put(r, a)) = [slot |-> new, head |-> h - 1, size |-> more, max |-> max]
  <2>1. Rem(h - 1, max) = h - 1
    <3>1. CASE h = 0
      <4>1. Rem(-1, max) = -1
        BY SmallRem DEF Rem
      <4>2. QED
        BY <3>1, <4>1
    <3>2. CASE h # 0
      <4>1. h - 1 \in 0..max /\ h - 1 # max
        BY <1>4, <3>2
      <4>2. QED
        BY <4>1, SmallRem
    <3>3. QED
      BY <3>1, <3>2
  <2> HIDE DEF h, new, more
  <2>2. QED
    BY <1>5, <2>1 DEF RemoveLast
<1>7. head + 1 = h \/ (head = max - 1 /\ h = 0)
  BY <1>2
<1> HIDE DEF h, new, more
<1>8. Put(r, a) \in Histories(max) /\ RemoveLast(Put(r, a)) \in Histories(max)
  BY <1>4, <1>5, <1>6 DEF Histories
<1>9. \A n \in 0..(Len(lines) - 1) : n < max - 1 =>
        /\ n < size0
        /\ slot[IF head - n < 0 THEN head - n + max ELSE head - n]
             = lines[Len(lines) - n]
  BY <1>2 DEF Recalls, Index
<1>10. Recalls(Put(r, a), Append(lines, a))
  <2>1. SUFFICES ASSUME NEW n \in 0..Len(lines), n < max - 1
                 PROVE  /\ n < more
                        /\ new[IF h - n < 0 THEN h - n + max ELSE h - n]
                             = Append(lines, a)[Len(lines) + 1 - n]
    <3>1. Len(Append(lines, a)) = Len(lines) + 1
      OBVIOUS
    <3>2. QED
      BY <1>5, <2>1, <3>1 DEF Recalls, Index
  <2>2. CASE n = 0
    BY <1>4, <2>2
  <2>3. CASE n # 0
    <3>1. n - 1 \in 0..(Len(lines) - 1) /\ n - 1 < max - 1
      BY <2>1, <2>3
    <3> DEFINE i == IF head - (n - 1) < 0 THEN head - (n - 1) + max
                                          ELSE head - (n - 1)
    <3>2. n - 1 < size0 /\ slot[i] = lines[Len(lines) - (n - 1)]
      BY <1>9, <3>1
    <3>3. i \in 0..(max - 1) /\ i # h
          /\ (IF h - n < 0 THEN h - n + max ELSE h - n) = i
      BY <1>4, <1>7, <2>1, <2>3
    <3>4. n < more
      BY <2>1, <3>2 DEF more
    <3>5. Append(lines, a)[Len(lines) + 1 - n] = lines[Len(lines) - (n - 1)]
      <4>1. Len(lines) + 1 - n = Len(lines) - (n - 1)
            /\ Len(lines) - (n - 1) \in 1..Len(lines)
        BY <2>1, <2>3
      <4>2. QED
        BY <4>1
    <3> HIDE DEF i
    <3>6. QED
      BY <1>4, <3>2, <3>3, <3>4, <3>5
  <2>4. QED
    BY <2>2, <2>3
<1>11. Recalls(RemoveLast(Put(r, a)), lines)
  <2>1. SUFFICES ASSUME NEW n \in 0..(Len(lines) - 1), n < max - 1
                 PROVE  /\ n < more
                        /\ new[IF h - 1 - n < 0 THEN h - 1 - n + max ELSE h - 1 - n]
                             = lines[Len(lines) - n]
    BY <1>6, <2>1 DEF Recalls, Index
  <2> DEFINE i == IF head - n < 0 THEN head - n + max ELSE head - n
  <2>2. n < size0 /\ slot[i] = lines[Len(lines) - n]
    BY <1>9, <2>1
  <2>3. i \in 0..(max - 1) /\ i # h
        /\ (IF h - 1 - n < 0 THEN h - 1 - n + max ELSE h - 1 - n) = i
    BY <1>4, <1>7, <2>1
  <2> HIDE DEF i
  <2>4. QED
    BY <1>4, <2>2, <2>3
<1>12. QED
  BY <1>2, <1>4, <1>5, <1>6, <1>8, <1>10, <1>11

-----------------------------------------------------------------------------
(* The history file, as it is read and written: what the recursive functions of
   Client are at each step. *)

Text == Seq(Word \cup {LF})
Piece == Seq(Word) \ {<<>>}

ReadOn(f, i, x) ==
  IF f[i] = LF THEN x
  ELSE IF i = 1 \/ f[i - 1] = LF THEN Append(x, <<f[i]>>)
  ELSE [x EXCEPT ![Len(x)] = Append(@, f[i])]

LEMMA ReadOnType ==
  ASSUME NEW f \in Text, NEW i \in 1..Len(f), NEW x \in Seq(Piece)
  PROVE  ReadOn(f, i, x) \in Seq(Piece)
<1>1. CASE f[i] = LF
  BY <1>1 DEF ReadOn
<1>2. CASE f[i] # LF
  <2>1. f[i] \in Word
    BY <1>2 DEF Text
  <2>2. <<f[i]>> \in Piece
    BY <2>1 DEF Piece
  <2>3. Append(x, <<f[i]>>) \in Seq(Piece)
    BY <2>2
  <2>4. [x EXCEPT ![Len(x)] = Append(@, f[i])] \in Seq(Piece)
    <3>1. CASE Len(x) = 0
      <4>1. x = <<>>
        BY <3>1
      <4>2. [x EXCEPT ![Len(x)] = Append(@, f[i])] = x
        BY <4>1
      <4>3. QED
        BY <4>2
    <3>2. CASE Len(x) # 0
      <4>1. Len(x) \in 1..Len(x)
        BY <3>2
      <4>2. x[Len(x)] \in Seq(Word)
        BY <4>1 DEF Piece
      <4>3. Append(x[Len(x)], f[i]) \in Piece
        <5>1. ASSUME NEW p \in Seq(Word) PROVE Append(p, f[i]) \in Piece
          <6>1. Append(p, f[i]) \in Seq(Word) /\ Len(Append(p, f[i])) = Len(p) + 1
            BY <2>1
          <6>2. Append(p, f[i]) # <<>>
            BY <6>1
          <6>3. QED
            BY <6>1, <6>2 DEF Piece
        <5>2. QED
          BY <4>2, <5>1, Zenon
      <4>4. QED
        BY <4>1, <4>3
    <3>3. QED
      BY <3>1, <3>2
  <2>5. QED
    BY <1>2, <2>3, <2>4 DEF ReadOn
<1>3. QED
  BY <1>1, <1>2

JoinOn(e, i, x) == IF i = 1 THEN e[1] ELSE x \o <<LF>> \o e[i]

LEMMA JoinOnType ==
  ASSUME NEW e \in Seq(Text), NEW i \in 1..Len(e), NEW x \in Text
  PROVE  JoinOn(e, i, x) \in Text
<1>1. e[i] \in Text /\ e[1] \in Text /\ <<LF>> \in Text
  BY DEF Text
<1>2. x \o <<LF>> \o e[i] \in Text
  BY <1>1 DEF Text
<1>3. QED
  BY <1>1, <1>2 DEF JoinOn

TakeOn(s, i, x) == IF i > 1 /\ s[i] = s[i - 1] THEN x ELSE Append(x, s[i])

LEMMA TakeOnType ==
  ASSUME NEW s \in Seq(Statement), NEW i \in 1..Len(s), NEW x \in Seq(Statement)
  PROVE  TakeOn(s, i, x) \in Seq(Statement)
BY DEF TakeOn

LEMMA AddOnType ==
  ASSUME NEW max \in Nat, max >= 2, NEW r \in Histories(max), NEW a \in Line
  PROVE  /\ Add(r, a) \in Histories(max)
         /\ Add(r, a) = IF a = <<>> THEN r ELSE Put(r, a)
<1>1. r.max = max
  BY DEF Histories
<1>2. Add(r, a) = IF a = <<>> THEN r ELSE Put(r, a)
  BY <1>1 DEF Add, NoLine
<1>3. Recalls(r, <<>>)
  BY DEF Recalls
<1>4. <<>> \in Seq(Line)
  OBVIOUS
<1>5. Put(r, a) \in Histories(max)
  BY <1>3, <1>4, PutRecalls
<1>6. QED
  BY <1>2, <1>5

LEMMA TextsAssociate ==
  \A f, s, u \in Text : (f \o s) \o u = f \o (s \o u)
<1> SUFFICES ASSUME NEW f \in Text, NEW s \in Text, NEW u \in Text
             PROVE  (f \o s) \o u = f \o (s \o u)
  OBVIOUS
<1> DEFINE S == Word \cup {LF}
<1>1. f \in Seq(S) /\ s \in Seq(S) /\ u \in Seq(S)
  BY DEF Text
<1> HIDE DEF S
<1>2. QED
  BY <1>1

LEMMA AppendedLast ==
  \A a, b \in Seq(Seq(Word)), y \in Seq(Word) : Append(a \o b, y) = a \o Append(b, y)
<1> DEFINE S == Seq(Word)
<1> SUFFICES ASSUME NEW a \in Seq(S), NEW b \in Seq(S), NEW y \in S
             PROVE  Append(a \o b, y) = a \o Append(b, y)
  OBVIOUS
<1> HIDE DEF S
<1>1. QED
  OBVIOUS

\* Entries reads a file word by word.
LEMMA EntriesStepwise ==
  ASSUME NEW f \in Text
  PROVE  \E g \in [0..Len(f) -> Seq(Piece)] :
           /\ g[0] = <<>> /\ Entries(f) = g[Len(f)]
           /\ \A i \in 1..Len(f) : g[i] = ReadOn(f, i, g[i - 1])
<1> DEFINE n == Len(f)
           G == [i \in 1..n |-> [x \in Seq(Piece) |-> ReadOn(f, i, x)]]
           Solves(g) ==
             g = [i \in 0..n |-> IF i = 0 THEN <<>> ELSE ReadOn(f, i, g[i - 1])]
           c == CHOOSE g : Solves(g)
<1>0. n \in Nat
  OBVIOUS
<1>1. Entries(f) = c[n]
  BY DEF Entries, ReadOn
<1>2. G \in [1..n -> [Seq(Piece) -> Seq(Piece)]] /\ <<>> \in Seq(Piece)
  BY ReadOnType
<1>3. PICK g : Recursive(Seq(Piece), <<>>, G, n, g)
  <2> HIDE DEF G, n
  <2>1. QED
    BY <1>0, <1>2, Recursion
<1>4. g \in [0..n -> Seq(Piece)] /\ g[0] = <<>>
      /\ \A i \in 1..n : g[i - 1] \in Seq(Piece) /\ g[i] = ReadOn(f, i, g[i - 1])
  <2>1. g \in [0..n -> Seq(Piece)] /\ g[0] = <<>> /\ \A i \in 1..n : g[i] = G[i][g[i - 1]]
    BY <1>3 DEF Recursive
  <2>2. ASSUME NEW i \in 1..n
        PROVE  g[i - 1] \in Seq(Piece) /\ g[i] = ReadOn(f, i, g[i - 1])
    <3>1. i - 1 \in 0..n
      BY <1>0
    <3>2. g[i - 1] \in Seq(Piece)
      BY <2>1, <3>1
    <3>3. QED
      BY <2>1, <3>2
  <2>3. QED
    BY <2>1, <2>2
<1> HIDE DEF n, G
<1>5. Solves(g)
  <2>1. \A i \in 0..n : g[i] = IF i = 0 THEN <<>> ELSE ReadOn(f, i, g[i - 1])
    <3>1. \A i \in 0..n : i = 0 \/ i \in 1..n
      BY <1>0
    <3>2. QED
      BY <1>4, <3>1
  <2>2. QED
    BY <1>4, <2>1
<1>6. Solves(c)
  <2> HIDE DEF Solves
  <2>1. QED
    BY <1>5
<1>7. \A i \in 0..n : c[i] = IF i = 0 THEN <<>> ELSE ReadOn(f, i, c[i - 1])
  <2> HIDE DEF c
  <2>1. QED
    BY <1>6, Zenon
<1> HIDE DEF c, Solves
<1>8. c[n] = g[n]
  <2> DEFINE T == {i \in 0..n : c[i] = g[i]}
  <2>1. 0 \in T
    BY <1>0, <1>4, <1>7
  <2>2. ASSUME NEW i \in 1..n, i - 1 \in T PROVE i \in T
    <3>1. i \in 0..n /\ i # 0 /\ c[i - 1] = g[i - 1]
      BY <1>0, <2>2
    <3>2. c[i] = ReadOn(f, i, c[i - 1])
      BY <1>7, <3>1
    <3>3. QED
      BY <1>4, <3>1, <3>2
  <2>3. \A i \in 0..n : i \in T
    <3> HIDE DEF T
    <3>1. \A i \in 1..n : i - 1 \in T => i \in T
      BY <2>2
    <3>2. QED
      BY <1>0, <2>1, <3>1, StepByStep, Zenon
  <2>4. QED
    BY <1>0, <2>3
<1>9. QED
  BY <1>1, <1>4, <1>8 DEF n

\* Joined takes entry by entry.
LEMMA JoinedStepwise ==
  ASSUME NEW e \in Seq(Text)
  PROVE  \E g \in [0..Len(e) -> Text] :
           /\ g[0] = <<>> /\ Joined(e) = g[Len(e)]
           /\ \A i \in 1..Len(e) : g[i] = JoinOn(e, i, g[i - 1])
<1> DEFINE n == Len(e)
           G == [i \in 1..n |-> [x \in Text |-> JoinOn(e, i, x)]]
           Solves(g) ==
             g = [i \in 0..n |-> IF i = 0 THEN <<>> ELSE JoinOn(e, i, g[i - 1])]
           c == CHOOSE g : Solves(g)
<1>0. n \in Nat
  OBVIOUS
<1>1. Joined(e) = c[n]
  BY DEF Joined, JoinOn
<1>2. G \in [1..n -> [Text -> Text]] /\ <<>> \in Text
  <2>1. <<>> \in Text
    BY DEF Text
  <2>2. QED
    BY <2>1, JoinOnType
<1>3. PICK g : Recursive(Text, <<>>, G, n, g)
  <2> HIDE DEF G, n
  <2>1. QED
    BY <1>0, <1>2, Recursion
<1>4. g \in [0..n -> Text] /\ g[0] = <<>>
      /\ \A i \in 1..n : g[i - 1] \in Text /\ g[i] = JoinOn(e, i, g[i - 1])
  <2>1. g \in [0..n -> Text] /\ g[0] = <<>> /\ \A i \in 1..n : g[i] = G[i][g[i - 1]]
    BY <1>3 DEF Recursive
  <2>2. ASSUME NEW i \in 1..n
        PROVE  g[i - 1] \in Text /\ g[i] = JoinOn(e, i, g[i - 1])
    <3>1. i - 1 \in 0..n
      BY <1>0
    <3>2. g[i - 1] \in Text
      BY <2>1, <3>1
    <3>3. QED
      BY <2>1, <3>2
  <2>3. QED
    BY <2>1, <2>2
<1> HIDE DEF n, G
<1>5. Solves(g)
  <2>1. \A i \in 0..n : g[i] = IF i = 0 THEN <<>> ELSE JoinOn(e, i, g[i - 1])
    <3>1. \A i \in 0..n : i = 0 \/ i \in 1..n
      BY <1>0
    <3>2. QED
      BY <1>4, <3>1
  <2>2. QED
    BY <1>4, <2>1
<1>6. Solves(c)
  <2> HIDE DEF Solves
  <2>1. QED
    BY <1>5
<1>7. \A i \in 0..n : c[i] = IF i = 0 THEN <<>> ELSE JoinOn(e, i, c[i - 1])
  <2> HIDE DEF c
  <2>1. QED
    BY <1>6, Zenon
<1> HIDE DEF c, Solves
<1>8. c[n] = g[n]
  <2> DEFINE T == {i \in 0..n : c[i] = g[i]}
  <2>1. 0 \in T
    BY <1>0, <1>4, <1>7
  <2>2. ASSUME NEW i \in 1..n, i - 1 \in T PROVE i \in T
    <3>1. i \in 0..n /\ i # 0 /\ c[i - 1] = g[i - 1]
      BY <1>0, <2>2
    <3>2. c[i] = JoinOn(e, i, c[i - 1])
      BY <1>7, <3>1
    <3>3. QED
      BY <1>4, <3>1, <3>2
  <2>3. \A i \in 0..n : i \in T
    <3> HIDE DEF T
    <3>1. \A i \in 1..n : i - 1 \in T => i \in T
      BY <2>2
    <3>2. QED
      BY <1>0, <2>1, <3>1, StepByStep, Zenon
  <2>4. QED
    BY <1>0, <2>3
<1>9. QED
  BY <1>1, <1>4, <1>8 DEF n

\* Distinct takes statement by statement.
LEMMA DistinctStepwise ==
  ASSUME NEW s \in Seq(Statement)
  PROVE  \E g \in [0..Len(s) -> Seq(Statement)] :
           /\ g[0] = <<>> /\ Distinct(s) = g[Len(s)]
           /\ \A i \in 1..Len(s) : g[i] = TakeOn(s, i, g[i - 1])
<1> DEFINE n == Len(s)
           G == [i \in 1..n |-> [x \in Seq(Statement) |-> TakeOn(s, i, x)]]
           Solves(g) ==
             g = [i \in 0..n |-> IF i = 0 THEN <<>> ELSE TakeOn(s, i, g[i - 1])]
           c == CHOOSE g : Solves(g)
<1>0. n \in Nat
  OBVIOUS
<1>1. Distinct(s) = c[n]
  BY DEF Distinct, TakeOn
<1>2. G \in [1..n -> [Seq(Statement) -> Seq(Statement)]] /\ <<>> \in Seq(Statement)
  BY TakeOnType
<1>3. PICK g : Recursive(Seq(Statement), <<>>, G, n, g)
  <2> HIDE DEF G, n
  <2>1. QED
    BY <1>0, <1>2, Recursion
<1>4. g \in [0..n -> Seq(Statement)] /\ g[0] = <<>>
      /\ \A i \in 1..n : g[i - 1] \in Seq(Statement) /\ g[i] = TakeOn(s, i, g[i - 1])
  <2>1. g \in [0..n -> Seq(Statement)] /\ g[0] = <<>> /\ \A i \in 1..n : g[i] = G[i][g[i - 1]]
    BY <1>3 DEF Recursive
  <2>2. ASSUME NEW i \in 1..n
        PROVE  g[i - 1] \in Seq(Statement) /\ g[i] = TakeOn(s, i, g[i - 1])
    <3>1. i - 1 \in 0..n
      BY <1>0
    <3>2. g[i - 1] \in Seq(Statement)
      BY <2>1, <3>1
    <3>3. QED
      BY <2>1, <3>2
  <2>3. QED
    BY <2>1, <2>2
<1> HIDE DEF n, G
<1>5. Solves(g)
  <2>1. \A i \in 0..n : g[i] = IF i = 0 THEN <<>> ELSE TakeOn(s, i, g[i - 1])
    <3>1. \A i \in 0..n : i = 0 \/ i \in 1..n
      BY <1>0
    <3>2. QED
      BY <1>4, <3>1
  <2>2. QED
    BY <1>4, <2>1
<1>6. Solves(c)
  <2> HIDE DEF Solves
  <2>1. QED
    BY <1>5
<1>7. \A i \in 0..n : c[i] = IF i = 0 THEN <<>> ELSE TakeOn(s, i, c[i - 1])
  <2> HIDE DEF c
  <2>1. QED
    BY <1>6, Zenon
<1> HIDE DEF c, Solves
<1>8. c[n] = g[n]
  <2> DEFINE T == {i \in 0..n : c[i] = g[i]}
  <2>1. 0 \in T
    BY <1>0, <1>4, <1>7
  <2>2. ASSUME NEW i \in 1..n, i - 1 \in T PROVE i \in T
    <3>1. i \in 0..n /\ i # 0 /\ c[i - 1] = g[i - 1]
      BY <1>0, <2>2
    <3>2. c[i] = TakeOn(s, i, c[i - 1])
      BY <1>7, <3>1
    <3>3. QED
      BY <1>4, <3>1, <3>2
  <2>3. \A i \in 0..n : i \in T
    <3> HIDE DEF T
    <3>1. \A i \in 1..n : i - 1 \in T => i \in T
      BY <2>2
    <3>2. QED
      BY <1>0, <2>1, <3>1, StepByStep, Zenon
  <2>4. QED
    BY <1>0, <2>3
<1>9. QED
  BY <1>1, <1>4, <1>8 DEF n

\* What a ring has of the lines it was loaded with.
LEMMA LoadedRecalls ==
  ASSUME NEW lines \in Seq(Piece)
  PROVE  \/ lines = <<>> /\ Loaded(lines) = NoRing
         \/ \E max \in Nat : /\ max >= 2
                             /\ Loaded(lines) \in Histories(max)
                             /\ Recalls(Loaded(lines), lines)
<1>1. CASE lines = <<>>
  BY <1>1 DEF Loaded
<1>2. CASE lines # <<>>
  <2> DEFINE n == Len(lines)
             max == IF 2 * n < DefaultEntries THEN DefaultEntries ELSE 2 * n
             G == [i \in 1..n |-> [x \in Histories(max) |-> Add(x, lines[i])]]
             Solves(g) ==
               g = [i \in 0..n |-> IF i = 0 THEN Made(max) ELSE Add(g[i - 1], lines[i])]
             c == CHOOSE g : Solves(g)
             Prefix(i) == [k \in 1..i |-> lines[k]]
  <2>1. n \in Nat /\ n # 0 /\ max \in Nat /\ max >= 2
    BY <1>2, DefaultEntriesAssumption
  <2>2. Loaded(lines) = c[n]
    BY <2>1 DEF Loaded
  <2>3. \A i \in 1..n : lines[i] \in Piece /\ lines[i] \in Line /\ lines[i] # <<>>
    BY DEF Piece, Line
  <2> HIDE DEF max
  <2>4. Made(max) \in Histories(max)
    BY <2>1 DEF Made, Histories, Line, NoLine
  <2>5. G \in [1..n -> [Histories(max) -> Histories(max)]]
    BY <2>1, <2>3, AddOnType
  <2>6. PICK g : Recursive(Histories(max), Made(max), G, n, g)
    <3> HIDE DEF G, n
    <3>1. QED
      BY <2>1, <2>4, <2>5, Recursion
  <2>7. g \in [0..n -> Histories(max)] /\ g[0] = Made(max)
        /\ \A i \in 1..n : g[i - 1] \in Histories(max) /\ g[i] = Add(g[i - 1], lines[i])
    <3>1. g \in [0..n -> Histories(max)] /\ g[0] = Made(max)
          /\ \A i \in 1..n : g[i] = G[i][g[i - 1]]
      BY <2>6 DEF Recursive
    <3>2. ASSUME NEW i \in 1..n
          PROVE  g[i - 1] \in Histories(max) /\ g[i] = Add(g[i - 1], lines[i])
      <4>1. i - 1 \in 0..n
        BY <2>1
      <4>2. g[i - 1] \in Histories(max)
        BY <3>1, <4>1
      <4>3. QED
        BY <3>1, <4>2
    <3>3. QED
      BY <3>1, <3>2
  <2> HIDE DEF G
  <2>8. Solves(g)
    <3>1. \A i \in 0..n : g[i] = IF i = 0 THEN Made(max) ELSE Add(g[i - 1], lines[i])
      <4>1. \A i \in 0..n : i = 0 \/ i \in 1..n
        BY <2>1
      <4>2. QED
        BY <2>7, <4>1
    <3>2. QED
      BY <2>7, <3>1
  <2>9. Solves(c)
    <3> HIDE DEF Solves
    <3>1. QED
      BY <2>8
  <2>10. \A i \in 0..n : c[i] = IF i = 0 THEN Made(max) ELSE Add(c[i - 1], lines[i])
    <3> HIDE DEF c
    <3>1. QED
      BY <2>9, Zenon
  <2> HIDE DEF c, Solves
  <2> DEFINE T == {i \in 0..n : c[i] \in Histories(max) /\ Recalls(c[i], Prefix(i))}
  <2>11. 0 \in T
    <3>1. Recalls(c[0], Prefix(0))
      BY DEF Recalls
    <3>2. QED
      BY <2>1, <2>4, <2>10, <3>1
  <2>12. ASSUME NEW i \in 1..n, i - 1 \in T PROVE i \in T
    <3>1. i \in 0..n /\ i - 1 \in 0..n /\ i # 0 /\ Prefix(i - 1) \in Seq(Line)
      BY <2>1, <2>3
    <3>2. c[i - 1] \in Histories(max) /\ Recalls(c[i - 1], Prefix(i - 1))
      BY <2>12
    <3>3. c[i] = Put(c[i - 1], lines[i])
      <4>1. c[i] = Add(c[i - 1], lines[i])
        BY <2>10, <3>1
      <4>2. QED
        BY <2>1, <2>3, <3>2, <4>1, AddOnType
    <3>4. Append(Prefix(i - 1), lines[i]) = Prefix(i)
      <4>1. Len(Prefix(i - 1)) = i - 1
        OBVIOUS
      <4>2. Append(Prefix(i - 1), lines[i]) = [k \in 1..i |-> lines[k]]
        BY <3>1, <4>1
      <4>3. QED
        BY <4>2
    <3> HIDE DEF Prefix
    <3>5. c[i] \in Histories(max) /\ Recalls(c[i], Prefix(i))
      BY <2>1, <2>3, <3>1, <3>2, <3>3, <3>4, PutRecalls
    <3>6. QED
      BY <3>1, <3>5
  <2>13. n \in T
    <3> HIDE DEF T
    <3>1. \A i \in 1..n : i - 1 \in T => i \in T
      BY <2>12
    <3>2. \A i \in 0..n : i \in T
      <4> HIDE DEF n
      <4>1. QED
        BY <2>1, <2>11, <3>1, StepByStep, Zenon
    <3>3. QED
      BY <2>1, <3>2
  <2>14. Prefix(n) = lines
    OBVIOUS
  <2>15. QED
    BY <2>1, <2>2, <2>13, <2>14
<1>3. QED
  BY <1>1, <1>2

\* What one more word does to the entries of a file.
LEMMA EntriesAppend ==
  ASSUME NEW f \in Text, NEW x \in Word \cup {LF}
  PROVE  Entries(Append(f, x)) = ReadOn(Append(f, x), Len(f) + 1, Entries(f))
<1> DEFINE n == Len(f)
           e == Append(f, x)
<1>1. n \in Nat /\ e \in Text /\ Len(e) = n + 1 /\ \A i \in 1..n : e[i] = f[i]
  BY DEF Text
<1>2. PICK g \in [0..n -> Seq(Piece)] :
        /\ g[0] = <<>> /\ Entries(f) = g[n]
        /\ \A i \in 1..n : g[i] = ReadOn(f, i, g[i - 1])
  BY EntriesStepwise
<1>3. PICK h \in [0..(n + 1) -> Seq(Piece)] :
        /\ h[0] = <<>> /\ Entries(e) = h[n + 1]
        /\ \A i \in 1..(n + 1) : h[i] = ReadOn(e, i, h[i - 1])
  <2> HIDE DEF e, n
  <2>1. \E h \in [0..Len(e) -> Seq(Piece)] :
          /\ h[0] = <<>> /\ Entries(e) = h[Len(e)]
          /\ \A i \in 1..Len(e) : h[i] = ReadOn(e, i, h[i - 1])
    BY <1>1, EntriesStepwise, Zenon
  <2>2. QED
    BY <1>1, <2>1, Zenon
<1> HIDE DEF e, n
<1> DEFINE T == {i \in 0..n : g[i] = h[i]}
<1>4. 0 \in T
  BY <1>1, <1>2, <1>3
<1>5. ASSUME NEW i \in 1..n, i - 1 \in T PROVE i \in T
  <2>1. i \in 0..n /\ i \in 1..(n + 1) /\ (i = 1 \/ i - 1 \in 1..n)
    BY <1>1
  <2>2. g[i] = ReadOn(f, i, g[i - 1]) /\ h[i] = ReadOn(e, i, h[i - 1])
    BY <1>2, <1>3, <2>1
  <2>3. ReadOn(e, i, g[i - 1]) = ReadOn(f, i, g[i - 1])
    BY <1>1, <2>1 DEF ReadOn
  <2>4. QED
    BY <1>5, <2>1, <2>2, <2>3
<1>6. n \in T
  <2> HIDE DEF T
  <2>1. \A i \in 1..n : i - 1 \in T => i \in T
    BY <1>5
  <2>2. \A i \in 0..n : i \in T
    BY <1>1, <1>4, <2>1, StepByStep, Zenon
  <2>3. QED
    BY <1>1, <2>2
<1>7. h[n + 1] = ReadOn(e, n + 1, h[n])
  <2>1. n + 1 \in 1..(n + 1) /\ (n + 1) - 1 = n
    BY <1>1
  <2>2. h[n + 1] = ReadOn(e, n + 1, h[(n + 1) - 1])
    BY <1>3, <2>1, Zenon
  <2>3. QED
    BY <2>1, <2>2
<1>8. QED
  BY <1>2, <1>3, <1>6, <1>7 DEF e, n

EndsALine(f) == f = <<>> \/ f[Len(f)] = LF

\* A line feed adds no entry.
LEMMA EntriesOfLineFeed ==
  ASSUME NEW f \in Text
  PROVE  /\ Append(f, LF) \in Text /\ EndsALine(Append(f, LF))
         /\ Entries(Append(f, LF)) = Entries(f)
<1>1. Append(f, LF) \in Text /\ Len(Append(f, LF)) = Len(f) + 1
      /\ Append(f, LF)[Len(f) + 1] = LF
  BY DEF Text
<1>2. LF \in Word \cup {LF}
  OBVIOUS
<1>3. Entries(Append(f, LF)) = ReadOn(Append(f, LF), Len(f) + 1, Entries(f))
  BY <1>2, EntriesAppend
<1>4. QED
  BY <1>1, <1>3 DEF EndsALine, ReadOn

\* A word on a line of its own is an entry of its own.
LEMMA EntriesOfLine ==
  ASSUME NEW f \in Text, EndsALine(f), NEW w \in Word
  PROVE  /\ f \o <<w, LF>> \in Text /\ EndsALine(f \o <<w, LF>>)
         /\ Entries(f \o <<w, LF>>) = Append(Entries(f), <<w>>)
<1> DEFINE e == Append(f, w)
<1>1. e \in Text /\ Len(e) = Len(f) + 1 /\ e[Len(f) + 1] = w
      /\ \A i \in 1..Len(f) : e[i] = f[i]
  BY DEF Text
<1>2. w # LF
  BY ClientAssumption DEF Word
<1>3. Entries(e) = ReadOn(e, Len(f) + 1, Entries(f))
  BY EntriesAppend
<1>4. Len(f) + 1 = 1 \/ e[(Len(f) + 1) - 1] = LF
  <2>1. CASE f = <<>>
    BY <2>1
  <2>2. CASE f # <<>> /\ f[Len(f)] = LF
    <3>1. Len(f) \in 1..Len(f) /\ (Len(f) + 1) - 1 = Len(f)
      BY <2>2 DEF Text
    <3>2. QED
      BY <1>1, <2>2, <3>1
  <2>3. QED
    BY <2>1, <2>2 DEF EndsALine
<1>5. Entries(e) = Append(Entries(f), <<w>>)
  BY <1>1, <1>2, <1>3, <1>4 DEF ReadOn
<1>6. f \o <<w, LF>> = Append(e, LF)
  BY DEF Text
<1> HIDE DEF e
<1>7. QED
  BY <1>1, <1>5, <1>6, EntriesOfLineFeed

Singles(d) == [i \in 1..Len(d) |-> <<d[i]>>]
Lines(d) == [i \in 1..Len(d) |-> <<d[i], LF>>]

\* A session's entries, appended to the file, are read back one by one.
LEMMA EntriesOfJoined ==
  ASSUME NEW f \in Text, EndsALine(f), NEW d \in Seq(Statement)
  PROVE  /\ f \o Joined(Lines(d)) \in Text /\ EndsALine(f \o Joined(Lines(d)))
         /\ Entries(f \o Joined(Lines(d))) = Entries(f) \o Singles(d)
<1> DEFINE n == Len(d)
           e == Lines(d)
           Prefix(i) == [k \in 1..i |-> <<d[k]>>]
<1>1. n \in Nat /\ e \in Seq(Text) /\ Len(e) = n
      /\ \A i \in 1..n : d[i] \in Word /\ e[i] = <<d[i], LF>>
  BY DEF Lines, Text, Word
<1>2. PICK g \in [0..n -> Text] :
        /\ g[0] = <<>> /\ Joined(e) = g[n]
        /\ \A i \in 1..n : g[i] = JoinOn(e, i, g[i - 1])
  <2> HIDE DEF e, n
  <2>1. QED
    BY <1>1, JoinedStepwise
<1> HIDE DEF e, n
<1>3. Entries(f) \in Seq(Piece)
  <2>1. PICK r \in [0..Len(f) -> Seq(Piece)] : Entries(f) = r[Len(f)]
    BY EntriesStepwise
  <2>2. QED
    BY <2>1 DEF Text
<1> DEFINE T == {i \in 0..n : /\ f \o g[i] \in Text /\ EndsALine(f \o g[i])
                               /\ Entries(f \o g[i]) = Entries(f) \o Prefix(i)}
<1>4. 0 \in T
  <2>1. f \o g[0] = f
    BY <1>2 DEF Text
  <2>2. Entries(f) \o Prefix(0) = Entries(f)
    BY <1>3
  <2>3. f \o g[0] \in Text /\ EndsALine(f \o g[0])
    BY <2>1, Zenon
  <2>4. Entries(f \o g[0]) = Entries(f) \o Prefix(0)
    BY <2>1, <2>2, Zenon
  <2> HIDE DEF Prefix
  <2>5. QED
    BY <1>1, <2>3, <2>4
<1>5. ASSUME NEW i \in 1..n, i - 1 \in T PROVE i \in T
  <2> DEFINE was == f \o g[i - 1]
  <2>1. i \in 0..n /\ i - 1 \in 0..n /\ d[i] \in Word /\ e[i] = <<d[i], LF>>
        /\ g[i - 1] \in Text /\ g[i] = JoinOn(e, i, g[i - 1])
    BY <1>1, <1>2
  <2>2. was \in Text /\ EndsALine(was) /\ Entries(was) = Entries(f) \o Prefix(i - 1)
    BY <1>5
  <2>3. PICK p \in Text : /\ EndsALine(p) /\ Entries(p) = Entries(was)
                          /\ f \o g[i] = p \o <<d[i], LF>>
    <3>1. CASE i = 1
      <4>1. g[i] = <<d[i], LF>> /\ was = f
        BY <1>2, <2>1, <3>1 DEF JoinOn, Text
      <4>2. QED
        BY <2>2, <4>1
    <3>2. CASE i # 1
      <4>1. g[i] = g[i - 1] \o <<LF>> \o <<d[i], LF>>
        BY <2>1, <3>2 DEF JoinOn
      <4>2. f \o g[i] = Append(was, LF) \o <<d[i], LF>>
        <5>1. ASSUME NEW s \in Text
              PROVE  f \o (s \o <<LF>> \o <<d[i], LF>>)
                       = Append(f \o s, LF) \o <<d[i], LF>>
          <6> DEFINE feed == <<LF>>
                     entry == <<d[i], LF>>
          <6>1. feed \in Text /\ entry \in Text
            BY <2>1 DEF Text
          <6> DEFINE fed == s \o feed
          <6>2. fed \in Text
            BY <6>1 DEF Text
          <6>3. Append(f \o s, LF) = (f \o s) \o feed
            BY <6>1 DEF Text
          <6> HIDE DEF feed, entry
          <6>4. fed = s \o feed /\ (f \o s) \o feed = f \o fed
            BY <6>1, TextsAssociate, Zenon
          <6> HIDE DEF fed
          <6>5. (f \o fed) \o entry = f \o (fed \o entry)
            <7>1. \A t, u \in Text : (f \o t) \o u = f \o (t \o u)
              BY TextsAssociate, Zenon
            <7>2. \A u \in Text : (f \o fed) \o u = f \o (fed \o u)
              BY <6>2, <7>1, Zenon
            <7>3. QED
              BY <6>1, <7>2, Zenon
          <6>6. f \o ((s \o feed) \o entry) = ((f \o s) \o feed) \o entry
            BY <6>4, <6>5, Zenon
          <6>7. QED
            BY <6>3, <6>6, Zenon DEF feed, entry
        <5>2. QED
          BY <2>1, <4>1, <5>1
      <4> HIDE DEF was
      <4>3. QED
        BY <2>2, <4>2, EntriesOfLineFeed
    <3>3. QED
      BY <3>1, <3>2
  <2> HIDE DEF was
  <2>4. /\ f \o g[i] \in Text /\ EndsALine(f \o g[i])
        /\ Entries(f \o g[i]) = Append(Entries(f) \o Prefix(i - 1), <<d[i]>>)
    <3>1. /\ p \o <<d[i], LF>> \in Text /\ EndsALine(p \o <<d[i], LF>>)
          /\ Entries(p \o <<d[i], LF>>) = Append(Entries(p), <<d[i]>>)
      BY <2>1, <2>3, EntriesOfLine
    <3> HIDE DEF Prefix
    <3>2. QED
      BY <2>2, <2>3, <3>1, Zenon
  <2>5. Append(Entries(f) \o Prefix(i - 1), <<d[i]>>) = Entries(f) \o Prefix(i)
    <3>1. Prefix(i - 1) \in Seq(Seq(Word)) /\ Len(Prefix(i - 1)) = i - 1
      BY <1>1, <2>1
    <3>2. Prefix(i) = Append(Prefix(i - 1), <<d[i]>>)
      <4>1. Append(Prefix(i - 1), <<d[i]>>) = [k \in 1..i |-> <<d[k]>>]
        BY <2>1, <3>1
      <4>2. QED
        BY <4>1
    <3>3. Entries(f) \in Seq(Seq(Word)) /\ <<d[i]>> \in Seq(Word)
      BY <1>3, <2>1 DEF Piece
    <3> HIDE DEF Prefix
    <3>4. Append(Entries(f) \o Prefix(i - 1), <<d[i]>>)
            = Entries(f) \o Append(Prefix(i - 1), <<d[i]>>)
      BY <3>1, <3>3, AppendedLast, Zenon
    <3>5. QED
      BY <3>2, <3>4
  <2> HIDE DEF Prefix
  <2>6. QED
    BY <2>1, <2>4, <2>5
<1>6. n \in T
  <2> HIDE DEF T
  <2>1. \A i \in 1..n : i - 1 \in T => i \in T
    BY <1>5
  <2>2. \A i \in 0..n : i \in T
    BY <1>1, <1>4, <2>1, StepByStep, Zenon
  <2>3. QED
    BY <1>1, <2>2
<1>7. Prefix(n) = Singles(d)
  BY DEF Singles, n
<1> HIDE DEF Prefix
<1>8. QED
  BY <1>2, <1>6, <1>7 DEF e

\* What one more statement does to the statements taken.
LEMMA DistinctAppend ==
  ASSUME NEW s \in Seq(Statement), NEW w \in Statement
  PROVE  /\ Distinct(s) \in Seq(Statement)
         /\ Distinct(Append(s, w)) =
              IF s # <<>> /\ w = s[Len(s)] THEN Distinct(s) ELSE Append(Distinct(s), w)
<1> DEFINE n == Len(s)
           e == Append(s, w)
<1>1. n \in Nat /\ e \in Seq(Statement) /\ Len(e) = n + 1
      /\ e[n + 1] = w /\ \A i \in 1..n : e[i] = s[i]
  OBVIOUS
<1>2. PICK g \in [0..n -> Seq(Statement)] :
        /\ g[0] = <<>> /\ Distinct(s) = g[n]
        /\ \A i \in 1..n : g[i] = TakeOn(s, i, g[i - 1])
  BY DistinctStepwise
<1>3. PICK h \in [0..(n + 1) -> Seq(Statement)] :
        /\ h[0] = <<>> /\ Distinct(e) = h[n + 1]
        /\ \A i \in 1..(n + 1) : h[i] = TakeOn(e, i, h[i - 1])
  <2> HIDE DEF e, n
  <2>1. \E h \in [0..Len(e) -> Seq(Statement)] :
          /\ h[0] = <<>> /\ Distinct(e) = h[Len(e)]
          /\ \A i \in 1..Len(e) : h[i] = TakeOn(e, i, h[i - 1])
    BY <1>1, DistinctStepwise, Zenon
  <2>2. QED
    BY <1>1, <2>1, Zenon
<1>4. s # <<>> <=> n >= 1
  OBVIOUS
<1> HIDE DEF e, n
<1> DEFINE T == {i \in 0..n : g[i] = h[i]}
<1>5. 0 \in T
  BY <1>1, <1>2, <1>3
<1>6. ASSUME NEW i \in 1..n, i - 1 \in T PROVE i \in T
  <2>1. i \in 0..n /\ i \in 1..(n + 1) /\ (i = 1 \/ i - 1 \in 1..n)
    BY <1>1
  <2>2. g[i] = TakeOn(s, i, g[i - 1]) /\ h[i] = TakeOn(e, i, h[i - 1])
    BY <1>2, <1>3, <2>1
  <2>3. TakeOn(e, i, g[i - 1]) = TakeOn(s, i, g[i - 1])
    BY <1>1, <2>1 DEF TakeOn
  <2>4. QED
    BY <1>6, <2>1, <2>2, <2>3
<1>7. n \in T
  <2> HIDE DEF T
  <2>1. \A i \in 1..n : i - 1 \in T => i \in T
    BY <1>6
  <2>2. \A i \in 0..n : i \in T
    BY <1>1, <1>5, <2>1, StepByStep, Zenon
  <2>3. QED
    BY <1>1, <2>2
<1>8. h[n + 1] = TakeOn(e, n + 1, h[n])
  <2>1. n + 1 \in 1..(n + 1) /\ (n + 1) - 1 = n
    BY <1>1
  <2>2. h[n + 1] = TakeOn(e, n + 1, h[(n + 1) - 1])
    BY <1>3, <2>1, Zenon
  <2>3. QED
    BY <2>1, <2>2
<1>9. TakeOn(e, n + 1, g[n]) =
        IF s # <<>> /\ w = s[n] THEN g[n] ELSE Append(g[n], w)
  <2>1. CASE n = 0
    BY <1>1, <1>4, <2>1 DEF TakeOn
  <2>2. CASE n # 0
    <3>1. n + 1 > 1 /\ n \in 1..n /\ (n + 1) - 1 = n /\ s # <<>>
      BY <1>1, <1>4, <2>2
    <3>2. QED
      BY <1>1, <3>1 DEF TakeOn
  <2>3. QED
    BY <2>1, <2>2
<1>10. Distinct(s) \in Seq(Statement)
  BY <1>1, <1>2
<1>11. QED
  BY <1>2, <1>3, <1>7, <1>8, <1>9, <1>10 DEF e, n

\* The statement taken last is the one accepted last.
LEMMA DistinctLast ==
  ASSUME NEW s \in Seq(Statement)
  PROVE  /\ s = <<>> <=> Distinct(s) = <<>>
         /\ s # <<>> => Distinct(s)[Len(Distinct(s))] = s[Len(s)]
<1> DEFINE n == Len(s)
<1>1. n \in Nat /\ \A i \in 1..n : s[i] \in Statement
  OBVIOUS
<1>2. PICK g \in [0..n -> Seq(Statement)] :
        /\ g[0] = <<>> /\ Distinct(s) = g[n]
        /\ \A i \in 1..n : g[i] = TakeOn(s, i, g[i - 1])
  BY DistinctStepwise
<1>3. s # <<>> <=> n >= 1
  OBVIOUS
<1> HIDE DEF n
<1> DEFINE T == {i \in 0..n : i # 0 => g[i] # <<>> /\ g[i][Len(g[i])] = s[i]}
<1>4. 0 \in T
  BY <1>1
<1>5. ASSUME NEW i \in 1..n, i - 1 \in T PROVE i \in T
  <2>1. i \in 0..n /\ i # 0 /\ i - 1 \in 0..n /\ g[i - 1] \in Seq(Statement)
        /\ s[i] \in Statement /\ g[i] = TakeOn(s, i, g[i - 1])
    BY <1>1, <1>2
  <2>2. CASE i > 1 /\ s[i] = s[i - 1]
    <3>1. g[i] = g[i - 1] /\ i - 1 # 0
      BY <2>1, <2>2 DEF TakeOn
    <3>2. g[i - 1] # <<>> /\ g[i - 1][Len(g[i - 1])] = s[i - 1]
      BY <1>5, <3>1
    <3>3. QED
      BY <2>1, <2>2, <3>1, <3>2
  <2>3. CASE ~ (i > 1 /\ s[i] = s[i - 1])
    <3>1. g[i] = Append(g[i - 1], s[i])
      BY <2>1, <2>3 DEF TakeOn
    <3>2. g[i] # <<>> /\ g[i][Len(g[i])] = s[i]
      BY <2>1, <3>1, AppendProperties
    <3>3. QED
      BY <2>1, <3>2
  <2>4. QED
    BY <2>2, <2>3
<1>6. n \in T
  <2> HIDE DEF T
  <2>1. \A i \in 1..n : i - 1 \in T => i \in T
    BY <1>5
  <2>2. \A i \in 0..n : i \in T
    BY <1>1, <1>4, <2>1, StepByStep, Zenon
  <2>3. QED
    BY <1>1, <2>2
<1>7. n = 0 => g[n] = <<>>
  BY <1>2
<1>8. QED
  BY <1>1, <1>2, <1>3, <1>6, <1>7 DEF n

\* AppendEntry skips the statement that was appended last, and no other.
LEMMA AppendEntryTakes ==
  ASSUME NEW w \in Statement, accepted \in Seq(Statement), oldEntries \in Seq(Line),
         newEntries = Lines(Distinct(accepted))
  PROVE  AppendEntry(w) = Lines(Distinct(Append(accepted, w)))
<1> DEFINE d == Distinct(accepted)
           last == d[Len(d)]
<1>1. d \in Seq(Statement) /\ (accepted = <<>> <=> d = <<>>)
      /\ (accepted # <<>> => last = accepted[Len(accepted)])
      /\ Distinct(Append(accepted, w)) =
           IF accepted # <<>> /\ w = accepted[Len(accepted)] THEN d ELSE Append(d, w)
  BY DistinctAppend, DistinctLast
<1>2. \A l \in Line : <<w, LF>> # l
  <2>1. SUFFICES ASSUME <<w, LF>> \in Line PROVE FALSE
    OBVIOUS
  <2>2. Len(<<w, LF>>) = 2 /\ <<w, LF>>[2] = LF
    OBVIOUS
  <2>3. ASSUME NEW l \in Line, Len(l) = 2 PROVE l[2] \in Word
    <3>1. l \in Seq(Word) /\ 2 \in 1..Len(l)
      BY <2>3 DEF Line
    <3>2. QED
      BY <3>1
  <2>4. LF \in Word
    BY <2>1, <2>2, <2>3, Zenon
  <2>5. QED
    BY <2>4, ClientAssumption DEF Word
<1>3. <<>> \in Line
  BY DEF Line
<1> HIDE DEF d
<1>4. Lines(Append(d, w)) = Append(newEntries, <<w, LF>>)
  <2>1. \A i \in 1..(Len(d) + 1) : Append(d, w)[i] = IF i <= Len(d) THEN d[i] ELSE w
    BY <1>1
  <2>2. Len(Append(d, w)) = Len(d) + 1 /\ Len(d) \in Nat
    BY <1>1
  <2>3. Lines(d) \in Seq({Lines(d)[i] : i \in 1..Len(d)} \cup {<<w, LF>>})
        /\ Len(Lines(d)) = Len(d) /\ \A i \in 1..Len(d) : Lines(d)[i] = <<d[i], LF>>
    BY <2>2 DEF Lines
  <2>4. Lines(Append(d, w)) =
          [i \in 1..(Len(d) + 1) |-> IF i <= Len(d) THEN <<d[i], LF>> ELSE <<w, LF>>]
    BY <2>1, <2>2 DEF Lines
  <2>5. Append(Lines(d), <<w, LF>>) =
          [i \in 1..(Len(d) + 1) |-> IF i <= Len(d) THEN <<d[i], LF>> ELSE <<w, LF>>]
    <3> DEFINE S == {Lines(d)[i] : i \in 1..Len(d)} \cup {<<w, LF>>}
               a == Append(Lines(d), <<w, LF>>)
    <3>1. /\ a \in Seq(S) /\ Len(a) = Len(d) + 1
          /\ \A i \in 1..Len(d) : a[i] = Lines(d)[i]
          /\ a[Len(d) + 1] = <<w, LF>>
      <4>1. Lines(d) \in Seq(S) /\ <<w, LF>> \in S
        BY <2>3
      <4> HIDE DEF S
      <4>2. QED
        <5>1. ASSUME NEW b \in Seq(S), NEW y \in S, Len(b) = Len(d)
              PROVE  /\ Append(b, y) \in Seq(S) /\ Len(Append(b, y)) = Len(d) + 1
                     /\ \A i \in 1..Len(d) : Append(b, y)[i] = b[i]
                     /\ Append(b, y)[Len(d) + 1] = y
          BY <5>1, AppendProperties
        <5>2. QED
          BY <2>3, <4>1, <5>1, Zenon
    <3> HIDE DEF a
    <3>2. a = [i \in 1..(Len(d) + 1) |-> a[i]]
      BY <3>1
    <3>3. \A i \in 1..(Len(d) + 1) :
            a[i] = IF i <= Len(d) THEN <<d[i], LF>> ELSE <<w, LF>>
      <4>1. SUFFICES ASSUME NEW i \in 1..(Len(d) + 1)
                     PROVE  a[i] = IF i <= Len(d) THEN <<d[i], LF>> ELSE <<w, LF>>
        OBVIOUS
      <4>2. CASE i <= Len(d)
        <5>1. i \in 1..Len(d)
          BY <2>2, <4>2
        <5>2. a[i] = <<d[i], LF>>
          BY <2>3, <3>1, <5>1, Zenon
        <5>3. QED
          BY <4>2, <5>2
      <4>3. CASE ~ (i <= Len(d))
        <5>1. i = Len(d) + 1
          BY <2>2, <4>3
        <5>2. QED
          BY <3>1, <4>3, <5>1
      <4>4. QED
        BY <4>2, <4>3
    <3>4. QED
      BY <3>2, <3>3 DEF a
  <2>6. QED
    BY <2>4, <2>5 DEF d
<1>5. CASE d = <<>>
  <2>1. newEntries = <<>>
    BY <1>5 DEF Lines, d
  <2>2. AppendEntry(w) = Append(newEntries, <<w, LF>>)
    <3>1. CASE oldEntries = <<>>
      BY <1>2, <1>3, <2>1, <3>1 DEF AppendEntry
    <3>2. CASE oldEntries # <<>>
      <4>1. oldEntries[Len(oldEntries)] \in Line
        BY <3>2
      <4>2. <<w, LF>> # oldEntries[Len(oldEntries)]
        BY <1>2, <4>1
      <4>3. QED
        BY <2>1, <3>2, <4>2 DEF AppendEntry
    <3>3. QED
      BY <3>1, <3>2
  <2>3. QED
    BY <1>1, <1>4, <1>5, <2>2
<1>6. CASE d # <<>>
  <2>1. Len(d) \in 1..Len(d) /\ newEntries # <<>> /\ Len(newEntries) = Len(d)
        /\ newEntries[Len(d)] = <<last, LF>>
    BY <1>1, <1>6 DEF Lines, d
  <2>2. AppendEntry(w) =
          IF <<w, LF>> = <<last, LF>> THEN newEntries ELSE Append(newEntries, <<w, LF>>)
    BY <2>1 DEF AppendEntry
  <2>3. <<w, LF>> = <<last, LF>> <=> w = last
    OBVIOUS
  <2>4. QED
    BY <1>1, <1>4, <1>6, <2>2, <2>3 DEF d
<1>7. QED
  BY <1>5, <1>6

-----------------------------------------------------------------------------
(* The invariant of the client. *)

\* Where the session is.
PlaceOK ==
  /\ pc \in {"out", "prompt", "size", "data"}
  /\ statement \in Statement \cup {"none"}
  /\ pc \in {"size", "data"} => statement \in Statement
  /\ channel \in {"nil", "open", "lost"}
  /\ entered \in 0..MaxLines /\ sessions \in 0..MaxSessions

Byte == 0..255

\* What is on its way, and what has been read of it.
BytesOK ==
  /\ length \in [1..4 -> Byte] /\ size \in Nat
  /\ coming \in Seq(Seq(Byte)) /\ arrived \in Seq(Byte)
  /\ received \in Seq(Byte)

TalkOK == PlaceOK /\ BytesOK

\* Unless it is cut short, the history file ends a line: the next session's entries stand on their own.
\* What this session will write are its statements, each run once.
FilesOK ==
  /\ file \in Text /\ cut \in BOOLEAN
  /\ accepted \in Seq(Statement) /\ log \in Seq(Statement)
  /\ ~ cut => EndsALine(file) /\ Entries(file) = Singles(log)
  /\ oldEntries \in Seq(Line)
  /\ newEntries = Lines(Distinct(accepted))

\* The ring is made, with a slot for each of its lines, or not yet used.
RingOK ==
  /\ \/ history = NoRing /\ kept = <<>>
     \/ /\ history.max \in Nat /\ history.max >= 2
        /\ history \in Histories(history.max)
        /\ Recalls(history, kept)
  /\ kept \in Seq(Line) /\ line \in Line /\ historyPending \in Line
  /\ historyIndex \in -1..(history.size - 1)
  /\ pc = "out" => historyIndex = -1

ClientInv == TalkOK /\ FilesOK /\ RingOK

\* Where NthPreviousEntry looks is a slot of the ring, if the entry is there.
LEMMA EntriesAreLines ==
  ASSUME RingOK, NEW n \in Int, n >= 0, Has(history, n)
  PROVE  NthPreviousEntry(history, n) \in Line
<1>1. history # NoRing
  BY DEF Has, NoRing
<1> DEFINE max == history.max
<1>2. max \in Nat /\ max >= 2 /\ history \in Histories(max)
  BY <1>1 DEF RingOK
<1> HIDE DEF max
<1>3. /\ history.slot \in [0..(max - 1) -> Line] /\ history.head \in -1..(max - 1)
      /\ history.size \in 0..max /\ history.max = max
  BY <1>2 DEF Histories
<1>4. Index(history, n) \in 0..(max - 1)
  BY <1>2, <1>3 DEF Index, Has
<1>5. QED
  BY <1>3, <1>4 DEF NthPreviousEntry

LEMMA ClientInvImplies ==
  ASSUME ClientInv
  PROVE  ClientTypeOK /\ RecallIsExact /\ FileIsTheLog
<1> USE DEF ClientInv
<1>1. FileIsTheLog
  <2>1. DOMAIN log = 1..Len(log)
    BY DEF FilesOK
  <2>2. QED
    BY <2>1 DEF FilesOK, FileIsTheLog, Singles
<1>2. RecallIsExact
  <2>1. CASE kept = <<>>
    BY <2>1 DEF RecallIsExact
  <2>2. CASE Recalls(history, kept)
    BY <2>2 DEF RecallIsExact, Recalls, Has, NthPreviousEntry
  <2>3. QED
    BY <2>1, <2>2 DEF RingOK
<1>3. newEntries \in Seq(Seq(Word \cup {LF}))
  <2>1. Distinct(accepted) \in Seq(Statement)
    <3>1. PICK g \in [0..Len(accepted) -> Seq(Statement)] :
            Distinct(accepted) = g[Len(accepted)]
      BY DistinctStepwise DEF FilesOK
    <3>2. Len(accepted) \in 0..Len(accepted)
      BY DEF FilesOK
    <3>3. QED
      BY <3>1, <3>2
  <2>2. ASSUME NEW d \in Seq(Statement) PROVE Lines(d) \in Seq(Seq(Word \cup {LF}))
    BY DEF Lines, Word
  <2>3. QED
    BY <2>1, <2>2 DEF FilesOK
<1>4. /\ history.head \in -1..history.max /\ history.size \in 0..history.max
      /\ DOMAIN history.slot = IF history.max = 0 THEN {} ELSE 0..(history.max - 1)
      /\ \A i \in DOMAIN history.slot : history.slot[i] \in Line
  <2>1. CASE history = NoRing
    <3>1. DOMAIN <<>> = {}
      OBVIOUS
    <3>2. QED
      BY <2>1, <3>1 DEF NoRing
  <2>2. CASE /\ history.max \in Nat /\ history.max >= 2
             /\ history \in Histories(history.max)
    <3> DEFINE max == history.max
    <3>1. /\ history.slot \in [0..(max - 1) -> Line] /\ history.head \in -1..(max - 1)
          /\ history.size \in 0..max
      BY <2>2 DEF Histories
    <3>2. QED
      BY <2>2, <3>1
  <2>3. QED
    BY <2>1, <2>2 DEF RingOK
<1>5. ClientTypeOK
  BY <1>3, <1>4 DEF ClientTypeOK, TalkOK, PlaceOK, BytesOK, Byte, FilesOK, RingOK, Text
<1>6. QED
  BY <1>1, <1>2, <1>5

\* What the steps of a session need of the constants.
LEMMA BoundsAreNatural ==
  MaxLines \in Nat /\ MaxSessions \in Nat
BY ClientAssumption

LEMMA ClientInitInv ==
  ASSUME ClientInit
  PROVE  ClientInv
<1> USE DEF ClientInit
<1>1. TalkOK
  <2>1. PlaceOK
    BY BoundsAreNatural DEF PlaceOK
  <2>2. BytesOK
    BY DEF BytesOK, Byte
  <2>3. QED
    BY <2>1, <2>2 DEF TalkOK
<1>2. Entries(<<>>) = <<>> /\ Distinct(<<>>) = <<>>
  <2>1. <<>> \in Text /\ <<>> \in Seq(Statement)
    BY DEF Text
  <2>2. Entries(<<>>) = <<>>
    <3>1. PICK g : g[0] = <<>> /\ Entries(<<>>) = g[Len(<<>>)]
      BY <2>1, EntriesStepwise
    <3>2. QED
      BY <3>1
  <2>3. QED
    BY <2>1, <2>2, DistinctLast
<1>3. FilesOK
  <2>1. Singles(<<>>) = <<>> /\ Lines(<<>>) = <<>>
    BY DEF Singles, Lines
  <2>2. file = <<>> /\ cut = FALSE /\ accepted = <<>> /\ log = <<>>
        /\ oldEntries = <<>> /\ newEntries = <<>>
    OBVIOUS
  <2>3. <<>> \in Text /\ <<>> \in Seq(Statement) /\ <<>> \in Seq(Line)
    BY DEF Text
  <2>4. QED
    BY <1>2, <2>1, <2>2, <2>3 DEF FilesOK, EndsALine
<1>4. RingOK
  BY DEF RingOK, NoRing, NoLine, Line
<1>5. QED
  BY <1>1, <1>3, <1>4 DEF ClientInv

\* The end of a session leaves everything of it empty.
LEMMA NoSessionInv ==
  ASSUME ClientInv, NoSession, pc' = "out", sessions' = sessions
  PROVE  /\ TalkOK' /\ RingOK'
         /\ newEntries' = Lines(Distinct(accepted'))
         /\ accepted' \in Seq(Statement) /\ oldEntries' \in Seq(Line)
<1>1. TalkOK'
  <2>1. PlaceOK'
    BY BoundsAreNatural DEF ClientInv, TalkOK, PlaceOK, NoSession
  <2>2. BytesOK'
    BY DEF BytesOK, Byte, NoSession
  <2>3. QED
    BY <2>1, <2>2 DEF TalkOK
<1>2. RingOK'
  BY DEF RingOK, NoSession, NoRing, NoLine, Line
<1>3. Distinct(<<>>) = <<>>
  <2>1. <<>> \in Seq(Statement)
    OBVIOUS
  <2>2. QED
    BY <2>1, DistinctLast
<1>4. QED
  BY <1>1, <1>2, <1>3 DEF NoSession, Lines

\* What a session has written of its entries are lines, or lines but for the end
\* of the last.
LEMMA WriteToFileInv ==
  ASSUME ClientInv, NEW k \in 0..Len(newEntries), WriteToFile(k)
  PROVE  ClientInv'
<1> DEFINE d == SubSeq(Distinct(accepted), 1, k)
           written == Joined(Lines(d))
<1>1. /\ TalkOK' /\ RingOK'
      /\ newEntries' = Lines(Distinct(accepted'))
      /\ accepted' \in Seq(Statement) /\ oldEntries' \in Seq(Line)
  BY NoSessionInv DEF WriteToFile
<1>2. d \in Seq(Statement) /\ SubSeq(newEntries, 1, k) = Lines(d)
  <2>1. accepted \in Seq(Statement) /\ newEntries = Lines(Distinct(accepted))
    BY DEF ClientInv, FilesOK
  <2>2. Distinct(accepted) \in Seq(Statement)
    <3>1. PICK g \in [0..Len(accepted) -> Seq(Statement)] :
            Distinct(accepted) = g[Len(accepted)]
      BY <2>1, DistinctStepwise
    <3>2. QED
      BY <2>1, <3>1
  <2>3. ASSUME NEW s \in Seq(Statement), NEW n \in 0..Len(Lines(s))
        PROVE  /\ SubSeq(s, 1, n) \in Seq(Statement)
               /\ SubSeq(Lines(s), 1, n) = Lines(SubSeq(s, 1, n))
    BY <2>3 DEF Lines
  <2>4. QED
    BY <2>1, <2>2, <2>3
<1> HIDE DEF d
<1>3. file \in Text /\ log \in Seq(Statement) /\ cut \in BOOLEAN
      /\ (~ cut => EndsALine(file) /\ Entries(file) = Singles(log))
  BY DEF ClientInv, FilesOK
<1>4. written \in Text
  <2>1. <<>> \in Text /\ EndsALine(<<>>) /\ <<>> \o written = written
    BY DEF Text, EndsALine
  <2>2. QED
    BY <1>2, <2>1, EntriesOfJoined
<1>5. /\ file' \in Text /\ log' \in Seq(Statement) /\ cut' \in BOOLEAN
      /\ (~ cut' => EndsALine(file') /\ Entries(file') = Singles(log'))
  <2>1. CASE file' = file \o written /\ log' = log \o d /\ cut' = cut
    <3>1. file' \in Text /\ log' \in Seq(Statement)
      BY <1>2, <1>3, <1>4, <2>1 DEF Text
    <3>2. Singles(log) \o Singles(d) = Singles(log \o d)
      BY <1>2, <1>3 DEF Singles
    <3>3. QED
      BY <1>2, <1>3, <2>1, <3>1, <3>2, EntriesOfJoined
  <2>2. CASE file' = file \o SubSeq(written, 1, Len(written) - 1)
             /\ cut' = TRUE /\ log' = log
    <3>1. SubSeq(written, 1, Len(written) - 1) \in Text
      <4>1. ASSUME NEW f \in Text PROVE SubSeq(f, 1, Len(f) - 1) \in Text
        BY DEF Text
      <4>2. QED
        BY <1>4, <4>1
    <3>2. QED
      BY <1>3, <2>2, <3>1 DEF Text
  <2>3. QED
    BY <1>2, <2>1, <2>2 DEF WriteToFile, d
<1>6. QED
  BY <1>1, <1>5 DEF ClientInv, FilesOK

LEMMA DiesInv ==
  ASSUME ClientInv, Dies
  PROVE  ClientInv'
<1>1. /\ TalkOK' /\ RingOK'
      /\ newEntries' = Lines(Distinct(accepted'))
      /\ accepted' \in Seq(Statement) /\ oldEntries' \in Seq(Line)
  BY NoSessionInv DEF Dies
<1>2. QED
  BY <1>1 DEF ClientInv, FilesOK, Dies

\* What the session writes and has accepted is not touched.
FilesStay ==
  UNCHANGED <<fileVars, accepted, log>>

LEMMA FilesStayOK ==
  ASSUME ClientInv, FilesStay
  PROVE  FilesOK'
BY DEF ClientInv, FilesOK, FilesStay, fileVars

LEMMA LaunchInv ==
  ASSUME ClientInv, NEW opened \in BOOLEAN, Launch(opened)
  PROVE  ClientInv'
<1> USE DEF ClientInv, Launch
<1>1. TalkOK'
  <2>1. PlaceOK'
    BY BoundsAreNatural DEF TalkOK, PlaceOK
  <2>2. BytesOK'
    BY DEF TalkOK, BytesOK
  <2>3. QED
    BY <2>1, <2>2 DEF TalkOK
<1>2. Entries(file) \in Seq(Piece) /\ Entries(file) \in Seq(Line)
  <2>1. PICK g \in [0..Len(file) -> Seq(Piece)] : Entries(file) = g[Len(file)]
    BY EntriesStepwise DEF FilesOK
  <2>2. Len(file) \in 0..Len(file)
    BY DEF FilesOK, Text
  <2>3. Entries(file) \in Seq(Piece)
    BY <2>1, <2>2
  <2>4. QED
    BY <2>3 DEF Piece, Line
<1>3. FilesOK'
  BY <1>2 DEF FilesOK
<1>4. RingOK'
  <2>1. kept' \in Seq(Line) /\ line' \in Line /\ historyPending' \in Line
        /\ historyIndex' = -1 /\ pc' # "out"
    BY <1>2 DEF RingOK
  <2>2. CASE history' = NoRing /\ kept' = <<>>
    BY <2>1, <2>2 DEF RingOK, NoRing
  <2>3. CASE \E max \in Nat : /\ max >= 2 /\ history' \in Histories(max)
                              /\ Recalls(history', kept')
    <3>1. PICK max \in Nat : /\ max >= 2 /\ history' \in Histories(max)
                             /\ Recalls(history', kept')
      BY <2>3
    <3>2. history'.max = max /\ history'.size \in 0..max
      BY <3>1 DEF Histories
    <3>3. QED
      BY <2>1, <3>1, <3>2 DEF RingOK
  <2>4. QED
    BY <1>2, <2>2, <2>3, LoadedRecalls
<1>5. QED
  BY <1>1, <1>3, <1>4

LEMMA OtherSessionInv ==
  ASSUME ClientInv, NEW w \in Statement, OtherSession(w)
  PROVE  ClientInv'
<1> USE DEF ClientInv, OtherSession
<1>1. TalkOK'
  <2>1. PlaceOK'
    BY BoundsAreNatural DEF TalkOK, PlaceOK, netVars
  <2>2. BytesOK'
    BY DEF TalkOK, BytesOK, netVars
  <2>3. QED
    BY <2>1, <2>2 DEF TalkOK
<1>2. RingOK'
  BY DEF RingOK, termVars
<1>3. FilesOK'
  <2>1. w \in Word
    BY DEF Word
  <2>2. file' \in Text /\ log' = Append(log, w) /\ log' \in Seq(Statement)
    BY <2>1 DEF FilesOK, Text
  <2>3. ASSUME NEW s \in Seq(Statement)
        PROVE  Append(Singles(s), <<w>>) = Singles(Append(s, w))
    BY DEF Singles
  <2>4. ~ cut => EndsALine(file') /\ Entries(file') = Singles(log')
    <3>1. SUFFICES ASSUME ~ cut PROVE EndsALine(file') /\ Entries(file') = Singles(log')
      OBVIOUS
    <3>2. /\ file \in Text /\ EndsALine(file) /\ file' = file \o <<w, LF>>
          /\ log \in Seq(Statement) /\ Entries(file) = Singles(log)
      BY <3>1 DEF FilesOK
    <3>3. EndsALine(file') /\ Entries(file') = Append(Entries(file), <<w>>)
      BY <2>1, <3>2, EntriesOfLine
    <3>4. Append(Singles(log), <<w>>) = Singles(Append(log, w))
      BY <2>3, <3>2
    <3>5. QED
      BY <2>2, <3>2, <3>3, <3>4, Zenon
  <2>5. QED
    BY <2>2, <2>4 DEF FilesOK
<1>4. QED
  BY <1>1, <1>2, <1>3

LEMMA EditInv ==
  ASSUME ClientInv, Edit
  PROVE  ClientInv'
<1> USE DEF ClientInv
<1>1. TalkOK'
  BY DEF TalkOK, PlaceOK, BytesOK, Edit, netVars
<1>2. FilesOK'
  BY FilesStayOK DEF FilesStay, Edit, fileVars
<1>3. pc = "prompt" /\ pc' = pc /\ kept' = kept
  BY DEF Edit
<1>4. CASE Up
  <2>1. line' \in Line
    <3>1. historyIndex + 1 \in Int /\ historyIndex + 1 >= 0 /\ Has(history, historyIndex + 1)
      <4>1. history.size \in Int
        BY DEF RingOK, Histories, NoRing
      <4>2. QED
        BY <1>4, <4>1 DEF RingOK, Up
    <3>2. QED
      BY <1>4, <3>1, EntriesAreLines DEF Up
  <2>2. historyIndex' \in -1..(history.size - 1)
    <3>1. history.size \in Int
      BY DEF RingOK, Histories, NoRing
    <3>2. QED
      BY <1>4, <3>1 DEF RingOK, Up, Has
  <2>3. history' = history /\ historyPending' \in Line
    BY <1>4 DEF RingOK, Up
  <2>4. RingOK'
    BY <1>3, <2>1, <2>2, <2>3 DEF RingOK
  <2>5. QED
    BY <1>1, <1>2, <2>4
<1>5. CASE Down
  <2>1. history.size \in Int /\ historyIndex \in 0..(history.size - 1)
    BY <1>5 DEF RingOK, Histories, NoRing, Down
  <2>2. line' \in Line
    <3>1. CASE historyIndex = 0
      BY <1>5, <3>1 DEF Down, RingOK
    <3>2. CASE historyIndex # 0
      <4>1. historyIndex - 1 \in Int /\ historyIndex - 1 >= 0
            /\ Has(history, historyIndex - 1)
        BY <1>5, <2>1, <3>2 DEF Down
      <4>2. QED
        BY <1>5, <3>2, <4>1, EntriesAreLines DEF Down
    <3>3. QED
      BY <3>1, <3>2
  <2>3. historyIndex' \in -1..(history.size - 1)
    BY <1>5, <2>1 DEF Down
  <2>4. history' = history /\ historyPending' \in Line
    BY <1>5 DEF RingOK, Down
  <2>5. RingOK'
    BY <1>3, <2>2, <2>3, <2>4 DEF RingOK
  <2>6. QED
    BY <1>1, <1>2, <2>5
<1>6. CASE Erase \/ CtrlC \/ \E w \in Word : Type(<<w>>)
  <2>1. /\ history' = history /\ historyPending' = historyPending /\ line' \in Line
        /\ historyIndex' = historyIndex
    <3>1. <<>> \in Line /\ \A w \in Word : <<w>> \in Line
      BY DEF Line
    <3>2. CASE Erase
      BY <3>1, <3>2 DEF RingOK, Erase, NoLine
    <3>3. CASE CtrlC
      BY <3>1, <3>3 DEF RingOK, CtrlC, Entered, NoLine
    <3>4. CASE \E w \in Word : Type(<<w>>)
      BY <3>1, <3>4 DEF RingOK, Type
    <3>5. QED
      BY <1>6, <3>2, <3>3, <3>4
  <2>2. RingOK'
    BY <1>3, <2>1 DEF RingOK
  <2>3. QED
    BY <1>1, <1>2, <2>2
<1>7. QED
  BY <1>4, <1>5, <1>6 DEF Edit

\* The ring after a line that is kept, and after one that is taken back.
LEMMA EnteredRing ==
  ASSUME RingOK, NEW ring, Entered(line, ring), pc' # "out",
         \/ ring = Add(history, line)
              /\ kept' = IF line = NoLine THEN kept ELSE Append(kept, line)
         \/ ring = RemoveLast(Add(history, line)) /\ kept' = kept /\ line # NoLine
  PROVE  RingOK'
<1> USE DEF NoLine
<1>1. line' \in Line /\ historyPending' \in Line /\ history' = ring
      /\ historyIndex' = IF line = NoLine THEN historyIndex ELSE -1
  BY DEF Entered, RingOK, Line
<1>2. CASE line = NoLine
  <2>1. history' = history /\ kept' = kept /\ historyIndex' = historyIndex
    BY <1>1, <1>2 DEF Add
  <2>4. QED
    BY <1>1, <2>1 DEF RingOK
<1>3. CASE line # NoLine
  <2>1. \E max \in Nat : \E r \in Histories(max) :
          max >= 2 /\ Recalls(r, kept) /\ Add(history, line) = Put(r, line)
    <3>1. CASE history = NoRing /\ kept = <<>>
      <4>1. DefaultEntries \in Nat /\ DefaultEntries >= 2
        BY DefaultEntriesAssumption
      <4>2. Made(DefaultEntries) \in Histories(DefaultEntries)
        BY <4>1 DEF Made, Histories, Line
      <4>3. Recalls(Made(DefaultEntries), kept)
        BY <3>1 DEF Recalls
      <4>4. Add(history, line) = Put(Made(DefaultEntries), line)
        BY <1>3, <3>1 DEF Add, NoRing
      <4>5. QED
        BY <4>1, <4>2, <4>3, <4>4
    <3>2. CASE /\ history.max \in Nat /\ history.max >= 2
               /\ history \in Histories(history.max)
               /\ Recalls(history, kept)
      <4>1. Add(history, line) = Put(history, line)
        BY <1>3, <3>2 DEF Add
      <4>2. QED
        BY <3>2, <4>1
    <3>3. QED
      BY <3>1, <3>2 DEF RingOK
  <2>2. PICK max \in Nat : \E r \in Histories(max) :
          max >= 2 /\ Recalls(r, kept) /\ Add(history, line) = Put(r, line)
    BY <2>1
  <2>3. PICK r \in Histories(max) :
          max >= 2 /\ Recalls(r, kept) /\ Add(history, line) = Put(r, line)
    BY <2>2
  <2>4. line \in Line /\ kept \in Seq(Line)
    BY DEF RingOK
  <2>5. history' \in Histories(max) /\ Recalls(history', kept') /\ kept' \in Seq(Line)
    <3>1. CASE ring = Add(history, line) /\ kept' = Append(kept, line)
      BY <1>1, <2>3, <2>4, <3>1, PutRecalls
    <3>2. CASE ring = RemoveLast(Add(history, line)) /\ kept' = kept
      BY <1>1, <2>3, <2>4, <3>2, PutRecalls
    <3>3. QED
      BY <1>3, <3>1, <3>2
  <2>6. history'.max = max /\ history'.size \in 0..max
    BY <2>5 DEF Histories
  <2>7. QED
    BY <1>1, <1>3, <2>3, <2>5, <2>6 DEF RingOK
<1>4. QED
  BY <1>2, <1>3

LEMMA EnterOtherInv ==
  ASSUME ClientInv, EnterOther
  PROVE  ClientInv'
<1>1. CASE \E k \in 0..Len(newEntries) : WriteToFile(k)
  BY <1>1, WriteToFileInv
<1>2. CASE /\ line \in {NoLine, <<"history">>, <<"blank">>}
           /\ Entered(line, Add(history, line))
           /\ kept' = (IF line = NoLine THEN kept ELSE Append(kept, line))
           /\ entered' = entered + 1
           /\ UNCHANGED <<pc, fileVars, statement, length, size, netVars, sessions,
                          accepted, log>>
  <2>1. TalkOK'
    <3>1. PlaceOK'
      BY <1>2, BoundsAreNatural DEF ClientInv, TalkOK, PlaceOK, netVars, EnterOther
    <3>2. BytesOK'
      BY <1>2 DEF ClientInv, TalkOK, BytesOK, netVars
    <3>3. QED
      BY <3>1, <3>2 DEF TalkOK
  <2>2. FilesOK'
    BY <1>2, FilesStayOK DEF FilesStay, fileVars
  <2>3. RingOK'
    BY <1>2, EnteredRing DEF ClientInv, EnterOther
  <2>4. QED
    BY <2>1, <2>2, <2>3 DEF ClientInv
<1>3. CASE /\ line \notin {NoLine, <<"exit">>, <<"history">>, <<"blank">>}
           /\ Entered(line, RemoveLast(Add(history, line)))
           /\ entered' = entered + 1
           /\ UNCHANGED <<pc, fileVars, statement, length, size, netVars, sessions,
                          kept, accepted, log>>
  <2>1. TalkOK'
    <3>1. PlaceOK'
      BY <1>3, BoundsAreNatural DEF ClientInv, TalkOK, PlaceOK, netVars, EnterOther
    <3>2. BytesOK'
      BY <1>3 DEF ClientInv, TalkOK, BytesOK, netVars
    <3>3. QED
      BY <3>1, <3>2 DEF TalkOK
  <2>2. FilesOK'
    BY <1>3, FilesStayOK DEF FilesStay, fileVars
  <2>3. RingOK'
    BY <1>3, EnteredRing DEF ClientInv, EnterOther
  <2>4. QED
    BY <2>1, <2>2, <2>3 DEF ClientInv
<1>4. QED
  BY <1>1, <1>2, <1>3 DEF EnterOther

LEMMA EnterStatementInv ==
  ASSUME ClientInv, EnterStatement
  PROVE  ClientInv'
<1> DEFINE w == line[1]
           l == <<Len(Bytes[w]), 0, 0, 0>>
           all == received \o Bytes[w]
<1>1. CASE Dies
  BY <1>1, DiesInv
<1>2. CASE /\ Entered(line, Add(history, line))
           /\ kept' = Append(kept, line)
           /\ entered' = entered + 1
           /\ pc' = "size"
           /\ statement' = w
           /\ length' = l
           /\ IF channel = "open"
                THEN received' = all /\ coming' = coming \o <<l, all>>
                ELSE UNCHANGED <<received, coming>>
           /\ UNCHANGED <<fileVars, size, channel, arrived, sessions, accepted, log>>
  <2>1. w \in Statement /\ line # NoLine
    <3>1. Len(line) = 1 /\ line[1] \in Statement
      BY DEF EnterStatement, IsStatement
    <3>2. line # <<>>
      BY <3>1
    <3>3. QED
      BY <3>1, <3>2 DEF NoLine
  <2>2. Len(Bytes[w]) \in 1..255 /\ Bytes[w] \in Seq(Byte)
    BY <2>1, ClientAssumption DEF Byte
  <2>3. l \in [1..4 -> Byte] /\ l \in Seq(Byte)
    <3>1. ASSUME NEW x \in Byte
          PROVE  <<x, 0, 0, 0>> \in [1..4 -> Byte] /\ <<x, 0, 0, 0>> \in Seq(Byte)
      BY DEF Byte
    <3>2. Len(Bytes[w]) \in Byte
      <4>1. \A i \in 1..255 : i \in Byte
        BY DEF Byte
      <4>2. QED
        BY <2>2, <4>1, Zenon
    <3>3. QED
      BY <3>1, <3>2
  <2>4. all \in Seq(Byte)
    <3>1. received \in Seq(Byte)
      BY DEF ClientInv, TalkOK, BytesOK
    <3>2. QED
      BY <2>2, <3>1, ConcatProperties, Zenon
  <2>5. received' \in Seq(Byte) /\ coming' \in Seq(Seq(Byte))
    <3> HIDE DEF l, all
    <3>1. coming \in Seq(Seq(Byte)) /\ received \in Seq(Byte)
      BY DEF ClientInv, TalkOK, BytesOK
    <3>2. coming \o <<l, all>> \in Seq(Seq(Byte))
      BY <2>3, <2>4, <3>1
    <3>3. QED
      BY <1>2, <2>4, <3>1, <3>2
  <2>6. TalkOK'
    <3> HIDE DEF l, all, w
    <3>1. entered' \in 0..MaxLines
      BY <1>2, BoundsAreNatural DEF ClientInv, TalkOK, PlaceOK, EnterStatement
    <3>2. PlaceOK'
      BY <1>2, <2>1, <3>1 DEF ClientInv, TalkOK, PlaceOK
    <3>3. BytesOK'
      BY <1>2, <2>3, <2>5 DEF ClientInv, TalkOK, BytesOK
    <3>4. QED
      BY <3>2, <3>3 DEF TalkOK
  <2>7. FilesOK'
    BY <1>2, FilesStayOK DEF FilesStay, fileVars
  <2>8. RingOK'
    BY <1>2, <2>1, EnteredRing DEF ClientInv
  <2>9. QED
    BY <2>6, <2>7, <2>8 DEF ClientInv
<1>3. QED
  BY <1>1, <1>2 DEF EnterStatement

\* A statement that is answered is taken once more or not.
LEMMA ReportOK ==
  ASSUME ClientInv, Report, statement \in Statement, UNCHANGED <<file, cut, oldEntries, log>>
  PROVE  FilesOK'
<1>1. accepted' = Append(accepted, statement) /\ accepted' \in Seq(Statement)
  BY DEF Report, ClientInv, FilesOK
<1>2. newEntries' = Lines(Distinct(Append(accepted, statement)))
  BY AppendEntryTakes DEF Report, ClientInv, FilesOK
<1>3. QED
  BY <1>1, <1>2 DEF ClientInv, FilesOK

\* What is left after k bytes have been read.
LEMMA RestOf ==
  ASSUME NEW a \in Seq(Byte), NEW k \in Nat
  PROVE  SubSeq(a, k + 1, Len(a)) \in Seq(Byte)
<1>1. \A i \in (k + 1)..Len(a) : a[i] \in Byte
  <2>1. \A i \in (k + 1)..Len(a) : i \in 1..Len(a)
    OBVIOUS
  <2>2. QED
    BY <2>1, ElementOfSeq
<1>2. Len(a) \in Int
  OBVIOUS
<1>3. QED
  BY <1>1, <1>2, SubSeqProperties

\* The four bytes of a length, the first n of them read over.
LEMMA ReadOver ==
  ASSUME NEW a \in Seq(Byte), NEW l \in [1..4 -> Byte],
         NEW n \in 0..4, n <= Len(a)
  PROVE  SubSeq(a, 1, n) \o SubSeq(l, n + 1, 4) \in [1..4 -> Byte]
<1> DEFINE s == SubSeq(a, 1, n)
           t == SubSeq(l, n + 1, 4)
<1>1. s \in Seq(Byte) /\ Len(s) = n
  <2>1. \A i \in 1..n : a[i] \in Byte
    <3>1. \A i \in 1..n : i \in 1..Len(a)
      OBVIOUS
    <3>2. QED
      BY <3>1, ElementOfSeq
  <2>2. s \in Seq(Byte) /\ Len(s) = IF 1 <= n THEN n - 1 + 1 ELSE 0
    BY <2>1, SubSeqProperties
  <2> HIDE DEF s
  <2>3. QED
    BY <2>2
<1>2. t \in Seq(Byte) /\ Len(t) = 4 - n
  <2>1. \A i \in (n + 1)..4 : l[i] \in Byte
    <3>1. \A i \in (n + 1)..4 : i \in 1..4
      OBVIOUS
    <3>2. QED
      BY <3>1, Zenon
  <2>2. t \in Seq(Byte) /\ Len(t) = IF n + 1 <= 4 THEN 4 - (n + 1) + 1 ELSE 0
    BY <2>1, SubSeqProperties
  <2> HIDE DEF t
  <2>3. QED
    BY <2>2
<1> HIDE DEF s, t
<1>3. s \o t \in Seq(Byte) /\ Len(s \o t) = 4
  <2>1. s \o t \in Seq(Byte) /\ Len(s \o t) = Len(s) + Len(t)
    BY <1>1, <1>2, ConcatProperties
  <2>2. QED
    BY <1>1, <1>2, <2>1
<1>4. s \o t \in [1..4 -> Byte]
  BY <1>3, LenProperties
<1>5. QED
  BY <1>4 DEF s, t

LEMMA ReadSizeInv ==
  ASSUME ClientInv, ReadSize
  PROVE  ClientInv'
<1> DEFINE n == Least(4, Len(arrived))
           b == SubSeq(arrived, 1, n) \o SubSeq(length, n + 1, 4)
<1>1. CASE Dies
  BY <1>1, DiesInv
<1>2. CASE /\ Int32(b) >= 0
           /\ length' = b
           /\ size' = Int32(b)
           /\ arrived' = SubSeq(arrived, n + 1, Len(arrived))
           /\ \/ Int32(b) = 0 /\ Report
              \/ Int32(b) > 0 /\ pc' = "data" /\ UNCHANGED <<newEntries, accepted>>
           /\ UNCHANGED <<termVars, file, cut, oldEntries, statement, channel, coming,
                          received, entered, sessions, kept, log>>
  <2>1. arrived \in Seq(Byte) /\ length \in [1..4 -> Byte]
    BY DEF ClientInv, TalkOK, PlaceOK, BytesOK
  <2>2. n \in 0..4 /\ n <= Len(arrived)
    <3>1. Len(arrived) \in Nat
      BY <2>1
    <3>2. ASSUME NEW x \in Nat PROVE Least(4, x) \in 0..4 /\ Least(4, x) <= x
      BY DEF Least
    <3>3. QED
      BY <3>1, <3>2
  <2>3. b \in [1..4 -> Byte]
    <3> HIDE DEF n
    <3>1. QED
      BY <2>1, <2>2, ReadOver
  <2>4. Int32(b) \in Int
    <3> HIDE DEF b
    <3>1. b[1] \in Int /\ b[2] \in Int /\ b[3] \in Int /\ b[4] \in Int
      BY <2>3 DEF Byte
    <3>2. QED
      BY <3>1 DEF Int32, Large, Byte
  <2>5. arrived' \in Seq(Byte)
    <3> HIDE DEF n, b
    <3>1. QED
      <4>1. n \in Nat
        BY <2>2
      <4>2. SubSeq(arrived, n + 1, Len(arrived)) \in Seq(Byte)
        BY <2>1, <4>1, RestOf
      <4>3. QED
        BY <1>2, <4>2, Zenon
  <2>6. pc = "size" /\ statement \in Statement
    BY DEF ReadSize, ClientInv, TalkOK, PlaceOK, BytesOK
  <2>7. pc' \in {"prompt", "data"}
    BY <1>2 DEF Report
  <2> HIDE DEF n, b
  <2>8. TalkOK'
    <3>1. size' \in Nat
      BY <1>2, <2>4
    <3>2. QED
      BY <1>2, <2>3, <2>5, <2>6, <2>7, <3>1 DEF ClientInv, TalkOK, PlaceOK, BytesOK
  <2>9. FilesOK'
    <3>1. CASE Report
      BY <1>2, <2>6, <3>1, ReportOK
    <3>2. CASE UNCHANGED <<newEntries, accepted>>
      BY <1>2, <3>2, FilesStayOK DEF FilesStay, fileVars
    <3>3. QED
      BY <1>2, <3>1, <3>2
  <2>10. RingOK'
    BY <1>2, <2>7 DEF ClientInv, RingOK, termVars
  <2>11. QED
    BY <2>8, <2>9, <2>10 DEF ClientInv
<1>3. QED
  BY <1>1, <1>2 DEF ReadSize

LEMMA ReadDataInv ==
  ASSUME ClientInv, ReadData
  PROVE  ClientInv'
<1>1. /\ pc = "data" /\ pc' = "prompt" /\ statement \in Statement
      /\ arrived \in Seq(Byte) /\ size \in Nat
  BY DEF ReadData, Report, ClientInv, TalkOK, PlaceOK, BytesOK
<1>2. arrived' \in Seq(Byte)
  <2>1. Len(arrived) \in Nat
    BY <1>1
  <2>2. Least(size, Len(arrived)) \in Nat
    BY <1>1, <2>1 DEF Least
  <2>3. QED
    BY <1>1, <2>2, RestOf DEF ReadData
<1>3. TalkOK'
  BY <1>1, <1>2 DEF ReadData, ClientInv, TalkOK, PlaceOK, BytesOK
<1>4. FilesOK'
  BY <1>1, ReportOK DEF ReadData
<1>5. RingOK'
  BY <1>1 DEF ReadData, ClientInv, RingOK, termVars
<1>6. QED
  BY <1>3, <1>4, <1>5 DEF ClientInv

LEMMA NetworkInv ==
  ASSUME ClientInv, Arrive \/ LoseConnection
  PROVE  ClientInv'
<1>1. TalkOK'
  <2>1. CASE Arrive
    <3>1. ASSUME NEW c \in Seq(Seq(Byte)), c # <<>>
          PROVE  Head(c) \in Seq(Byte) /\ Tail(c) \in Seq(Seq(Byte))
      BY <3>1
    <3>2. Head(coming) \in Seq(Byte) /\ Tail(coming) \in Seq(Seq(Byte))
      BY <2>1, <3>1 DEF Arrive, ClientInv, TalkOK, PlaceOK, BytesOK
    <3>3. arrived' \in Seq(Byte) /\ coming' \in Seq(Seq(Byte))
      BY <2>1, <3>2 DEF Arrive, ClientInv, TalkOK, PlaceOK, BytesOK
    <3>4. QED
      BY <2>1, <3>3 DEF Arrive, ClientInv, TalkOK, PlaceOK, BytesOK
  <2>2. CASE LoseConnection
    BY <2>2 DEF LoseConnection, ClientInv, TalkOK, PlaceOK, BytesOK
  <2>3. QED
    BY <2>1, <2>2
<1>2. FilesOK'
  BY FilesStayOK DEF FilesStay, Arrive, LoseConnection, fileVars
<1>3. RingOK'
  BY DEF ClientInv, RingOK, Arrive, LoseConnection, termVars
<1>4. QED
  BY <1>1, <1>2, <1>3 DEF ClientInv

LEMMA ClientNextInv ==
  ASSUME ClientInv, [ClientNext]_clientVars
  PROVE  ClientInv'
<1>1. CASE \E opened \in BOOLEAN : Launch(opened)
  BY <1>1, LaunchInv
<1>2. CASE Kill
  BY <1>2, DiesInv DEF Kill
<1>3. CASE \E w \in Statement : OtherSession(w)
  BY <1>3, OtherSessionInv
<1>4. CASE Edit
  BY <1>4, EditInv
<1>5. CASE EndOfInput
  BY <1>5, WriteToFileInv DEF EndOfInput
<1>6. CASE EnterOther
  BY <1>6, EnterOtherInv
<1>7. CASE EnterStatement
  BY <1>7, EnterStatementInv
<1>8. CASE Arrive \/ LoseConnection
  BY <1>8, NetworkInv
<1>9. CASE ReadSize
  BY <1>9, ReadSizeInv
<1>10. CASE ReadData
  BY <1>10, ReadDataInv
<1>11. CASE UNCHANGED clientVars
  BY <1>11 DEF clientVars, termVars, fileVars, netVars, ClientInv, TalkOK, PlaceOK, BytesOK, FilesOK, RingOK
<1>12. QED
  BY <1>1, <1>2, <1>3, <1>4, <1>5, <1>6, <1>7, <1>8, <1>9, <1>10, <1>11 DEF ClientNext

LEMMA ClientInvAlways == ClientSpec => []ClientInv
<1>1. ClientInit => ClientInv
  BY ClientInitInv
<1>2. ClientInv /\ [ClientNext]_clientVars => ClientInv'
  BY ClientNextInv
<1>3. QED
  BY <1>1, <1>2, PTL DEF ClientSpec

\* The variables of the client keep their types, whatever it is sent and
\* wherever it ends.
THEOREM ClientTypeCorrect == ClientSpec => []ClientTypeOK
<1>1. ClientInv => ClientTypeOK
  BY ClientInvImplies
<1>2. QED
  BY <1>1, ClientInvAlways, PTL

\* The ring of the terminal (Add, RemoveLast, Load, NthPreviousEntry) gives back
\* exactly the lines that were entered and not taken back, up to its size less
\* one, for a ring of any size and however many lines were taken back.
THEOREM RecallIsRight == ClientSpec => []RecallIsExact
<1>1. ClientInv => RecallIsExact
  BY ClientInvImplies
<1>2. QED
  BY <1>1, ClientInvAlways, PTL

\* Unless a write ends within a line, the history file (ReadFile, Append,
\* WriteToFile) reads as the statements that the sessions have written, in the
\* order they ended, however long they were and whoever else wrote to it.
THEOREM FileIsRight == ClientSpec => []FileIsTheLog
<1>1. ClientInv => FileIsTheLog
  BY ClientInvImplies
<1>2. QED
  BY <1>1, ClientInvAlways, PTL

-----------------------------------------------------------------------------
(* The SSH server. *)

\* A channel's reader has not taken more than was sent.
CountsOK == \A h \in Channel : taken[h] + Len(inbox[h]) <= sent[h]

\* Handle's goroutines live in a running handler, the handler in an open
\* connection.
NestingOK ==
  \A h \in Channel :
    /\ handler[h] = "running" => conn[Owner[h]] \in {"serving", "draining"}
    /\ main[h] = "select" \/ reader[h] \in {"read", "send"}
         => handler[h] = "running"

\* Where the reader and the main goroutine are says which echo is next.
OrderOK ==
  \A h \in Channel :
    /\ main[h] = "none" <=> reader[h] = "none"
    /\ main[h] = "none" => taken[h] = 0 /\ replies[h] = <<>>
    /\ main[h] = "select" /\ reader[h] = "read" => Len(replies[h]) = taken[h]
    /\ reader[h] = "send" => offer[h] # None /\ offer[h].number = taken[h]
    /\ main[h] = "select" /\ reader[h] = "send"
         => Len(replies[h]) + 1 = taken[h]
    /\ \A i \in DOMAIN replies[h] :
         replies[h][i] = [length |-> i, data |-> 1..i]

Inv == TypeOK /\ CountsOK /\ NestingOK /\ OrderOK

USE EchoAssumption, ServerAssumption

-----------------------------------------------------------------------------

\* A killed tomb keeps a reason.
LEMMA KilledReason ==
  ASSUME NEW t \in Reason, NEW r \in Reason
  PROVE  Killed(t, r) \in Reason
  BY DEF Killed, Reason

LEMMA InitInv == Init => Inv
<1> SUFFICES ASSUME Init PROVE Inv
  OBVIOUS
<1> USE DEF Init, EchoInit
<1>1. TypeOK
  <2>1. EchoTypeOK
    BY DEF EchoTypeOK, Reason, None
  <2>2. QED
    BY <2>1 DEF TypeOK, Reason
<1>2. CountsOK
  BY DEF CountsOK
<1>3. NestingOK
  BY DEF NestingOK
<1>4. OrderOK
  BY DEF OrderOK
<1>5. QED
  BY <1>1, <1>2, <1>3, <1>4 DEF Inv

\* The steps of the client on a channel.
LEMMA UseChannelInv ==
  ASSUME Inv, NEW h \in Channel, UseChannel(h)
  PROVE  Inv'
<1> USE DEF Inv, TypeOK, EchoTypeOK, UseChannel, serverVars
<1>1. CASE Finish(h)
  BY <1>1 DEF Finish, CountsOK, NestingOK, OrderOK
<1>2. ASSUME NEW kind \in Kind, Send(h, kind) PROVE Inv'
  <2> USE DEF Send
  <2>1. /\ inbox[h] \in Seq(Kind)
        /\ Append(inbox[h], kind) \in Seq(Kind)
        /\ Len(Append(inbox[h], kind)) = Len(inbox[h]) + 1
    OBVIOUS
  <2>2. /\ inbox' \in [Channel -> Seq(Kind)]
        /\ sent' \in [Channel -> Nat]
    BY <1>2, <2>1
  <2>3. TypeOK'
    BY <1>2, <2>2
  <2>4. CountsOK'
    BY <1>2, <2>1 DEF CountsOK
  <2>5. NestingOK' /\ OrderOK'
    BY <1>2 DEF NestingOK, OrderOK
  <2>6. QED
    BY <2>3, <2>4, <2>5
<1>3. QED
  BY <1>1, <1>2

\* What an append and a tail leave.
LEMMA AppendFacts ==
  ASSUME NEW S, NEW s \in Seq(S), NEW e \in S
  PROVE  /\ Append(s, e) \in Seq(S)
         /\ Len(Append(s, e)) = Len(s) + 1
         /\ \A i \in 1..Len(s) : Append(s, e)[i] = s[i]
         /\ Append(s, e)[Len(s) + 1] = e
  OBVIOUS

LEMMA TailFacts ==
  ASSUME NEW S, NEW s \in Seq(S), s # <<>>
  PROVE  /\ Tail(s) \in Seq(S)
         /\ Len(Tail(s)) + 1 = Len(s)
         /\ Len(Tail(s)) \in Nat
         /\ Head(s) \in S
  OBVIOUS

\* A message taken off the channel is counted at most once.
LEMMA TakenCounts ==
  ASSUME Inv, NEW h \in Channel, NEW n \in Nat,
         inbox[h] # <<>>, inbox' = [inbox EXCEPT ![h] = Tail(@)],
         taken' = [taken EXCEPT ![h] = n], n <= taken[h] + 1,
         UNCHANGED sent
  PROVE  CountsOK'
<1> SUFFICES ASSUME NEW g \in Channel
             PROVE  taken'[g] + Len(inbox'[g]) <= sent'[g]
  BY DEF CountsOK
<1> USE DEF Inv, TypeOK, EchoTypeOK
<1>1. taken[g] + Len(inbox[g]) <= sent[g]
  BY DEF CountsOK
<1>2. CASE g = h
  <2>1. Len(Tail(inbox[h])) + 1 = Len(inbox[h]) /\ Len(Tail(inbox[h])) \in Nat
    BY TailFacts
  <2>2. inbox'[g] = Tail(inbox[h]) /\ taken'[g] = n
    BY <1>2
  <2>3. sent[g] \in Nat /\ taken[g] \in Nat
    OBVIOUS
  <2>4. QED
    BY <1>1, <1>2, <2>1, <2>2, <2>3
<1>3. CASE g # h
  BY <1>1, <1>3
<1>4. QED
  BY <1>2, <1>3

\* A reader that ends, with an error or without.
LEMMA ReaderEndsType ==
  ASSUME TypeOK, NEW h \in Channel, NEW reason \in Reason, ReaderEnds(h, reason)
  PROVE  /\ reader' = [reader EXCEPT ![h] = "done"]
         /\ offer' = [offer EXCEPT ![h] = None]
         /\ offer' \in [Channel -> [number : Nat, kind : Kind]
                                     \cup {None}]
         /\ tomb' \in [Channel -> Reason]
<1>1. Killed(tomb[h], reason) \in Reason
  BY KilledReason DEF TypeOK, EchoTypeOK
<1>2. QED
  BY <1>1 DEF ReaderEnds, TypeOK, EchoTypeOK

LEMMA ReadInv ==
  ASSUME Inv, NEW h \in Channel, NEW gone, handler[h] = "running", Read(h, gone),
         UNCHANGED serverVars
  PROVE  Inv'
<1> USE DEF Inv, TypeOK, EchoTypeOK, Read, serverVars
<1>1. CASE /\ inbox[h] # <<>> /\ Head(inbox[h]) # "broken"
           /\ inbox' = [inbox EXCEPT ![h] = Tail(@)]
           /\ taken' = [taken EXCEPT ![h] = @ + 1]
           /\ offer' = [offer EXCEPT ![h] =
                          [number |-> taken[h] + 1, kind |-> Head(inbox[h])]]
           /\ reader' = [reader EXCEPT ![h] = "send"]
           /\ UNCHANGED tomb
  <2>1. /\ Tail(inbox[h]) \in Seq(Kind)
        /\ Len(Tail(inbox[h])) + 1 = Len(inbox[h])
        /\ Len(Tail(inbox[h])) \in Nat
        /\ Head(inbox[h]) \in Kind
    BY <1>1, TailFacts
  <2>2. taken[h] + 1 \in Nat /\ taken[h] + 1 <= sent[h]
    BY <2>1 DEF CountsOK
  <2> DEFINE m == [number |-> taken[h] + 1, kind |-> Head(inbox[h])]
  <2>3. m \in [number : Nat, kind : Kind]
    BY <2>1, <2>2
  <2>4. /\ inbox' \in [Channel -> Seq(Kind)]
        /\ reader' \in [Channel -> {"none", "read", "send", "done"}]
    BY <1>1, <2>1
  <2>5. taken' \in [Channel -> Nat]
    BY <1>1, <2>2
  <2>6. offer' = [offer EXCEPT ![h] = m]
    BY <1>1
  <2>7. offer' \in [Channel -> [number : Nat, kind : Kind]
                                  \cup {None}]
    BY <2>3, <2>6
  <2>8. taken'[h] <= sent'[h]
    BY <1>1, <2>2
  <2>9. TypeOK'
    BY <1>1, <2>4, <2>7, <2>5, <2>8
  <2>10. CountsOK'
    <3>1. /\ taken[h] + 1 \in Nat
          /\ taken' = [taken EXCEPT ![h] = taken[h] + 1]
          /\ taken[h] + 1 <= taken[h] + 1
      BY <1>1
    <3>2. Inv /\ UNCHANGED sent
      OBVIOUS
    <3> HIDE DEF Inv, TypeOK, EchoTypeOK, Read
    <3>3. QED
      BY <1>1, <3>1, <3>2, TakenCounts
  <2>11. NestingOK'
    BY <1>1 DEF NestingOK
  <2>12. [number |-> taken[h] + 1, kind |-> Head(inbox[h])] # None
    BY <2>2 DEF None
  <2>13. OrderOK'
    BY <1>1, <2>12 DEF OrderOK
  <2>14. QED
    BY <2>9, <2>10, <2>11, <2>13
<1>2. CASE /\ inbox[h] # <<>> /\ Head(inbox[h]) = "broken"
           /\ inbox' = [inbox EXCEPT ![h] = Tail(@)]
           /\ ReaderEnds(h, "err")
           /\ UNCHANGED taken
  <2>1. Tail(inbox[h]) \in Seq(Kind)
    BY <1>2, TailFacts
  <2>2. "err" \in Reason
    BY DEF Reason
  <2>3. /\ reader' = [reader EXCEPT ![h] = "done"]
        /\ offer' = [offer EXCEPT ![h] = None]
        /\ offer' \in [Channel -> [number : Nat, kind : Kind]
                                    \cup {None}]
        /\ tomb' \in [Channel -> Reason]
    BY <1>2, <2>2, ReaderEndsType
  <2>4. TypeOK'
    BY <1>2, <2>1, <2>3
  <2>5. taken' = [taken EXCEPT ![h] = taken[h]] /\ taken[h] \in Nat
    BY <1>2
  <2>6. CountsOK'
    BY <1>2, <2>5, TakenCounts
  <2>7. NestingOK' /\ OrderOK'
    BY <1>2, <2>3 DEF NestingOK, OrderOK
  <2>8. QED
    BY <2>4, <2>6, <2>7
<1>3. CASE /\ inbox[h] = <<>>
           /\ ReaderEnds(h, "eof")
           /\ UNCHANGED <<inbox, taken>>
  <2>1. "eof" \in Reason
    BY DEF Reason
  <2>2. /\ reader' = [reader EXCEPT ![h] = "done"]
        /\ offer' = [offer EXCEPT ![h] = None]
        /\ offer' \in [Channel -> [number : Nat, kind : Kind]
                                    \cup {None}]
        /\ tomb' \in [Channel -> Reason]
    BY <1>3, <2>1, ReaderEndsType
  <2>3. TypeOK' /\ CountsOK'
    BY <1>3, <2>2 DEF CountsOK
  <2>4. NestingOK' /\ OrderOK'
    BY <1>3, <2>2 DEF NestingOK, OrderOK
  <2>5. QED
    BY <2>3, <2>4
<1>4. QED
  BY <1>1, <1>2, <1>3

LEMMA ReaderGivesUpInv ==
  ASSUME Inv, NEW h \in Channel, NEW parent, ReaderGivesUp(h, parent),
         UNCHANGED serverVars
  PROVE  Inv'
<1> USE DEF Inv, TypeOK, EchoTypeOK, ReaderGivesUp, serverVars
<1>1. "nil" \in Reason
  BY DEF Reason
<1>2. /\ reader' = [reader EXCEPT ![h] = "done"]
      /\ offer' = [offer EXCEPT ![h] = None]
      /\ offer' \in [Channel -> [number : Nat, kind : Kind]
                                  \cup {None}]
      /\ tomb' \in [Channel -> Reason]
  BY <1>1, ReaderEndsType
<1>3. TypeOK' /\ CountsOK'
  BY <1>2 DEF CountsOK
<1>4. NestingOK' /\ OrderOK'
  BY <1>2 DEF NestingOK, OrderOK
<1>5. QED
  BY <1>3, <1>4

LEMMA EchoInv ==
  ASSUME Inv, NEW h \in Channel, Echo(h), UNCHANGED serverVars
  PROVE  Inv'
<1> USE DEF Inv, TypeOK, EchoTypeOK, Echo, serverVars
<1>1. CASE /\ main' = [main EXCEPT ![h] = "done"]
           /\ UNCHANGED replies
  <2>1. TypeOK' /\ CountsOK'
    BY <1>1 DEF CountsOK
  <2>2. NestingOK' /\ OrderOK'
    BY <1>1 DEF NestingOK, OrderOK
  <2>3. QED
    BY <2>1, <2>2
<1>2. CASE /\ replies' = [replies EXCEPT ![h] =
                            Append(@, [length |-> offer[h].number,
                                       data |-> 1..taken[h]])]
           /\ UNCHANGED main
  <2> DEFINE reply == [length |-> offer[h].number, data |-> 1..taken[h]]
             longer == Append(replies[h], reply)
  <2>1. /\ offer[h].number = taken[h]
        /\ Len(replies[h]) + 1 = taken[h]
        /\ taken[h] \in Nat \ {0}
    BY DEF OrderOK
  <2>2. reply \in [length : Nat, data : SUBSET Nat]
    BY <2>1
  <2>3. /\ longer \in Seq([length : Nat, data : SUBSET Nat])
        /\ Len(longer) = Len(replies[h]) + 1
        /\ \A i \in 1..Len(replies[h]) : longer[i] = replies[h][i]
        /\ longer[Len(replies[h]) + 1] = reply
    <3> DEFINE R == [length : Nat, data : SUBSET Nat]
    <3>1. replies[h] \in Seq(R) /\ reply \in R
      BY <2>2
    <3> HIDE DEF reply, R
    <3>2. QED
      BY <3>1, AppendFacts DEF R
  <2>4. \A i \in DOMAIN longer : longer[i] = [length |-> i, data |-> 1..i]
    <3> HIDE DEF longer
    <3>1. DOMAIN longer = 1..(Len(replies[h]) + 1)
      BY <2>3
    <3> SUFFICES ASSUME NEW i \in 1..(Len(replies[h]) + 1)
                 PROVE  longer[i] = [length |-> i, data |-> 1..i]
      BY <3>1
    <3>2. CASE i = Len(replies[h]) + 1
      BY <3>2, <2>1, <2>3
    <3>3. CASE i \in 1..Len(replies[h])
      <4>1. longer[i] = replies[h][i] /\ i \in DOMAIN replies[h]
        <5>1. DOMAIN replies[h] = 1..Len(replies[h])
          <6>1. replies[h] \in Seq([length : Nat, data : SUBSET Nat])
            OBVIOUS
          <6>2. QED
            BY <6>1, LenProperties
        <5>2. QED
          BY <3>3, <2>3, <5>1, Zenon
      <4>2. replies[h][i] = [length |-> i, data |-> 1..i]
        BY <4>1 DEF OrderOK
      <4>3. QED
        BY <4>1, <4>2
    <3>4. QED
      BY <3>2, <3>3
  <2>5. replies' = [replies EXCEPT ![h] = longer]
    BY <1>2
  <2> HIDE DEF longer, reply
  <2>6. replies' \in [Channel -> Seq([length : Nat, data : SUBSET Nat])]
    BY <2>3, <2>5
  <2>7. /\ offer' \in [Channel -> [number : Nat, kind : Kind]
                                  \cup {None}]
        /\ reader' \in [Channel -> {"none", "read", "send", "done"}]
    OBVIOUS
  <2>8. TypeOK' /\ CountsOK'
    BY <2>6, <2>7, <1>2 DEF CountsOK
  <2>9. NestingOK'
    BY <1>2 DEF NestingOK
  <2>10. OrderOK'
    <3>1. \A c \in Channel : replies'[c] = IF c = h THEN longer ELSE replies[c]
      BY <2>5
    <3>2. \A i \in DOMAIN replies'[h] :
            replies'[h][i] = [length |-> i, data |-> 1..i]
      BY <2>4, <3>1
    <3> SUFFICES ASSUME NEW c \in Channel
                 PROVE  /\ main'[c] = "none" <=> reader'[c] = "none"
                        /\ main'[c] = "none" => taken'[c] = 0 /\ replies'[c] = <<>>
                        /\ main'[c] = "select" /\ reader'[c] = "read"
                             => Len(replies'[c]) = taken'[c]
                        /\ reader'[c] = "send"
                             => offer'[c] # None /\ offer'[c].number = taken'[c]
                        /\ main'[c] = "select" /\ reader'[c] = "send"
                             => Len(replies'[c]) + 1 = taken'[c]
                        /\ \A i \in DOMAIN replies'[c] :
                             replies'[c][i] = [length |-> i, data |-> 1..i]
      BY DEF OrderOK
    <3>3. CASE c # h
      <4>1. replies'[c] = replies[c]
        BY <3>1, <3>3
      <4>2. /\ main'[c] = main[c] /\ reader'[c] = reader[c]
            /\ offer'[c] = offer[c] /\ taken'[c] = taken[c]
        BY <1>2, <3>3
      <4>3. QED
        BY <4>1, <4>2 DEF OrderOK
    <3>4. CASE c = h
      <4>1. main'[h] = "select" /\ reader'[h] = "read" /\ taken'[h] = taken[h]
        BY <1>2
      <4>2. Len(replies'[h]) = taken[h]
        BY <2>1, <2>3, <3>1
      <4>3. QED
        BY <3>2, <3>4, <4>1, <4>2
    <3>5. QED
      BY <3>3, <3>4
  <2>11. QED
    BY <2>8, <2>9, <2>10
<1>3. QED
  BY <1>1, <1>2

LEMMA MainGivesUpInv ==
  ASSUME Inv, NEW h \in Channel, NEW parent, MainGivesUp(h, parent),
         UNCHANGED serverVars
  PROVE  Inv'
<1> USE DEF Inv, TypeOK, EchoTypeOK, MainGivesUp, serverVars
<1>1. Killed(tomb[h], "nil") \in Reason
  BY KilledReason DEF Reason
<1>2. TypeOK' /\ CountsOK'
  BY <1>1 DEF CountsOK
<1>3. NestingOK' /\ OrderOK'
  BY DEF NestingOK, OrderOK
<1>4. QED
  BY <1>2, <1>3

-----------------------------------------------------------------------------

\* Steps that do not touch a channel's own state keep what is said of it.
LEMMA ChannelsAlone ==
  ASSUME Inv, UNCHANGED echoVars
  PROVE  EchoTypeOK' /\ CountsOK' /\ OrderOK'
  BY DEF Inv, TypeOK, EchoTypeOK, CountsOK, OrderOK, echoVars

\* The clients' dials and requests, Stop, and the accept loop.
LEMMA OutsideInv ==
  ASSUME Inv, UNCHANGED echoVars,
         \/ \E c \in Conn : Dial(c) \/ HangUp(c)
         \/ \E h \in Channel, type \in {"known", "unknown"} : OpenChannel(h, type)
         \/ Stop \/ Listen
  PROVE  Inv'
<1> EchoTypeOK' /\ CountsOK' /\ OrderOK'
  BY ChannelsAlone
<1> USE DEF Inv, TypeOK, NestingOK, echoVars
<1>1. ASSUME NEW c \in Conn, Dial(c) \/ HangUp(c) PROVE Inv'
  BY <1>1 DEF Dial, HangUp
<1>2. ASSUME NEW h \in Channel, NEW type \in {"known", "unknown"},
             OpenChannel(h, type)
      PROVE  Inv'
  BY <1>2 DEF OpenChannel
<1>3. CASE Stop
  BY <1>3 DEF Stop
<1>4. CASE Listen
  <2>1. CASE Check
    <3>1. Killed(group, "nil") \in Reason
      BY KilledReason DEF Reason
    <3>2. QED
      BY <2>1, <3>1 DEF Check
  <2>2. CASE AcceptFails
    BY <2>2 DEF AcceptFails
  <2>3. ASSUME NEW c \in Conn, Accept(c) PROVE Inv'
    <3>1. PICK race \in BOOLEAN : stuck' = [stuck EXCEPT ![c] = race]
      BY <2>3 DEF Accept
    <3>2. stuck' \in [Conn -> BOOLEAN]
      BY <3>1
    <3>3. QED
      BY <2>3, <3>2 DEF Accept
  <2>4. QED
    BY <1>4, <2>1, <2>2, <2>3 DEF Listen
<1>5. QED
  BY <1>1, <1>2, <1>3, <1>4

\* A connection's steps from its handshake to its end.
LEMMA ConnectionInv ==
  ASSUME Inv, NEW c \in Conn, UNCHANGED echoVars,
         \/ Handshake(c) \/ HandshakeFails(c) \/ Undispatch(c) \/ Finished(c)
         \/ \E h \in ChannelsOf(c) : Reject(h)
  PROVE  Inv'
<1> EchoTypeOK' /\ CountsOK' /\ OrderOK'
  BY ChannelsAlone
<1> USE DEF Inv, TypeOK, NestingOK, echoVars
<1>1. Killed(tombs[c], "nil") \in Reason /\ Killed(group, "err") \in Reason
  BY KilledReason DEF Reason
<1>2. CASE Handshake(c)
  BY <1>2 DEF Handshake
<1>3. CASE HandshakeFails(c)
  BY <1>1, <1>3 DEF HandshakeFails, Close
<1>4. CASE Undispatch(c)
  BY <1>1, <1>4 DEF Undispatch, Drain
<1>5. CASE Finished(c)
  BY <1>1, <1>5 DEF Finished, Close, ChannelsOf
<1>6. ASSUME NEW h \in ChannelsOf(c), Reject(h) PROVE Inv'
  BY <1>1, <1>6 DEF Reject, Drain, ChannelsOf
<1>7. QED
  BY <1>2, <1>3, <1>4, <1>5, <1>6

LEMMA DispatchInv ==
  ASSUME Inv, NEW h \in Channel, Dispatch(h)
  PROVE  Inv'
<1> USE DEF Inv, TypeOK, Dispatch
<1>1. ASSUME handler' = [handler EXCEPT ![h] = "running"],
             NEW race \in BOOLEAN, Start(h, race)
      PROVE  Inv'
  <2> USE DEF Start
  <2>1. race \in BOOLEAN
    BY <1>1
  <2>2. TypeOK' /\ CountsOK'
    BY <1>1, <2>1 DEF EchoTypeOK, CountsOK
  <2>3. NestingOK'
    BY <1>1 DEF NestingOK, EchoTypeOK
  <2>4. OrderOK'
    BY <1>1 DEF OrderOK, EchoTypeOK
  <2>5. QED
    BY <2>2, <2>3, <2>4
<1>2. CASE UNCHANGED <<echoVars, handler>>
  <2>1. EchoTypeOK' /\ CountsOK' /\ OrderOK'
    BY <1>2, ChannelsAlone
  <2>2. QED
    BY <1>2, <2>1 DEF NestingOK, echoVars
<1>3. QED
  BY <1>1, <1>2

LEMMA HandleInv ==
  ASSUME Inv, NEW h \in Channel, Handle(h)
  PROVE  Inv'
<1>1. CASE Return(h)
  <2>1. EchoTypeOK' /\ CountsOK' /\ OrderOK'
    BY <1>1, ChannelsAlone DEF Return
  <2>2. tomb[h] \in Reason /\ Owner[h] \in Conn /\ tombs[Owner[h]] \in Reason
    BY DEF Inv, TypeOK, EchoTypeOK
  <2>3. Killed(tombs[Owner[h]], tomb[h]) \in Reason
    BY <2>2, KilledReason
  <2>4. TypeOK'
    BY <1>1, <2>1, <2>3 DEF Return, Inv, TypeOK
  <2>5. NestingOK'
    BY <1>1 DEF Return, Over, Inv, TypeOK, NestingOK, echoVars
  <2>6. QED
    BY <2>1, <2>4, <2>5 DEF Inv
<1>2. CASE /\ handler[h] = "running"
           /\ Steps(h, tombs[Owner[h]], Gone(Owner[h]))
           /\ UNCHANGED serverVars
  BY <1>2, ReadInv, ReaderGivesUpInv, EchoInv, MainGivesUpInv DEF Steps
<1>3. QED
  BY <1>1, <1>2 DEF Handle

LEMMA NextInv ==
  ASSUME Inv, [Next]_vars
  PROVE  Inv'
<1>1. CASE UNCHANGED vars
  <2>1. EchoTypeOK' /\ CountsOK' /\ OrderOK'
    BY <1>1, ChannelsAlone DEF vars
  <2>2. QED
    BY <1>1, <2>1 DEF Inv, TypeOK, NestingOK, vars, echoVars, serverVars
<1>2. CASE Client
  <2>1. ASSUME NEW c \in Conn, Dial(c) \/ HangUp(c) PROVE Inv'
    BY <2>1, OutsideInv DEF Dial, HangUp
  <2>2. ASSUME NEW h \in Channel, UseChannel(h) PROVE Inv'
    BY <2>2, UseChannelInv
  <2>3. ASSUME NEW h \in Channel, NEW type \in {"known", "unknown"},
               OpenChannel(h, type)
        PROVE  Inv'
    BY <2>3, OutsideInv DEF OpenChannel
  <2>4. QED
    BY <1>2, <2>1, <2>2, <2>3 DEF Client
<1>3. CASE Stop \/ Listen
  <2>1. UNCHANGED echoVars
    BY <1>3 DEF Stop, Listen, Check, AcceptFails, Accept
  <2>2. QED
    BY <1>3, <2>1, OutsideInv
<1>4. ASSUME NEW c \in Conn, Serve(c) \/ Handshake(c) \/ HandshakeFails(c)
      PROVE  Inv'
  <2>1. ASSUME NEW h \in ChannelsOf(c), Dispatch(h) PROVE Inv'
    BY <2>1, DispatchInv DEF ChannelsOf
  <2>2. ASSUME NEW h \in ChannelsOf(c), Reject(h) PROVE Inv'
    BY <2>2, ConnectionInv DEF Reject
  <2>3. CASE Handshake(c) \/ HandshakeFails(c) \/ Undispatch(c) \/ Finished(c)
    <3>1. UNCHANGED echoVars
      BY <2>3 DEF Handshake, HandshakeFails, Undispatch, Finished
    <3>2. QED
      BY <2>3, <3>1, ConnectionInv
  <2>4. QED
    BY <1>4, <2>1, <2>2, <2>3 DEF Serve
<1>5. ASSUME NEW h \in Channel, Handle(h) PROVE Inv'
  BY <1>5, HandleInv
<1>6. QED
  BY <1>1, <1>2, <1>3, <1>4, <1>5 DEF Next

THEOREM InvHolds == Spec => []Inv
<1>1. Init => Inv
  BY InitInv
<1>2. Inv /\ [Next]_vars => Inv'
  BY NextInv
<1>3. QED
  BY <1>1, <1>2, PTL DEF Spec

-----------------------------------------------------------------------------

\* The server, its connections and handlers keep their types.
THEOREM TypeCorrect == Spec => []TypeOK
<1>1. Inv => TypeOK
  BY DEF Inv
<1>2. QED
  BY <1>1, InvHolds, PTL

\* When Stop returns, no goroutine of a connection or of a handler is left.
THEOREM NothingOutlivesStop == Spec => []StopKillsEverything
<1>1. Inv => StopKillsEverything
  BY DEF Inv, TypeOK, NestingOK, StopKillsEverything, Stopped
<1>2. QED
  BY <1>1, InvHolds, PTL

\* Echoes carry the lengths of the messages in order, none left out.
THEOREM EchoesComeInOrder == Spec => []EchoesAreInOrder
<1>1. Inv => EchoesAreInOrder
  BY DEF Inv, OrderOK, EchoesAreInOrder
<1>2. QED
  BY <1>1, InvHolds, PTL

-----------------------------------------------------------------------------
(* Nobody waits in a circle. *)

\* A connection that is drained has told its handlers, a channel is answered before
\* its handler starts, and one that is over has a reason to give.
DrainingOK == \A c \in Conn : conn[c] = "draining" => Dying(tombs[c])
AnsweredOK ==
  \A h \in Channel : /\ request[h] # "answered" => main[h] = "none"
                     /\ handler[h] # "none" => main[h] # "none"
OverOK == \A h \in Channel : Over(h) => Dying(tomb[h])
WaitsOK == DrainingOK /\ AnsweredOK /\ OverOK

LEMMA KilledIsDying ==
  ASSUME NEW t, NEW r, Dying(r)
  PROVE  Dying(Killed(t, r))
BY DEF Dying, Killed

LEMMA ReasonsAreDying == Dying("nil") /\ Dying("eof") /\ Dying("err")
BY DEF Dying

\* What ends a reader: after the main goroutine it leaves a reason.
LEMMA ReaderEndsOver ==
  ASSUME TypeOK, OverOK, NEW h \in Channel, NEW reason, Dying(reason),
         ReaderEnds(h, reason), UNCHANGED main
  PROVE  OverOK'
<1>. USE DEF TypeOK, EchoTypeOK
<1>1. \A g \in Channel \ {h} : reader'[g] = reader[g] /\ tomb'[g] = tomb[g]
  BY DEF ReaderEnds
<1>2. main[h] = "done" => Dying(tomb'[h])
  BY KilledIsDying DEF ReaderEnds
<1>. QED
  BY <1>1, <1>2 DEF OverOK, Over

LEMMA HandlerWaits ==
  ASSUME Inv, WaitsOK, NEW h \in Channel, NEW parent, NEW gone,
         Steps(h, parent, gone), UNCHANGED serverVars
  PROVE  WaitsOK'
<1>. USE DEF Inv, TypeOK, EchoTypeOK
<1>1. DrainingOK'
  BY DEF WaitsOK, DrainingOK, serverVars
<1>2. CASE Read(h, gone)
  <2>1. UNCHANGED main
    BY <1>2 DEF Read
  <2>2. AnsweredOK'
    BY <2>1 DEF WaitsOK, AnsweredOK, serverVars
  <2>3. ASSUME reader' = [reader EXCEPT ![h] = "send"] /\ UNCHANGED tomb
        PROVE  OverOK'
    BY <2>1, <2>3 DEF WaitsOK, OverOK, Over
  <2>4. ASSUME ReaderEnds(h, "err") \/ ReaderEnds(h, "eof")
        PROVE  OverOK'
    BY <2>1, <2>4, ReaderEndsOver, ReasonsAreDying DEF WaitsOK
  <2>. QED  BY <1>1, <1>2, <2>2, <2>3, <2>4 DEF WaitsOK, Read
<1>3. CASE ReaderGivesUp(h, parent)
  <2>1. UNCHANGED main /\ ReaderEnds(h, "nil")
    BY <1>3 DEF ReaderGivesUp
  <2>2. AnsweredOK' /\ OverOK'
    BY <2>1, ReaderEndsOver, ReasonsAreDying DEF WaitsOK, AnsweredOK, serverVars
  <2>. QED  BY <1>1, <2>2 DEF WaitsOK
<1>4. CASE Echo(h)
  <2>1. /\ reader' = [reader EXCEPT ![h] = "read"] /\ UNCHANGED tomb
        /\ main' = [main EXCEPT ![h] = "done"] \/ UNCHANGED main
        /\ main[h] = "select"
    BY <1>4 DEF Echo
  <2>2. AnsweredOK' /\ OverOK'
    BY <2>1 DEF WaitsOK, AnsweredOK, OverOK, Over, serverVars
  <2>. QED  BY <1>1, <2>2 DEF WaitsOK
<1>5. CASE MainGivesUp(h, parent)
  <2>1. /\ main' = [main EXCEPT ![h] = "done"] /\ UNCHANGED reader
        /\ tomb' = [tomb EXCEPT ![h] = Killed(@, "nil")] /\ main[h] = "select"
    BY <1>5 DEF MainGivesUp
  <2>2. Dying(tomb'[h])
    BY <2>1, KilledIsDying, ReasonsAreDying
  <2>3. AnsweredOK' /\ OverOK'
    BY <2>1, <2>2 DEF WaitsOK, AnsweredOK, OverOK, Over, serverVars
  <2>. QED  BY <1>1, <2>3 DEF WaitsOK
<1>. QED  BY <1>2, <1>3, <1>4, <1>5 DEF Steps

LEMMA ConnectionWaits ==
  ASSUME Inv, WaitsOK, NEW c \in Conn,
         Serve(c) \/ Handshake(c) \/ HandshakeFails(c)
  PROVE  WaitsOK'
<1>. USE DEF Inv, TypeOK, EchoTypeOK, WaitsOK
<1>1. ASSUME Drain(c) PROVE DrainingOK'
  <2>1. Dying(tombs'[c])
    BY <1>1, KilledIsDying, ReasonsAreDying DEF Drain
  <2>. QED  BY <1>1, <2>1 DEF Drain, DrainingOK
<1>2. CASE Handshake(c) \/ HandshakeFails(c) \/ Finished(c)
  BY <1>2 DEF Handshake, HandshakeFails, Finished, Close, echoVars, DrainingOK,
     AnsweredOK, OverOK, Over
<1>3. CASE Undispatch(c)
  BY <1>1, <1>3 DEF Undispatch, echoVars, AnsweredOK, OverOK, Over
<1>4. ASSUME NEW h \in ChannelsOf(c), Reject(h) PROVE WaitsOK'
  <2>1. Drain(c) /\ request' = [request EXCEPT ![h] = "answered"]
        /\ UNCHANGED <<echoVars, handler>>
    BY <1>4 DEF Reject, ChannelsOf
  <2>. QED  BY <1>1, <2>1 DEF echoVars, AnsweredOK, OverOK, Over
<1>5. ASSUME NEW h \in ChannelsOf(c), Dispatch(h) PROVE WaitsOK'
  <2>1. h \in Channel /\ request' = [request EXCEPT ![h] = "answered"]
        /\ UNCHANGED <<conn, tombs, tomb>>
    BY <1>5 DEF Dispatch, ChannelsOf, Start, echoVars
  <2>2. CASE /\ handler' = [handler EXCEPT ![h] = "running"]
             /\ main' = [main EXCEPT ![h] = "select"]
             /\ reader' = [reader EXCEPT ![h] = "read"]
    BY <2>1, <2>2 DEF DrainingOK, AnsweredOK, OverOK, Over
  <2>3. CASE UNCHANGED <<main, reader, handler>>
    BY <2>1, <2>3 DEF DrainingOK, AnsweredOK, OverOK, Over
  <2>. QED  BY <1>5, <2>2, <2>3 DEF Dispatch, Start, echoVars
<1>. QED  BY <1>2, <1>3, <1>4, <1>5 DEF Serve

LEMMA NextWaits ==
  ASSUME Inv, WaitsOK, [Next]_vars
  PROVE  WaitsOK'
<1>. USE DEF Inv, TypeOK, EchoTypeOK, WaitsOK
<1>1. CASE UNCHANGED vars
  BY <1>1 DEF vars, echoVars, serverVars, DrainingOK, AnsweredOK, OverOK, Over
<1>2. CASE Client
  <2>1. UNCHANGED <<main, reader, tomb, handler, conn, tombs>>
    BY <1>2 DEF Client, Dial, HangUp, UseChannel, OpenChannel, Finish, Send, echoVars,
       serverVars
  <2>2. \A h \in Channel : request'[h] # "answered" => request[h] # "answered"
    BY <1>2 DEF Client, Dial, HangUp, UseChannel, OpenChannel, serverVars
  <2>. QED  BY <2>1, <2>2 DEF DrainingOK, AnsweredOK, OverOK, Over
<1>3. CASE Stop \/ Listen
  <2>1. UNCHANGED <<main, reader, tomb, handler, request, tombs>>
        /\ \A c \in Conn : conn'[c] = "draining" => conn[c] = "draining"
    BY <1>3 DEF Stop, Listen, Check, AcceptFails, Accept, echoVars
  <2>. QED  BY <2>1 DEF DrainingOK, AnsweredOK, OverOK, Over
<1>4. ASSUME NEW c \in Conn, Serve(c) \/ Handshake(c) \/ HandshakeFails(c)
      PROVE  WaitsOK'
  BY <1>4, ConnectionWaits
<1>5. ASSUME NEW h \in Channel, Return(h) PROVE WaitsOK'
  <2>1. /\ UNCHANGED <<main, reader, tomb, conn, request>>
        /\ handler' = [handler EXCEPT ![h] = "returned"]
        /\ tombs' = [tombs EXCEPT ![Owner[h]] = Killed(@, tomb[h])]
        /\ Dying(tomb[h]) /\ Owner[h] \in Conn /\ handler[h] = "running"
    BY <1>5 DEF Return, echoVars, OverOK
  <2>2. Dying(tombs'[Owner[h]])
    BY <2>1, KilledIsDying
  <2>. QED  BY <2>1, <2>2 DEF DrainingOK, AnsweredOK, OverOK, Over
<1>6. ASSUME NEW h \in Channel, Handle(h) PROVE WaitsOK'
  BY <1>5, <1>6, HandlerWaits DEF Handle
<1>. QED  BY <1>1, <1>2, <1>3, <1>4, <1>6 DEF Next

LEMMA WaitsAlways == Spec => []WaitsOK
<1>1. Init => WaitsOK
  BY DEF Init, EchoInit, WaitsOK, DrainingOK, AnsweredOK, OverOK, Over
<1>. QED  BY <1>1, InvHolds, NextWaits, PTL DEF Spec

\* A connection whose client is gone is served, or one of its handlers can run: a
\* reader that offers a message and a main goroutine that selects see the tomb of
\* the drained connection, and a reader that reads sees the end of the channel.
THEOREM NobodyWaitsInACircle == Spec => []NobodyIsStuck
<1>1. Inv /\ WaitsOK => NobodyIsStuck
  <2>. SUFFICES ASSUME Inv, WaitsOK, NEW c \in Conn, Lingers(c), ~ Lost(c),
                       ~ CanServe(c)
                PROVE  \E h \in ChannelsOf(c) : CanHandle(h)
    BY DEF NobodyIsStuck
  <2>1. conn[c] = "draining" /\ Gone(c)
    BY DEF Inv, TypeOK, Lingers, Lost, CanServe
  <2>2. PICK h \in ChannelsOf(c) : handler[h] = "running"
    BY <2>1 DEF CanServe
  <2>3. h \in Channel /\ Owner[h] = c /\ ~ copied[h] /\ Dying(tombs[c])
    BY <2>1, <2>2 DEF ChannelsOf, Lost, WaitsOK, DrainingOK
  <2>4. main[h] \in {"select", "done"} /\ reader[h] \in {"read", "send", "done"}
    BY <2>2, <2>3 DEF Inv, TypeOK, EchoTypeOK, OrderOK, WaitsOK, AnsweredOK
  <2>. QED  BY <2>1, <2>2, <2>3, <2>4 DEF CanHandle, Over
<1>. QED  BY <1>1, InvHolds, WaitsAlways, PTL

-----------------------------------------------------------------------------
(* The server's work runs out. *)

\* What is left of a channel, but for the answer to its request.
RunLeft(h) ==
  2 * Len(inbox[h]) + One(reader[h] = "send") + One(reader[h] # "done")
    + One(main[h] # "done") + One(handler[h] # "returned")

LEMMA LeftIsNatural ==
  ASSUME Inv, NEW h \in Channel
  PROVE  RunLeft(h) \in Nat /\ ChannelLeft(h) = RunLeft(h) + One(request[h] # "answered")
<1>. DEFINE twice == 2 * Len(inbox[h])
            one == One(reader[h] = "send")
            two == One(reader[h] # "done")
            three == One(main[h] # "done")
            four == One(handler[h] # "returned")
<1>1. twice \in Nat
  <2>. DEFINE n == Len(inbox[h])
  <2>1. n \in Nat
    BY DEF Inv, TypeOK, EchoTypeOK
  <2>. HIDE DEF n
  <2>2. 2 * n \in Nat
    BY <2>1
  <2>. QED  BY <2>2 DEF n
<1>2. {one, two, three, four} \subseteq Nat
  BY DEF One
<1>3. /\ RunLeft(h) = twice + one + two + three + four
      /\ ChannelLeft(h) = RunLeft(h) + One(request[h] # "answered")
  BY DEF RunLeft, ChannelLeft
<1>. HIDE DEF twice, one, two, three, four
<1>4. twice + one + two + three + four \in Nat
  BY <1>1, <1>2
<1>. QED  BY <1>3, <1>4

LEMMA HandleRunsDown ==
  ASSUME Inv, NEW h \in Channel, Handle(h)
  PROVE  /\ ChannelLeft(h)' < ChannelLeft(h)
         /\ \A g \in Channel : ChannelLeft(g)' <= ChannelLeft(g)
         /\ UNCHANGED <<conn, stopping, listener>>
<1>. USE DEF Inv, TypeOK, EchoTypeOK
<1>1. UNCHANGED <<conn, stopping, listener, request>>
  BY DEF Handle, Return, serverVars
<1>2. /\ \A g \in Channel \ {h} :
           /\ inbox'[g] = inbox[g] /\ reader'[g] = reader[g]
           /\ main'[g] = main[g] /\ handler'[g] = handler[g]
  BY DEF Handle, Return, serverVars, echoVars, Steps, Read, ReaderGivesUp, Echo,
     MainGivesUp, ReaderEnds
<1>3. ASSUME NEW g \in Channel \ {h} PROVE ChannelLeft(g)' <= ChannelLeft(g)
  <2>1. ChannelLeft(g)' = ChannelLeft(g)
    BY <1>1, <1>2 DEF ChannelLeft
  <2>2. RunLeft(g) \in Nat /\ ChannelLeft(g) = RunLeft(g) + One(request[g] # "answered")
    BY LeftIsNatural
  <2>. QED  BY <2>1, <2>2 DEF One
<1>4. Len(inbox[h]) \in Nat
  OBVIOUS
<1>5. CASE Return(h)
  <2>1. handler'[h] = "returned" /\ handler[h] = "running" /\ UNCHANGED <<inbox, reader, main>>
    BY <1>5 DEF Return, echoVars
  <2>. QED  BY <1>1, <1>3, <1>4, <2>1 DEF ChannelLeft, One
<1>6. CASE inbox[h] # <<>> /\ reader[h] = "read" /\ Steps(h, tombs[Owner[h]], Gone(Owner[h]))
           /\ UNCHANGED serverVars /\ Read(h, Gone(Owner[h]))
  <2>1. Len(inbox'[h]) + 1 = Len(inbox[h]) /\ Len(inbox'[h]) \in Nat
    BY <1>6, TailFacts DEF Read
  <2>2. UNCHANGED <<main, handler>> /\ reader'[h] \in {"send", "done"}
    BY <1>6 DEF Read, ReaderEnds, serverVars
  <2>. DEFINE n == Len(inbox[h])
              n1 == Len(inbox'[h])
              others == One(main[h] # "done") + One(handler[h] # "returned")
                          + One(request[h] # "answered")
              reads1 == One(reader'[h] = "send") + One(reader'[h] # "done")
  <2>3. others \in Nat /\ reads1 \in 0..2 /\ n \in Nat /\ n1 \in Nat /\ n = n1 + 1
    BY <1>4, <2>1 DEF One
  <2>4. ChannelLeft(h) = 2 * n + 1 + others
    <3>1. One(reader[h] = "send") = 0 /\ One(reader[h] # "done") = 1
      BY <1>6 DEF One
    <3>2. 2 * n \in Nat
      BY <2>3
    <3>. HIDE DEF n
    <3>. QED  BY <3>1, <3>2 DEF ChannelLeft, n, One
  <2>5. ChannelLeft(h)' = 2 * n1 + reads1 + others
    <3>. DEFINE sends == One(reader'[h] = "send")
                ends == One(reader'[h] # "done")
                twice == 2 * n1
    <3>1. /\ main'[h] = main[h] /\ handler'[h] = handler[h]
          /\ request'[h] = request[h]
      BY <1>1, <2>2
    <3>2. sends \in Nat /\ ends \in Nat /\ twice \in Nat
      BY <2>3 DEF One
    <3>3. /\ One(main[h] # "done") \in Nat /\ One(handler[h] # "returned") \in Nat
          /\ One(request[h] # "answered") \in Nat
      BY DEF One
    <3>4. ChannelLeft(h)' = twice + sends + ends + One(main[h] # "done")
              + One(handler[h] # "returned") + One(request[h] # "answered")
      BY <3>1 DEF ChannelLeft
    <3>. HIDE DEF sends, ends, twice
    <3>5. ChannelLeft(h)' = twice + (sends + ends) + others
      BY <3>2, <3>3, <3>4
    <3>. QED  BY <3>5 DEF sends, ends, twice
  <2>. HIDE DEF n, n1, others, reads1
  <2>6. /\ 2 * n1 + reads1 + others < 2 * n + 1 + others
        /\ 2 * n1 + reads1 + others <= 2 * n + 1 + others
    BY <2>3
  <2>. QED  BY <1>1, <1>3, <2>4, <2>5, <2>6
<1>7. CASE UNCHANGED serverVars /\ UNCHANGED inbox /\ Steps(h, tombs[Owner[h]], Gone(Owner[h]))
  <2>1. /\ UNCHANGED handler
        /\ \/ reader[h] \in {"read", "send"} /\ reader'[h] = "done" /\ main'[h] = main[h]
           \/ /\ reader[h] = "send" /\ reader'[h] = "read"
              /\ main'[h] = main[h] \/ (main'[h] = "done" /\ main[h] = "select")
           \/ main[h] = "select" /\ main'[h] = "done" /\ reader'[h] = reader[h]
    BY <1>7 DEF Steps, Read, ReaderGivesUp, Echo, MainGivesUp, ReaderEnds, serverVars
  <2>. QED  BY <1>1, <1>3, <1>4, <1>7, <2>1 DEF ChannelLeft, One
<1>8. \/ Return(h)
      \/ /\ inbox[h] # <<>> /\ reader[h] = "read" /\ Read(h, Gone(Owner[h]))
         /\ Steps(h, tombs[Owner[h]], Gone(Owner[h])) /\ UNCHANGED serverVars
      \/ /\ UNCHANGED serverVars /\ UNCHANGED inbox
         /\ Steps(h, tombs[Owner[h]], Gone(Owner[h]))
  BY DEF Handle, Steps, Read, ReaderGivesUp, Echo, MainGivesUp
<1>. QED  BY <1>5, <1>6, <1>7, <1>8

\* A channel whose goroutines stay as they are, or start.
LEMMA ChannelStays ==
  ASSUME Inv, NEW h \in Channel,
         inbox'[h] = inbox[h], main[h] # "done" <=> main'[h] # "done",
         reader'[h] = reader[h] \/ {reader[h], reader'[h]} \subseteq {"none", "read"},
         handler[h] # "returned" <=> handler'[h] # "returned"
  PROVE  /\ (request'[h] # "answered" <=> request[h] # "answered")
              => ChannelLeft(h)' = ChannelLeft(h)
         /\ (request'[h] # "answered" => request[h] # "answered")
              => ChannelLeft(h)' <= ChannelLeft(h)
         /\ request[h] # "answered" /\ request'[h] = "answered"
              => ChannelLeft(h)' < ChannelLeft(h)
<1>1. ChannelLeft(h)' = RunLeft(h) + One(request'[h] # "answered")
  <2>1. /\ One(reader'[h] = "send") = One(reader[h] = "send")
        /\ One(reader'[h] # "done") = One(reader[h] # "done")
        /\ One(main'[h] # "done") = One(main[h] # "done")
        /\ One(handler'[h] # "returned") = One(handler[h] # "returned")
    BY DEF One
  <2>. QED  BY <2>1 DEF ChannelLeft, RunLeft
<1>2. RunLeft(h) \in Nat /\ ChannelLeft(h) = RunLeft(h) + One(request[h] # "answered")
  BY LeftIsNatural
<1>. HIDE DEF RunLeft, ChannelLeft
<1>. QED  BY <1>1, <1>2 DEF One

\* A step of the dispatcher advances its connection or answers a channel.
LEMMA ServeRunsDown ==
  ASSUME Inv, WaitsOK, NEW c \in Conn, Serve(c)
  PROVE  /\ \/ ConnLeft(c)' < ConnLeft(c)
            \/ \E h \in ChannelsOf(c) : ChannelLeft(h)' < ChannelLeft(h)
         /\ \A d \in Conn : ConnLeft(d)' <= ConnLeft(d)
         /\ \A h \in Channel : ChannelLeft(h)' <= ChannelLeft(h)
<1>1. \A h \in Channel : ChannelLeft(h) \in Nat
  <2>. SUFFICES ASSUME NEW h \in Channel PROVE ChannelLeft(h) \in Nat
    OBVIOUS
  <2>1. RunLeft(h) \in Nat /\ ChannelLeft(h) = RunLeft(h) + One(request[h] # "answered")
    BY LeftIsNatural
  <2>. QED  BY <2>1 DEF One
<1>. USE DEF Inv, TypeOK, EchoTypeOK
<1>2. ASSUME UNCHANGED <<echoVars, handler, request>>
      PROVE  \A h \in Channel : ChannelLeft(h)' <= ChannelLeft(h)
  BY <1>1, <1>2, ChannelStays DEF echoVars
<1>3. CASE Finished(c) \/ HandshakeFails(c) \/ Undispatch(c)
  <2>1. UNCHANGED <<echoVars, handler, request>>
    BY <1>3 DEF Finished, HandshakeFails, Undispatch, Close
  <2>2. /\ \A d \in Conn \ {c} : conn'[d] = conn[d]
        /\ \/ conn[c] \in {"handshake", "draining"} /\ conn'[c] = "closed"
           \/ conn[c] = "serving" /\ conn'[c] = "draining"
    BY <1>3 DEF Finished, HandshakeFails, Undispatch, Close, Drain
  <2>. QED  BY <1>2, <2>1, <2>2 DEF ConnLeft, One
<1>4. ASSUME NEW h \in ChannelsOf(c), Reject(h) \/ Dispatch(h)
      PROVE  /\ ChannelLeft(h)' < ChannelLeft(h)
             /\ \A d \in Conn : ConnLeft(d)' <= ConnLeft(d)
             /\ \A g \in Channel : ChannelLeft(g)' <= ChannelLeft(g)
  <2>1. h \in Channel /\ Owner[h] = c
    BY DEF ChannelsOf
  <2>2. /\ request[h] # "answered" /\ request' = [request EXCEPT ![h] = "answered"]
        /\ UNCHANGED inbox
    BY <1>4 DEF Reject, Dispatch, Start, echoVars
  <2>3. main[h] = "none" /\ reader[h] = "none" /\ handler[h] = "none"
    BY <2>1, <2>2 DEF WaitsOK, AnsweredOK, OrderOK
  <2>4. \A g \in Channel :
          /\ main[g] # "done" <=> main'[g] # "done"
          /\ reader'[g] = reader[g] \/ {reader[g], reader'[g]} \subseteq {"none", "read"}
          /\ handler[g] # "returned" <=> handler'[g] # "returned"
    BY <1>4, <2>1, <2>3 DEF Reject, Drain, Dispatch, Start, echoVars
  <2>5. \A d \in Conn : \/ conn'[d] = conn[d]
                        \/ conn[d] = "serving" /\ conn'[d] = "draining"
    <3>1. CASE Reject(h)
      <4>1. conn[c] = "serving" /\ conn' = [conn EXCEPT ![c] = "draining"]
        BY <2>1, <3>1 DEF Reject, Drain
      <4>. QED  BY <4>1
    <3>2. CASE Dispatch(h)
      BY <3>2 DEF Dispatch
    <3>. QED  BY <1>4, <3>1, <3>2
  <2>6. \A d \in Conn : ConnLeft(d)' <= ConnLeft(d)
    BY <2>5 DEF ConnLeft, One
  <2>7. ChannelLeft(h)' < ChannelLeft(h)
    BY <2>1, <2>2, <2>4, ChannelStays
  <2>8. ASSUME NEW g \in Channel PROVE ChannelLeft(g)' <= ChannelLeft(g)
    <3>1. /\ inbox'[g] = inbox[g]
          /\ request'[g] # "answered" => request[g] # "answered"
      BY <2>2
    <3>. QED  BY <2>4, <3>1, ChannelStays
  <2>. QED  BY <2>6, <2>7, <2>8
<1>. QED  BY <1>3, <1>4 DEF Serve

\* Everybody else leaves the work as it is, but for a client that sends.
LEMMA OthersAddNothing ==
  ASSUME Inv, Client \/ Stop \/ Listen \/ UNCHANGED vars
              \/ \E c \in Conn : Handshake(c) \/ HandshakeFails(c)
  PROVE  /\ \A h \in Channel : Gone(Owner[h]) => ChannelLeft(h)' <= ChannelLeft(h)
         /\ \A c \in Conn : ConnLeft(c)' <= ConnLeft(c)
<1>1. \A c \in Conn :
        \/ conn'[c] = conn[c]
        \/ conn[c] = "none" /\ conn'[c] = "handshake"
        \/ conn[c] = "handshake" /\ conn'[c] \in {"serving", "closed"}
  BY DEF Inv, TypeOK, Client, Dial, HangUp, UseChannel, OpenChannel, Stop, Listen,
     Check, AcceptFails, Accept, Handshake, HandshakeFails, Close, vars, serverVars
<1>2. \A c \in Conn : ConnLeft(c)' <= ConnLeft(c)
  BY <1>1 DEF ConnLeft, One
<1>3. ASSUME NEW h \in Channel, Gone(Owner[h])
      PROVE  ChannelLeft(h)' <= ChannelLeft(h)
  <2>1. CASE \E g \in Channel : UseChannel(g)
    <3>1. /\ inbox'[h] = inbox[h] /\ request'[h] = request[h]
          /\ main'[h] = main[h] /\ reader'[h] = reader[h] /\ handler'[h] = handler[h]
      BY <1>3, <2>1 DEF Inv, TypeOK, EchoTypeOK, UseChannel, Finish, Send, Gone, serverVars
    <3>. QED  BY <3>1, ChannelStays
  <2>2. CASE \E g \in Channel : \E type \in {"known", "unknown"} : OpenChannel(g, type)
    <3>1. /\ inbox'[h] = inbox[h]
          /\ request'[h] # "answered" <=> request[h] # "answered"
          /\ main'[h] = main[h] /\ reader'[h] = reader[h] /\ handler'[h] = handler[h]
      BY <2>2 DEF Inv, TypeOK, OpenChannel, echoVars
    <3>. QED  BY <3>1, ChannelStays
  <2>3. CASE UNCHANGED <<inbox, main, reader, handler, request>>
    BY <2>3, ChannelStays
  <2>. QED
    BY <2>1, <2>2, <2>3
       DEF Client, Dial, HangUp, Stop, Listen, Check, AcceptFails, Accept, Handshake,
           HandshakeFails, Close, vars, serverVars, echoVars
<1>. QED  BY <1>2, <1>3

\* Whatever the clients do, each step of the server has one step less to follow:
\* so many are enough to close a connection whose client is gone, and to end listen.
THEOREM TheServersWorkRunsOut == Spec => WorkRunsOut
<1>1. ASSUME Inv, WaitsOK, [Next]_vars
      PROVE  /\ \A h \in Channel :
                  /\ Handle(h) => ChannelLeft(h)' < ChannelLeft(h)
                  /\ Gone(Owner[h]) => ChannelLeft(h)' <= ChannelLeft(h)
             /\ \A c \in Conn :
                  /\ Serve(c) => \/ ConnLeft(c)' < ConnLeft(c)
                                 \/ \E h \in ChannelsOf(c) :
                                      ChannelLeft(h)' < ChannelLeft(h)
                  /\ ConnLeft(c)' <= ConnLeft(c)
             /\ stopping /\ Listen => ListenLeft' < ListenLeft
  <2>1. stopping /\ Listen => ListenLeft' < ListenLeft
    <3>1. stopping /\ Listen =>
            \/ listener = "check" /\ listener' = "done"
            \/ listener = "accept" /\ listener' = "check"
      BY DEF Listen, Check, AcceptFails, Accept
    <3>. QED  BY <3>1 DEF ListenLeft, One
  <2>2. /\ \A h \in Channel : Gone(Owner[h]) => ChannelLeft(h)' <= ChannelLeft(h)
        /\ \A c \in Conn : ConnLeft(c)' <= ConnLeft(c)
    <3>1. ASSUME NEW h \in Channel, Handle(h)
          PROVE  /\ \A g \in Channel : ChannelLeft(g)' <= ChannelLeft(g)
                 /\ \A c \in Conn : ConnLeft(c)' <= ConnLeft(c)
      <4>1. UNCHANGED conn /\ \A g \in Channel : ChannelLeft(g)' <= ChannelLeft(g)
        BY <1>1, <3>1, HandleRunsDown
      <4>2. \A c \in Conn : ConnLeft(c)' <= ConnLeft(c)
        BY <4>1 DEF ConnLeft, One
      <4>. QED  BY <4>1, <4>2
    <3>2. ASSUME NEW c \in Conn, Serve(c)
          PROVE  /\ \A g \in Channel : ChannelLeft(g)' <= ChannelLeft(g)
                 /\ \A d \in Conn : ConnLeft(d)' <= ConnLeft(d)
      BY <1>1, <3>2, ServeRunsDown
    <3>. QED  BY <1>1, <3>1, <3>2, OthersAddNothing DEF Next
  <2>. QED  BY <1>1, <2>1, <2>2, HandleRunsDown, ServeRunsDown
<1>. QED  BY <1>1, InvHolds, WaitsAlways, PTL DEF Spec, WorkRunsOut
=============================================================================
