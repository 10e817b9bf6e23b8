-------------------------------- MODULE Lexer --------------------------------
(***************************************************************************)
(* The scanner of eliquious/lexer, which cuts runes into tokens, as far as *)
(* the SKL parser tells tokens apart.  The source of runes is chosen while *)
(* it is read.                                                             *)
(*                                                                         *)
(* A rune of the model is a rune, or stands for the letters of a keyword,  *)
(* which the scanner reads alike. The scanner's eof is the rune 0, so it   *)
(* takes a NUL in the source for the end of it, and reads on behind it     *)
(* when it is asked for more. Positions, the text of tokens other than     *)
(* identifiers, carriage returns and the second rune of the operators and  *)
(* of the unit ms are left out: the parser gives up at such a token.       *)
(***************************************************************************)
EXTENDS UnreadRing, Sequences

CONSTANTS
  Rune,      \* the runes that may come
  Letter,    \* letters and the underscore
  Digit,
  Keyword    \* letters that are a keyword when they stand alone

ASSUME RuneAssumption ==
  /\ Letter \cup Digit \subseteq Rune /\ Keyword \subseteq Letter
  /\ (Letter \cup Digit) \cap
       {" ", "nl", ".", "quote", "tick", "\\", "+", "nul", "eof"} = {}
  /\ Letter \cap Digit = {} /\ "eof" \notin Rune
  /\ Keyword \cap {"EOF", "WS", "IDENT", "DOT", "OTHER"} = {}

VARIABLES
  source,   \* the runes read from the source so far
  runes,    \* the reader's ring
  lex       \* the scanner: where it is, the identifier or string so far, the
            \* first rune of what it scans, whether in an identifier, and the
            \* token it returns

lexVars == <<source, runes, lex>>

IdentChar == Letter \cup Digit
Blank == {" ", "nl"}
Eof == {"eof", "nul"}     \* what the scanner takes for the end of the source
Token == Keyword \cup {"EOF", "WS", "IDENT", "DOT", "OTHER"}

Places == {"scan", "white", "ident", "identEof", "string", "escape", "dot", "sign",
           "sign2", "digits", "fraction", "decimals", "returned"}

LexTypeOK ==
  /\ source \in Seq(Rune \cup {"eof"})
  /\ runes \in Rings(Rune \cup {"eof"})
  /\ lex \in [at : Places, lit : Seq(Rune), first : Rune \cup {"eof"},
              ident : BOOLEAN, tok : Token]

Scanning == [at |-> "scan", lit |-> <<>>, first |-> "eof", ident |-> FALSE,
             tok |-> "OTHER"]

LexInit ==
  /\ source = <<>>
  /\ runes = EmptyRing("eof")
  /\ lex = Scanning

-----------------------------------------------------------------------------
(* Reading. *)

\* The source has ended: it gives nothing else any more.
Ended == source # <<>> /\ source[Len(source)] = "eof"

\* reader.read: ch is read, from the ring or from the source, and the last
\* back runes are unread.  The end of the source is kept once in source.
ReadRune(ch, back) ==
  \/ /\ runes.n > 0
     /\ ch = Curr(Reread(runes))
     /\ runes' = Unread(Reread(runes), back)
     /\ UNCHANGED source
  \/ /\ runes.n = 0
     /\ Ended => ch = "eof"
     /\ runes' = Unread(Stored(runes, ch), back)
     /\ source' = IF Ended THEN source ELSE Append(source, ch)

Goto(place) == lex' = [lex EXCEPT !.at = place]

Returns(tok, lit) ==
  lex' = [lex EXCEPT !.at = "returned", !.tok = tok, !.lit = lit]

Lookup(lit) ==
  IF Len(lit) = 1 /\ lit[1] \in Keyword THEN lit[1] ELSE "IDENT"

-----------------------------------------------------------------------------
(* Scanner.Scan: one action for each rune that is read. *)

\* The first rune decides.
Scan(ch) ==
  /\ lex.at = "scan"
  /\ \/ ch \in Blank /\ ReadRune(ch, 0) /\ Goto("white")
     \/ ch \in Letter \cup {"quote"} /\ ReadRune(ch, 1)
        /\ lex' = [lex EXCEPT !.at = "ident", !.ident = TRUE]
     \/ ch \in Digit /\ ReadRune(ch, 1) /\ Goto("digits")
     \/ ch \in Eof /\ ReadRune(ch, 0) /\ Returns("EOF", <<>>)
     \/ ch = "tick" /\ ReadRune(ch, 0)
        /\ lex' = [lex EXCEPT !.at = "string", !.first = ch]
     \/ ch = "." /\ ReadRune(ch, 0) /\ Goto("dot")
     \/ ch = "+" /\ ReadRune(ch, 0) /\ Goto("sign")
     \/ /\ ch \notin Blank \cup IdentChar \cup Eof \cup {"quote", "tick", ".", "+"}
        /\ ReadRune(ch, 0) /\ Returns("OTHER", <<>>)

\* scanWhitespace: the end of the source is not unread.
White(ch) ==
  /\ lex.at = "white"
  /\ \/ ch \in Blank /\ ReadRune(ch, 0) /\ UNCHANGED lex
     \/ ch \in Eof /\ ReadRune(ch, 0) /\ Returns("WS", <<>>)
     \/ ch \notin Blank \cup Eof /\ ReadRune(ch, 1) /\ Returns("WS", <<>>)

\* scanIdent and ScanBareIdent: a quote starts a string, which becomes the
\* whole identifier whatever came before it.  An end met by ScanBareIdent is not
\* unread, and scanIdent reads on: the identifier ends where it meets another,
\* so after a NUL it goes on.
Ident(ch) ==
  /\ lex.at \in {"ident", "identEof"}
  /\ \/ ch \in IdentChar /\ ReadRune(ch, 0)
        /\ lex' = [lex EXCEPT !.at = "ident", !.lit = Append(@, ch)]
     \/ ch = "quote" /\ ReadRune(ch, 0)
        /\ lex' = [lex EXCEPT !.at = "string", !.first = ch, !.lit = <<>>]
     \/ lex.at = "ident" /\ ch \in Eof /\ ReadRune(ch, 0) /\ Goto("identEof")
     \/ lex.at = "identEof" /\ ch \in Eof /\ ReadRune(ch, 0)
        /\ Returns(Lookup(lex.lit), lex.lit)
     \/ /\ ch \notin IdentChar \cup Eof \cup {"quote"}
        /\ ReadRune(ch, 1) /\ Returns(Lookup(lex.lit), lex.lit)

\* ScanString: up to the rune it began with.
String(ch) ==
  /\ lex.at = "string"
  /\ ReadRune(ch, 0)
  /\ \/ ch = lex.first /\ Returns(IF lex.ident THEN "IDENT" ELSE "OTHER", lex.lit)
     \/ ch \in Eof \cup {"nl"} /\ Returns("OTHER", <<>>)
     \/ ch = "\\" /\ Goto("escape")
     \/ /\ ch \notin Eof \cup {lex.first, "nl", "\\"}
        /\ lex' = [lex EXCEPT !.lit = Append(@, ch)]

Escape(ch) ==
  /\ lex.at = "escape"
  /\ ReadRune(ch, 0)
  /\ IF ch \in {"\\", "quote", "tick"}
       THEN lex' = [lex EXCEPT !.at = "string", !.lit = Append(@, ch)]
       ELSE Returns("OTHER", <<>>)

\* A period before a digit begins a number, and is read again.
Dot(ch) ==
  /\ lex.at = "dot"
  /\ \/ ch \in Digit /\ ReadRune(ch, 2) /\ Goto("digits")
     \/ ch \notin Digit /\ ReadRune(ch, 1) /\ Returns("DOT", <<>>)

\* scanNumber: the two runes after a sign are looked at and unread.
Sign(ch) ==
  \/ /\ lex.at = "sign"
     /\ ReadRune(ch, 0)
     /\ lex' = [lex EXCEPT !.at = "sign2", !.first = ch]
  \/ /\ lex.at = "sign2"
     /\ ReadRune(ch, 2)
     /\ IF lex.first \in Digit \/ (lex.first = "." /\ ch \in Digit)
          THEN Goto("digits") ELSE Returns("OTHER", <<>>)

\* scanNumber and scanDigits: a letter may be the unit of a duration, which is
\* taken, or not, which is unread.
Digits(ch) ==
  \/ /\ lex.at \in {"digits", "decimals"}
     /\ ch \in Digit /\ ReadRune(ch, 0) /\ UNCHANGED lex
  \/ lex.at = "digits" /\ ch = "." /\ ReadRune(ch, 0) /\ Goto("fraction")
  \/ /\ lex.at = "digits" /\ ch \notin Digit \cup {"."}
     /\ \/ ReadRune(ch, 1)
        \/ ch \in Letter /\ ReadRune(ch, 0)
     /\ Returns("OTHER", <<>>)
  \/ lex.at = "fraction" /\ ch \in Digit /\ ReadRune(ch, 0) /\ Goto("decimals")
  \/ /\ lex.at = "fraction" /\ ch \notin Digit
     /\ ReadRune(ch, 2) /\ Returns("OTHER", <<>>)
  \/ /\ lex.at = "decimals" /\ ch \notin Digit
     /\ ReadRune(ch, 1) /\ Returns("OTHER", <<>>)

Lex ==
  \E ch \in Rune \cup {"eof"} :
    \/ Scan(ch) \/ White(ch) \/ Ident(ch) \/ String(ch) \/ Escape(ch)
    \/ Dot(ch) \/ Sign(ch) \/ Digits(ch)
=============================================================================
