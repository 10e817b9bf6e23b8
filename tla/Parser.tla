-------------------------------- MODULE Parser --------------------------------
(***************************************************************************)
(* skl.ParseStatement: the parser over the lexer's tokens.                 *)
(***************************************************************************)
EXTENDS Lexer

CONSTANT MaxRunes   \* bound on a line, beyond the words already parsed
ASSUME BoundAssumption == MaxRunes \in Nat

VARIABLES
  tokens,   \* bufScanner's ring
  parse     \* the parser: what it expects next, whether it skipped blanks,
            \* the statement so far, and whether a period came last

parserVars == <<lexVars, tokens, parse>>

Nothing == [tok |-> "OTHER", lit |-> <<>>]

ParserTypeOK ==
  /\ LexTypeOK
  /\ tokens \in Rings([tok : Token, lit : Seq(Rune)])
  /\ parse \in [at : {"first", "second", "name", "rest", "ok", "error"},
                blank : BOOLEAN,
                op : {"none", "use", "create", "drop", "show"},
                name : Seq(Rune), endPeriod : BOOLEAN]

ParserInit ==
  /\ LexInit
  /\ tokens = EmptyRing(Nothing)
  /\ parse = [at |-> "first", blank |-> FALSE, op |-> "none", name |-> <<>>,
              endPeriod |-> FALSE]

Done == parse.at \in {"ok", "error"}

-----------------------------------------------------------------------------
(* One action for each token the parser takes; then it scans the next one. *)

Got(tok) == lex.at = "returned" /\ lex.tok = tok

\* scanFunc stores the token the lexer returned.
Take ==
  /\ tokens' = Stored(tokens, [tok |-> lex.tok, lit |-> lex.lit])
  /\ lex' = Scanning
  /\ UNCHANGED <<source, runes>>

Expect(place) == parse' = [parse EXCEPT !.at = place, !.blank = FALSE]

\* scanIgnoreWhitespace skips one token of blanks.
SkipBlank ==
  /\ parse.at \in {"first", "second", "name"} /\ ~ parse.blank
  /\ Got("WS") /\ Take
  /\ parse' = [parse EXCEPT !.blank = TRUE]

ParseStatement ==
  /\ parse.at = "first"
  /\ \E op \in {"use", "create", "drop", "show"} :
       /\ Got(op) /\ Take
       /\ parse' = [parse EXCEPT !.at = IF op = "use" THEN "name" ELSE "second",
                                 !.blank = FALSE, !.op = op]

ParseKind ==
  /\ parse.at = "second"
  /\ \/ parse.op # "show" /\ Got("namespace") /\ Take /\ Expect("name")
     \/ parse.op = "show" /\ Got("namespaces") /\ Take /\ Expect("ok")

\* Mutant of ParseNamespace: endPeriod is not reset.
NamespaceKeepsPeriod ==
  \/ /\ parse.at = "name" /\ Got("IDENT") /\ Take
     /\ parse' = [parse EXCEPT !.at = "rest", !.name = lex.lit]
  \/ /\ parse.at = "rest" /\ Got("DOT") /\ Take
     /\ parse' = [parse EXCEPT !.name = Append(@, "."), !.endPeriod = TRUE]
  \/ /\ parse.at = "rest" /\ Got("IDENT") /\ Take
     /\ parse' = [parse EXCEPT !.name = @ \o lex.lit]

\* parseNamespace: an identifier, then identifiers and periods in any order.
ParseNamespace ==
  \/ /\ parse.at = "name" /\ Got("IDENT") /\ Take
     /\ parse' = [parse EXCEPT !.at = "rest", !.name = lex.lit]
  \/ /\ parse.at = "rest" /\ Got("DOT") /\ Take
     /\ parse' = [parse EXCEPT !.name = Append(@, "."), !.endPeriod = TRUE]
  \/ /\ parse.at = "rest" /\ Got("IDENT") /\ Take
     /\ parse' = [parse EXCEPT !.name = @ \o lex.lit, !.endPeriod = FALSE]

\* Mutant of EndNamespace: the loop leaves with the name whatever came last.
EndAnywhere ==
  /\ parse.at = "rest" /\ lex.at = "returned" /\ lex.tok \notin {"DOT", "IDENT"}
  /\ tokens' = Unread(Stored(tokens, [tok |-> lex.tok, lit |-> lex.lit]), 1)
  /\ lex' = Scanning
  /\ parse' = [parse EXCEPT !.at = "ok"]
  /\ UNCHANGED <<source, runes>>

\* The loop's last token is unscanned; a name must not end on a period.
EndNamespace ==
  /\ parse.at = "rest" /\ lex.at = "returned" /\ lex.tok \notin {"DOT", "IDENT"}
  /\ tokens' = Unread(Stored(tokens, [tok |-> lex.tok, lit |-> lex.lit]), 1)
  /\ lex' = Scanning
  /\ parse' = [parse EXCEPT !.at = IF parse.endPeriod THEN "error" ELSE "ok"]
  /\ UNCHANGED <<source, runes>>

\* newParseError: a token that nothing above expects.
Expected ==
  CASE parse.at = "first" -> {"use", "create", "drop", "show"}
    [] parse.at = "second" ->
         IF parse.op = "show" THEN {"namespaces"} ELSE {"namespace"}
    [] parse.at = "name" -> {"IDENT"}

Fail ==
  /\ parse.at \in {"first", "second", "name"} /\ lex.at = "returned"
  /\ lex.tok \notin Expected
  /\ lex.tok = "WS" => parse.blank
  /\ Take /\ Expect("error")

Parse ==
  \/ SkipBlank \/ ParseStatement \/ ParseKind \/ ParseNamespace
  \/ EndNamespace \/ Fail

\* The line may go on: each word before counts for itself and a blank.
Room ==
  Len(source) < MaxRunes + CASE parse.at = "first" -> 0
                             [] parse.at = "second" \/ parse.op = "use" -> 2
                             [] OTHER -> 4

ParserNext ==
  \/ /\ ~ Done /\ Lex
     /\ source' = source \/ Room \/ source'[Len(source')] = "eof"
     /\ UNCHANGED <<tokens, parse>>
  \/ Parse

\* One goroutine reads, scans and parses.
ParserSpec == ParserInit /\ [][ParserNext]_parserVars /\ WF_parserVars(ParserNext)

-----------------------------------------------------------------------------
(* Properties. *)

\* Three slots are enough: no rune or token is unread after its slot was taken
\* by a later one, so what is read again is what was read (the unreads of
\* scanNumber and of the period before a digit, two runes deep).
UnreadRunesAreKept ==
  /\ runes.n < Slots /\ tokens.n < Slots
  /\ \A k \in 0..runes.n :
       k < Len(source) /\ ~ Ended
         => At(runes, k) = source[Len(source) - k]

\* No quotes, which could put anything into an identifier, and no NULs, which an
\* identifier goes on after: USE a\0b names ab.
Bare == \A i \in DOMAIN source : source[i] \notin {"quote", "tick", "\\", "nul"}

\* The words before a place are those that introduce a name.
Introduced(i) ==
  LET before == {k \in 1..(i - 1) : source[k] \notin Blank} IN
  \E k \in before :
    /\ source[k] = parse.op
    /\ \/ parse.op = "use" /\ before = {k}
       \/ parse.op # "use" /\ \E l \in before :
            k < l /\ source[l] = "namespace" /\ before = {k, l}

\* A name accepted from a line without quotes and NULs is a piece of it, right
\* after the words that introduce it: it begins with a letter, ends with no
\* period and inside no identifier (scanIdent, Dot, parseNamespace).
BareNamesAreVerbatim ==
  parse.at = "ok" /\ Bare /\ parse.op # "show" =>
    /\ parse.name[1] \in Letter
    /\ parse.name[Len(parse.name)] # "."
    /\ \E i \in 3..Len(source) :
         LET after == i + Len(parse.name)
         IN  /\ after <= Len(source)
             /\ source[i - 1] \in Blank
             /\ Introduced(i)
             /\ SubSeq(source, i, after - 1) = parse.name
             /\ source[after] \notin IdentChar

\* What a statement's String method writes: the words with a blank between them
\* and a name of identifiers that are not keywords, with a period between them
\* (ast.go; the client sends and shows such lines).
Nouns == [use |-> <<>>, create |-> <<"namespace">>, drop |-> <<"namespace">>,
          show |-> <<"namespaces">>]
Ident1 == {<<l>> : l \in Letter \ Keyword}
Names == Ident1 \cup {<<l, ".", m>> : l, m \in Letter \ Keyword}
               \cup {<<l, d>> : l \in Letter \ Keyword, d \in Digit}
Written(op, name) ==
  LET noun == Nouns[op]
  IN  <<op>> \o (IF noun = <<>> THEN <<>> ELSE <<" ">> \o noun)
             \o (IF name = <<>> THEN <<>> ELSE <<" ">> \o name)

\* It is parsed as that statement; and every line is parsed or refused in the
\* end, wherever it breaks off and whatever NULs are in it: no loop of the lexer
\* or of the parser misses the end of the source.
StatementsRoundTrip ==
  /\ <>Done
  /\ [] \A op \in {"use", "create", "drop", "show"} :
         \A name \in IF op = "show" THEN {<<>>} ELSE Names :
           Done /\ source = Written(op, name) \o <<"eof">> =>
             parse.at = "ok" /\ parse.op = op /\ parse.name = name
=============================================================================
