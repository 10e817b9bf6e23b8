------------------------------- MODULE Client -------------------------------
(***************************************************************************)
(* The command line client: one session after another reads lines from the *)
(* terminal, sends the statements among them over an SSH channel, and      *)
(* writes what it sent to the history file at its end.  The file is shared *)
(* with other sessions.  The server is EchoHandler: it answers a statement *)
(* by its length and by everything it has been sent so far.                *)
(*                                                                         *)
(* A line is a sequence of words, NoLine the empty one.  The file is a     *)
(* sequence of words too, with LF among them.                              *)
(***************************************************************************)
EXTENDS Terminal

CONSTANTS
  Statement,    \* the words that parse
  Other,        \* words that do not, among them "exit", "history" and "blank"
  LF,
  Bytes,        \* the bytes of a statement
  MaxLines,     \* bound on the lines of a session
  MaxSessions   \* bound on the sessions, other clients' included

ASSUME ClientAssumption ==
  /\ Bytes \in [Statement -> Seq(0..255)]
  /\ \A w \in Statement : Len(Bytes[w]) \in 1..255
  /\ LF \notin Statement \cup Other
  /\ MaxLines \in Nat /\ MaxSessions \in Nat

VARIABLES
  pc,          \* out, at the prompt, or waiting for a size or for data
  file,        \* the history file
  oldEntries, newEntries,   \* History
  statement,   \* the statement being answered
  length,      \* the four bytes that are written and then read over
  size,        \* what they read as
  channel,     \* nil, open, or lost with its connection
  coming,      \* packets from the server on their way
  arrived,     \* bytes that can be read
  received,    \* what the server has received: its buffer
  entered, sessions,
  kept,        \* history: the lines of this session's ring, removed ones gone
  accepted,    \* history: the statements of this session
  log,         \* history: what the ended sessions have written
  cut          \* history: a write has ended within a line

fileVars == <<file, cut, oldEntries, newEntries>>
netVars == <<channel, coming, arrived, received>>
clientVars == <<termVars, pc, fileVars, statement, length, size, netVars, entered,
          sessions, kept, accepted, log>>

Word == Statement \cup Other
Line == Seq(Word)

ClientTypeOK ==
  /\ pc \in {"out", "prompt", "size", "data"}
  /\ file \in Seq(Word \cup {LF})
  /\ oldEntries \in Seq(Line) /\ newEntries \in Seq(Seq(Word \cup {LF}))
  /\ line \in Line /\ historyPending \in Line
  /\ history.head \in -1..history.max /\ history.size \in 0..history.max
  /\ DOMAIN history.slot = IF history.max = 0 THEN {} ELSE 0..(history.max - 1)
  /\ \A i \in DOMAIN history.slot : history.slot[i] \in Line
  /\ historyIndex \in -1..(history.size - 1)
  /\ statement \in Statement \cup {"none"}
  /\ length \in [1..4 -> 0..255] /\ size \in Int
  /\ channel \in {"nil", "open", "lost"}
  /\ coming \in Seq(Seq(0..255)) /\ arrived \in Seq(0..255)
  /\ received \in Seq(0..255)
  /\ entered \in 0..MaxLines /\ sessions \in 0..MaxSessions
  /\ kept \in Seq(Line) /\ accepted \in Seq(Statement) /\ log \in Seq(Statement)
  /\ cut \in BOOLEAN

-----------------------------------------------------------------------------
(* The history file. *)

\* strings.Split at the line feeds, without the empty pieces: a word after a line
\* feed begins an entry, and one after a word goes on with it.
Entries(f) ==
  LET begins(i) == i = 1 \/ f[i - 1] = LF
      read[i \in 0..Len(f)] ==
        IF i = 0 THEN <<>>
        ELSE IF f[i] = LF THEN read[i - 1]
        ELSE IF begins(i) THEN Append(read[i - 1], <<f[i]>>)
        ELSE [read[i - 1] EXCEPT ![Len(read[i - 1])] = Append(@, f[i])]
  IN read[Len(f)]

\* strings.Join of the new entries, a line feed between two.
Joined(entries) ==
  LET joined[i \in 0..Len(entries)] ==
        IF i = 0 THEN <<>>
        ELSE IF i = 1 THEN entries[1] ELSE joined[i - 1] \o <<LF>> \o entries[i]
  IN joined[Len(entries)]

\* Mutant of AppendEntry: lines are appended as they were entered.
AppendBare(w) ==
  IF newEntries # <<>> /\ newEntries[Len(newEntries)] = <<w>> THEN newEntries
  ELSE Append(newEntries, <<w>>)

\* History.Append(line + "\n"): not what the last entry was.  An entry of an
\* earlier session has no line feed, and is never found equal.
AppendEntry(w) ==
  LET last(entries) == entries[Len(entries)]
      lastEntry == CASE newEntries # <<>> -> last(newEntries)
                     [] newEntries = <<>> /\ oldEntries # <<>> -> last(oldEntries)
                     [] OTHER -> <<>>
  IN IF <<w, LF>> = lastEntry THEN newEntries ELSE Append(newEntries, <<w, LF>>)

\* The statements of a session, each run of the same one taken once.
Distinct(s) ==
  LET taken[i \in 0..Len(s)] ==
        IF i = 0 THEN <<>>
        ELSE IF i > 1 /\ s[i] = s[i - 1] THEN taken[i - 1]
        ELSE Append(taken[i - 1], s[i])
  IN taken[Len(s)]

-----------------------------------------------------------------------------
(* Sessions. *)

NoSession ==
  /\ line' = NoLine /\ history' = NoRing
  /\ historyIndex' = -1 /\ historyPending' = NoLine
  /\ oldEntries' = <<>> /\ newEntries' = <<>>
  /\ statement' = "none" /\ length' = [i \in 1..4 |-> 0] /\ size' = 0
  /\ channel' = "nil" /\ coming' = <<>> /\ arrived' = <<>> /\ received' = <<>>
  /\ entered' = 0 /\ kept' = <<>> /\ accepted' = <<>>

ClientInit ==
  /\ pc = "out" /\ file = <<>> /\ cut = FALSE /\ sessions = 0 /\ log = <<>>
  /\ line = NoLine /\ history = NoRing
  /\ historyIndex = -1 /\ historyPending = NoLine
  /\ oldEntries = <<>> /\ newEntries = <<>>
  /\ statement = "none" /\ length = [i \in 1..4 |-> 0] /\ size = 0
  /\ channel = "nil" /\ coming = <<>> /\ arrived = <<>> /\ received = <<>>
  /\ entered = 0 /\ kept = <<>> /\ accepted = <<>>

\* Up to the prompt.  The result of OpenChannel is not looked at.
Launch(opened) ==
  /\ pc = "out" /\ sessions < MaxSessions
  /\ pc' = "prompt"
  /\ sessions' = sessions + 1
  /\ oldEntries' = Entries(file)
  /\ history' = Loaded(Entries(file))
  /\ kept' = Entries(file)
  /\ channel' = IF opened THEN "open" ELSE "nil"
  /\ UNCHANGED <<file, cut, newEntries, line, historyIndex, historyPending,
                 statement, length, size, coming, arrived, received, entered,
                 accepted, log>>

\* WriteToFile, whose error is not looked at; then the process ends.  All of the
\* new entries are written, or when the file cannot be opened or the write fails,
\* only the first k; and of the last of these the end may be missing.
WriteToFile(k) ==
  LET written == Joined(SubSeq(newEntries, 1, k)) IN
  /\ pc' = "out"
  /\ NoSession
  /\ \/ /\ file' = file \o written
        /\ log' = log \o SubSeq(Distinct(accepted), 1, k)
        /\ UNCHANGED cut
     \/ /\ k > 0
        /\ file' = file \o SubSeq(written, 1, Len(written) - 1)
        /\ cut' = TRUE
        /\ UNCHANGED log
  /\ UNCHANGED sessions

\* The process is killed, or ends by a panic: nothing is written.
Dies ==
  /\ pc' = "out"
  /\ NoSession
  /\ UNCHANGED <<file, cut, log, sessions>>

Kill == pc # "out" /\ Dies

\* Another client's session, at its end.
OtherSession(w) ==
  /\ sessions < MaxSessions
  /\ sessions' = sessions + 1
  /\ file' = file \o <<w, LF>>
  /\ log' = Append(log, w)
  /\ UNCHANGED <<termVars, pc, cut, oldEntries, newEntries, statement, length, size,
                 netVars, entered, kept, accepted>>

-----------------------------------------------------------------------------
(* The terminal. *)

Edit ==
  /\ pc = "prompt"
  /\ Up \/ Down \/ Erase \/ CtrlC \/ \E w \in Word : Type(<<w>>)
  /\ UNCHANGED <<pc, fileVars, statement, length, size, netVars, entered,
                 sessions, kept, accepted, log>>

\* Ctrl-C or Ctrl-D on an empty line, or the terminal is gone.
EndOfInput ==
  /\ pc = "prompt"
  /\ \E k \in 0..Len(newEntries) : WriteToFile(k)

IsStatement(l) == Len(l) = 1 /\ l[1] \in Statement

\* One round of the loop for a line that is not a statement.
EnterOther ==
  /\ pc = "prompt" /\ entered < MaxLines
  /\ ~ IsStatement(line)
  /\ \/ line = <<"exit">> /\ \E k \in 0..Len(newEntries) : WriteToFile(k)
     \/ /\ line \in {NoLine, <<"history">>, <<"blank">>}
        /\ Entered(line, Add(history, line))
        /\ kept' = IF line = NoLine THEN kept ELSE Append(kept, line)
        /\ entered' = entered + 1
        /\ UNCHANGED <<pc, fileVars, statement, length, size, netVars, sessions,
                       accepted, log>>
     \/ /\ line \notin {NoLine, <<"exit">>, <<"history">>, <<"blank">>}
        /\ Entered(line, RemoveLast(Add(history, line)))
        /\ entered' = entered + 1
        /\ UNCHANGED <<pc, fileVars, statement, length, size, netVars, sessions,
                       kept, accepted, log>>

-----------------------------------------------------------------------------
(* A statement and its answer. *)

\* A channel that was not opened is nil.
EnterStatement ==
  /\ pc = "prompt" /\ entered < MaxLines
  /\ IsStatement(line)
  /\ LET w == line[1]
         l == <<Len(Bytes[w]), 0, 0, 0>>
         all == received \o Bytes[w] IN
     \/ channel = "nil" /\ Dies
     \/ /\ channel # "nil"
        /\ Entered(line, Add(history, line))
        /\ kept' = Append(kept, line)
        /\ entered' = entered + 1
        /\ pc' = "size"
        /\ statement' = w
        /\ length' = l
        /\ IF channel = "open"
             THEN /\ received' = all
                  /\ coming' = coming \o <<l, all>>
             ELSE UNCHANGED <<received, coming>>
        /\ UNCHANGED <<fileVars, size, channel, arrived, sessions, accepted, log>>

Arrive ==
  /\ coming # <<>>
  /\ arrived' = arrived \o Head(coming)
  /\ coming' = Tail(coming)
  /\ UNCHANGED <<termVars, pc, fileVars, statement, length, size, channel,
                 received, entered, sessions, kept, accepted, log>>

LoseConnection ==
  /\ channel = "open"
  /\ channel' = "lost"
  /\ coming' = <<>>
  /\ UNCHANGED <<termVars, pc, fileVars, statement, length, size, arrived,
                 received, entered, sessions, kept, accepted, log>>

\* More bytes than a session ever gets.
Large == 65536

\* Bytes as a little endian int32.
Int32(b) ==
  CASE b[4] >= 128 -> -1
    [] b[4] < 128 /\ (b[3] > 0 \/ b[4] > 0) -> Large
    [] OTHER -> b[1] + 256 * b[2]

Least(a, b) == IF a < b THEN a ELSE b

\* channel.Read returns what has arrived, but waits for something.
CanRead == arrived # <<>> \/ channel = "lost"

Report ==
  /\ pc' = "prompt"
  /\ newEntries' = AppendEntry(statement)
  /\ accepted' = Append(accepted, statement)

\* The first Read, and make, which does not take a negative size.  A Read for
\* no bytes returns at once.
ReadSize ==
  LET n == Least(4, Len(arrived))
      b == SubSeq(arrived, 1, n) \o SubSeq(length, n + 1, 4) IN
  /\ pc = "size" /\ CanRead
  /\ \/ Int32(b) < 0 /\ Dies
     \/ /\ Int32(b) >= 0
        /\ length' = b
        /\ size' = Int32(b)
        /\ arrived' = SubSeq(arrived, n + 1, Len(arrived))
        /\ \/ Int32(b) = 0 /\ Report
           \/ Int32(b) > 0 /\ pc' = "data" /\ UNCHANGED <<newEntries, accepted>>
        /\ UNCHANGED <<termVars, file, cut, oldEntries, statement, channel, coming,
                       received, entered, sessions, kept, log>>

\* Mutant of ReadData: all of the data is read, as io.ReadFull does.
ReadAllData ==
  /\ pc = "data"
  /\ Len(arrived) >= size \/ channel = "lost"
  /\ arrived' = SubSeq(arrived, Least(size, Len(arrived)) + 1, Len(arrived))
  /\ Report
  /\ UNCHANGED <<termVars, file, cut, oldEntries, statement, length, size, channel,
                 coming, received, entered, sessions, kept, log>>

\* The second Read.  Its data are not looked at: the client prints the
\* statement it has parsed itself.
ReadData ==
  /\ pc = "data" /\ CanRead
  /\ arrived' = SubSeq(arrived, Least(size, Len(arrived)) + 1, Len(arrived))
  /\ Report
  /\ UNCHANGED <<termVars, file, cut, oldEntries, statement, length, size, channel,
                 coming, received, entered, sessions, kept, log>>

-----------------------------------------------------------------------------

ClientNext ==
  \/ \E opened \in BOOLEAN : Launch(opened)
  \/ Kill
  \/ \E w \in Statement : OtherSession(w)
  \/ Edit \/ EndOfInput \/ EnterOther \/ EnterStatement
  \/ Arrive \/ LoseConnection \/ ReadSize \/ ReadData

\* The network delivers, and the client's goroutine runs.
ClientSpec == ClientInit /\ [][ClientNext]_clientVars
        /\ WF_clientVars(Arrive) /\ WF_clientVars(ReadSize) /\ WF_clientVars(ReadData)

-----------------------------------------------------------------------------
(* Properties. *)

\* The ring gives back, up to its size less one, exactly the lines that were
\* entered and not taken back, whatever has been taken back in between: for
\* RemoveLast and NthPreviousEntry, whose head may be -1.
RecallIsExact ==
  \A n \in 0..(Len(kept) - 1) :
    n < history.max - 1 =>
      Has(history, n) /\ NthPreviousEntry(history, n) = kept[Len(kept) - n]

\* As long as no write ends within a line, the file reads as the statements that
\* the sessions have written, in the order they ended, each run of a statement
\* once: no line is lost, split or merged between two sessions (History, and how
\* the client reads the file).
FileIsTheLog == ~ cut => Entries(file) = [i \in DOMAIN log |-> <<log[i]>>]

\* A statement that was sent is answered or its session ends: what is left of
\* earlier answers never makes the client wait for more than comes.
StatementsAreFinished == (pc \in {"size", "data"}) ~> (pc \in {"prompt", "out"})
=============================================================================
