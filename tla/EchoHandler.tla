----------------------------- MODULE EchoHandler -----------------------------
(***************************************************************************)
(* EchoHandler.Handle, the handler of the channels of type kappa-client.   *)
(* For each channel it runs two goroutines under a tomb of its own: the    *)
(* reader takes messages off the channel and offers them on the Go channel *)
(* in, the main goroutine receives from in and writes the echo.  The tomb  *)
(* of the connection, parentTomb, is passed by value.                      *)
(*                                                                         *)
(* Actions that look at the connection's tomb take its state as parent.    *)
(***************************************************************************)
EXTENDS Naturals, Sequences, Tomb

CONSTANTS
  Channel,
  MaxMessages   \* bound on the messages the client sends on each channel

ASSUME EchoAssumption == MaxMessages \in [Channel -> Nat]

VARIABLES
  inbox,     \* what the client has sent and the reader has not taken
  sent,      \* the number of messages the client has sent
  finished,  \* the client has closed its end of the channel
  main,      \* the main goroutine
  reader,    \* the reader
  offer,     \* the message the reader offers on in, or None
  taken,     \* the number of messages in the reader's buffer
  replies,   \* what has been written: whose length, which messages' data
  tomb,      \* Handle's own tomb
  copied     \* parentTomb was copied while its mutex was held

echoVars == <<inbox, sent, finished, main, reader, offer, taken, replies,
              tomb, copied>>

\* A message is empty (length 0), or has data; a broken one ends early, or its
\* length arrives in two pieces.
Kind == {"data", "empty", "broken"}
None == [number |-> 0, kind |-> "none"]

EchoTypeOK ==
  /\ inbox \in [Channel -> Seq(Kind)]
  /\ sent \in [Channel -> Nat]
  /\ finished \in [Channel -> BOOLEAN]
  /\ main \in [Channel -> {"none", "select", "done"}]
  /\ reader \in [Channel -> {"none", "read", "send", "done"}]
  /\ offer \in [Channel -> [number : Nat, kind : Kind] \cup {None}]
  /\ taken \in [Channel -> Nat]
  /\ \A h \in Channel : taken[h] <= sent[h] /\ sent[h] <= MaxMessages[h]
  /\ replies \in [Channel -> Seq([length : Nat, data : SUBSET Nat])]
  /\ tomb \in [Channel -> Reason]
  /\ copied \in [Channel -> BOOLEAN]

EchoInit ==
  /\ inbox = [h \in Channel |-> <<>>]
  /\ sent = [h \in Channel |-> 0]
  /\ finished = [h \in Channel |-> FALSE]
  /\ main = [h \in Channel |-> "none"]
  /\ reader = [h \in Channel |-> "none"]
  /\ offer = [h \in Channel |-> None]
  /\ taken = [h \in Channel |-> 0]
  /\ replies = [h \in Channel |-> <<>>]
  /\ tomb = [h \in Channel |-> "alive"]
  /\ copied = [h \in Channel |-> FALSE]

\* t.Wait() returns.
Over(h) == main[h] = "done" /\ reader[h] = "done"

-----------------------------------------------------------------------------
(* The client. *)

Send(h, kind) ==
  /\ ~ finished[h]
  /\ sent[h] < MaxMessages[h]
  /\ inbox' = [inbox EXCEPT ![h] = Append(@, kind)]
  /\ sent' = [sent EXCEPT ![h] = @ + 1]
  /\ UNCHANGED <<finished, main, reader, offer, taken, replies, tomb, copied>>

Finish(h) ==
  /\ ~ finished[h]
  /\ finished' = [finished EXCEPT ![h] = TRUE]
  /\ UNCHANGED <<inbox, sent, main, reader, offer, taken, replies, tomb, copied>>

-----------------------------------------------------------------------------
(* The handler. *)

\* Handle starts the main goroutine, which starts the reader.
Start(h, race) ==
  /\ main[h] = "none"
  /\ main' = [main EXCEPT ![h] = "select"]
  /\ reader' = [reader EXCEPT ![h] = "read"]
  /\ copied' = [copied EXCEPT ![h] = race]
  /\ UNCHANGED <<inbox, sent, finished, offer, taken, replies, tomb>>

\* Of a goroutine that returns with reason: Tomb.run.
ReaderEnds(h, reason) ==
  /\ reader' = [reader EXCEPT ![h] = "done"]
  /\ offer' = [offer EXCEPT ![h] = None]
  /\ tomb' = [tomb EXCEPT ![h] =
                IF reason # "nil" \/ main[h] = "done" THEN Killed(@, reason)
                                                      ELSE @]

\* channel.Read and buffer.ReadFrom: a message, the end of the channel, or an
\* error.  Nothing but the client ends this wait.
Read(h, gone) ==
  /\ reader[h] = "read"
  /\ UNCHANGED <<sent, finished, main, replies, copied>>
  /\ \/ /\ inbox[h] # <<>> /\ Head(inbox[h]) # "broken"
        /\ inbox' = [inbox EXCEPT ![h] = Tail(@)]
        /\ taken' = [taken EXCEPT ![h] = @ + 1]
        /\ offer' = [offer EXCEPT ![h] =
                       [number |-> taken[h] + 1, kind |-> Head(inbox[h])]]
        /\ reader' = [reader EXCEPT ![h] = "send"]
        /\ UNCHANGED tomb
     \/ /\ inbox[h] # <<>> /\ Head(inbox[h]) = "broken"
        /\ inbox' = [inbox EXCEPT ![h] = Tail(@)]
        /\ ReaderEnds(h, "err")
        /\ UNCHANGED taken
     \/ /\ inbox[h] = <<>> /\ (finished[h] \/ gone)
        /\ ReaderEnds(h, "eof")
        /\ UNCHANGED <<inbox, taken>>

\* Mutant of ReaderGivesUp: the select has a default.
ReaderSkips(h, parent) ==
  /\ reader[h] = "send" /\ ~ copied[h]
  /\ reader' = [reader EXCEPT ![h] = "read"]
  /\ offer' = [offer EXCEPT ![h] = None]
  /\ UNCHANGED <<inbox, sent, finished, main, taken, replies, tomb, copied>>

\* Mutant of ReaderGivesUp: the connection's tomb is not looked at.
ReaderIgnoresParent(h, parent) ==
  /\ reader[h] = "send" /\ ~ copied[h]
  /\ Dying(tomb[h])
  /\ ReaderEnds(h, "nil")
  /\ UNCHANGED <<inbox, sent, finished, main, taken, replies, copied>>

\* The reader's select finds one of the tombs dying.
ReaderGivesUp(h, parent) ==
  /\ reader[h] = "send" /\ ~ copied[h]
  /\ Dying(parent) \/ Dying(tomb[h])
  /\ ReaderEnds(h, "nil")
  /\ UNCHANGED <<inbox, sent, finished, main, taken, replies, copied>>

\* The reader's send meets the main goroutine's receive.  An empty message
\* ends the main goroutine, and no tomb hears of it; any other is answered by
\* its length and everything in the buffer, which is never reset.
Echo(h) ==
  LET m == offer[h] IN
  /\ reader[h] = "send" /\ main[h] = "select" /\ ~ copied[h]
  /\ reader' = [reader EXCEPT ![h] = "read"]
  /\ offer' = [offer EXCEPT ![h] = None]
  /\ \/ /\ m.kind = "empty"
        /\ main' = [main EXCEPT ![h] = "done"]
        /\ UNCHANGED replies
     \/ /\ m.kind = "data"
        /\ replies' = [replies EXCEPT ![h] =
                         Append(@, [length |-> m.number,
                                    data |-> 1..taken[h]])]
        /\ UNCHANGED main
  /\ UNCHANGED <<inbox, sent, finished, taken, tomb, copied>>

\* The main goroutine's select looks at the connection's tomb, not at t.
MainGivesUp(h, parent) ==
  /\ main[h] = "select" /\ ~ copied[h]
  /\ Dying(parent)
  /\ main' = [main EXCEPT ![h] = "done"]
  /\ tomb' = [tomb EXCEPT ![h] = Killed(@, "nil")]
  /\ UNCHANGED <<inbox, sent, finished, reader, offer, taken, replies, copied>>

Steps(h, parent, gone) ==
  \/ Read(h, gone) \/ ReaderGivesUp(h, parent)
  \/ Echo(h) \/ MainGivesUp(h, parent)
=============================================================================
