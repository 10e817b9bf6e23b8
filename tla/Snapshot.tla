------------------------------ MODULE Snapshot ------------------------------
(***************************************************************************)
(* serf's snapshot, as setupSerf asks for it: a file to which the          *)
(* snapshotter appends what it learns of members and clocks, which it      *)
(* compacts when it has grown too long, and which it replays at the next   *)
(* start, with RejoinAfterLeave set.  The process may die at any moment.   *)
(*                                                                         *)
(* The buffer is written out whenever it is full, which need not be at the *)
(* end of a line: a line is two halves, and the second has the line feed.  *)
(* Any write may fail, with some of it in the file: appendLine's error is  *)
(* only logged, bufio refuses everything after it, and the process goes on *)
(* with what it has in memory.  A line that is appended to half a line is  *)
(* read as one of the few things the two can be read as together; names    *)
(* and addresses that no member has are left out.                          *)
(***************************************************************************)
EXTENDS Naturals, Sequences, FiniteSets, SequencesExt

CONSTANTS
  Node,
  MaxSize,    \* snapshotSizeLimit, in half lines
  MaxClock,   \* bound on the clocks
  MaxStarts,  \* bound on the starts of the process
  MaxErrors,  \* bound on the errors of the file system
  HarmfulCuts \* a line is cut where what is glued to the half can be read

ASSUME SnapshotAssumption ==
  /\ IsFiniteSet(Node) /\ MaxSize \in Nat /\ MaxClock \in Nat \ {0}
  /\ MaxStarts \in Nat /\ MaxErrors \in Nat /\ HarmfulCuts \in BOOLEAN

VARIABLES
  file,       \* the snapshot's halves, or Missing
  newFile,    \* what is in the file with tmpExt, or Missing
  buffer,     \* halves that are not written yet
  handle,     \* fh and buffered are there
  broken,     \* a write to this file has failed: bufio's error, which stays
  offset,
  alive,      \* aliveNodes
  last,       \* lastClock and lastEventClock
  clock,      \* serf's clock
  leaving,
  pc,         \* what the goroutine does next
  entry,      \* the line it appends
  then,       \* where it goes on after that
  starts, errors,
  written     \* history: what was recorded when the file was last flushed, and
              \* everything since, with what half a line may have spoilt of it

memory == <<alive, last>>
disk == <<file, newFile, buffer, handle, broken, offset>>
vars == <<disk, memory, clock, leaving, pc, entry, then, starts, errors, written>>

Clocks == {"clock", "event-clock"}
NoLine == <<"none", "none">>
Missing == << <<NoLine, 0>> >>   \* in the place of a file that is not there
Lines == ({"alive", "not-alive"} \X Node) \cup (Clocks \X (0..MaxClock))
           \cup {<<"leave", "leave">>}
Half == Lines \X {1, 2}
Told == [alive : SUBSET Node, last : [Clocks -> 0..MaxClock]]

\* What a line speaks of.
Subject(l) ==
  CASE l[1] \in Clocks -> { <<"last", l[1]>> }
    [] l[1] \in {"alive", "not-alive"} -> { <<"alive", l[2]>> }
    [] OTHER -> {}

Subjects == ({"alive"} \X Node) \cup ({"last"} \X Clocks)
Moment == [told : Told, spoilt : SUBSET Subjects]

\* Types, and the offset that decides on compaction: it is the length of the file
\* and of what waits to be written to it, over restarts, compactions and their
\* errors, until a write fails (appendLine, compact).
TypeOK ==
  /\ handle /\ ~ broken => offset = Len(file) + Len(buffer)
  /\ file \in Seq(Half) \cup {Missing} /\ newFile \in Seq(Half) \cup {Missing}
  /\ buffer \in Seq(Half) /\ handle \in BOOLEAN
  /\ broken \in BOOLEAN /\ offset \in Nat
  /\ alive \in SUBSET Node /\ last \in [Clocks -> 0..MaxClock]
  /\ clock \in 0..(MaxClock + 1)
  /\ leaving \in BOOLEAN
  /\ pc \in {"down", "ready", "append", "clock", "sync", "compact", "remove",
             "rename"}
  /\ entry \in Lines \cup {NoLine} /\ then \in {"ready", "clock", "sync"}
  /\ starts \in 0..MaxStarts /\ errors \in 0..MaxErrors
  /\ written \in Seq(Moment)

-----------------------------------------------------------------------------
(* Reading a snapshot. *)

Halves(l) == << <<l, 1>>, <<l, 2>> >>
Torn(f) == f # <<>> /\ Last(f)[2] = 1

Nothing == [alive |-> {}, last |-> [k \in Clocks |-> 0]]

\* One line of replay: what is not a line it knows is skipped, and a leave is
\* ignored.
Replayed(t, l) ==
  CASE l[1] = "alive" -> [t EXCEPT !.alive = @ \cup {l[2]}]
    [] l[1] = "not-alive" -> [t EXCEPT !.alive = @ \ {l[2]}]
    [] l[1] \in Clocks -> [t EXCEPT !.last[l[1]] = l[2]]
    [] OTHER -> t

\* What replay takes half a line h and the line l behind it for, where it takes
\* them for a line: "event-" and a clock, or an address that ends in "leave".
Glued(h, l) ==
  CASE HarmfulCuts /\ h[1] = "event-clock" /\ l[1] = "clock" ->
         <<"event-clock", l[2]>>
    [] HarmfulCuts /\ h[1] = "alive" /\ l[1] = "leave" -> h
    [] OTHER -> NoLine

\* The line that the second half at i ends: the halves since the last line feed
\* are its own, or one more is in front of them.  More are no line.
LineAt(f, i) ==
  IF ~ (f[i][2] = 2 /\ i > 1 /\ f[i - 1] = <<f[i][1], 1>>) THEN NoLine
  ELSE IF i > 2 => f[i - 2][2] = 2 THEN f[i][1]
  ELSE IF i > 3 => f[i - 3][2] = 2 THEN Glued(f[i - 2][1], f[i][1])
  ELSE NoLine

\* replay: half a line at the end is no line yet.
Replay(f) ==
  LET read[i \in 0..Len(f)] ==
        IF i = 0 THEN Nothing ELSE Replayed(read[i - 1], LineAt(f, i))
  IN read[Len(f)]

Memory == [alive |-> alive, last |-> last]

\* What there is of a snapshot on the disk.
Content == IF file = Missing THEN newFile ELSE file

\* Both say the same of everything that is not in spoilt.
Agree(t, u, spoilt) ==
  /\ \A n \in Node : <<"alive", n>> \notin spoilt => (n \in t.alive <=> n \in u.alive)
  /\ \A k \in Clocks : <<"last", k>> \notin spoilt => t.last[k] = u.last[k]

-----------------------------------------------------------------------------
(* The process. *)

Init ==
  /\ file = Missing /\ newFile = Missing /\ buffer = <<>> /\ handle = FALSE
  /\ broken = FALSE /\ offset = 0 /\ alive = {} /\ last = [k \in Clocks |-> 0] /\ clock = 0
  /\ leaving = FALSE /\ pc = "down" /\ entry = NoLine /\ then = "ready"
  /\ starts = 0 /\ errors = 0
  /\ written = << [told |-> Nothing, spoilt |-> {}] >>

\* NewSnapshotter, and Create's clock: one more than the clock it finds.
NewSnapshotter ==
  LET f == IF file = Missing THEN <<>> ELSE file
      t == Replay(f) IN
  /\ pc = "down" /\ starts < MaxStarts
  /\ starts' = starts + 1
  /\ file' = f
  /\ handle' = TRUE
  /\ offset' = Len(f)
  /\ alive' = t.alive /\ last' = t.last
  /\ clock' = t.last["clock"] + 1
  /\ pc' = "ready"
  /\ written' = << [told |-> t, spoilt |-> {}] >>
  /\ UNCHANGED <<newFile, buffer, broken, leaving, entry, then, errors>>

\* The process ends: what is in memory is gone.
Ends ==
  /\ pc' = "down"
  /\ buffer' = <<>> /\ handle' = FALSE /\ broken' = FALSE /\ offset' = 0
  /\ alive' = {} /\ last' = [k \in Clocks |-> 0] /\ clock' = 0
  /\ leaving' = FALSE /\ entry' = NoLine /\ then' = "ready"
  /\ UNCHANGED <<newFile, starts>>

\* It is killed or panics.
Dies == Ends /\ UNCHANGED <<file, errors, written>>

Crash == pc # "down" /\ Dies

\* bufio writes when its buffer is full, in the middle of a line or not.
Spill ==
  /\ pc \in {"ready", "append", "clock", "sync"} /\ handle /\ ~ broken
  /\ \E n \in 1..Len(buffer) :
       /\ file' = file \o SubSeq(buffer, 1, n)
       /\ buffer' = SubSeq(buffer, n + 1, Len(buffer))
  /\ UNCHANGED <<newFile, handle, broken, offset, memory, clock, leaving, pc,
                 entry, then, starts, errors, written>>

\* Gossip moves serf's clock.
Witness ==
  /\ pc # "down" /\ clock <= MaxClock
  /\ clock' = clock + 1
  /\ UNCHANGED <<disk, memory, leaving, pc, entry, then, starts, errors, written>>

-----------------------------------------------------------------------------
(* stream. *)

\* What is spoilt once l is behind what is in the file f: l and the half in front
\* of it, if there is one, or less than before, since l tells its subject anew.
SpoiltBy(f, l, spoilt) ==
  IF Torn(f) THEN spoilt \cup Subject(Last(f)[1]) \cup Subject(l)
             ELSE spoilt \ Subject(l)

\* The maps have changed; the line that says so is to be appended.
Record(l, next) ==
  /\ entry' = l
  /\ then' = next
  /\ pc' = "append"
  /\ written' = IF broken THEN written
                ELSE Append(written,
                       [told |-> Memory',
                        spoilt |-> SpoiltBy(Content \o buffer, l, Last(written).spoilt)])
  /\ UNCHANGED <<disk, clock, starts, errors>>

\* processMemberEvent up to updateClock.  Events after a leave are not
\* recorded.
MemberEvent(n, status) ==
  /\ pc = "ready" /\ ~ leaving
  /\ alive' = IF status = "alive" THEN alive \cup {n} ELSE alive \ {n}
  /\ UNCHANGED <<last, leaving>>
  /\ Record(<<status, n>>, "clock")

\* processUserEvent; processQuery is the same with a clock of its own.
UserEvent(time) ==
  /\ pc = "ready" /\ ~ leaving
  /\ time > last["event-clock"]
  /\ last' = [last EXCEPT !["event-clock"] = time]
  /\ UNCHANGED <<alive, leaving>>
  /\ Record(<<"event-clock", time>>, "ready")

\* updateClock, after a member event or when the timer fires; also after a
\* member event of another kind.
UpdateClock ==
  /\ pc \in {"ready", "clock"}
  /\ \/ /\ clock - 1 > last["clock"]
        /\ last' = [last EXCEPT !["clock"] = clock - 1]
        /\ UNCHANGED <<alive, leaving>>
        /\ Record(<<"clock", clock - 1>>, "ready")
     \/ /\ clock - 1 <= last["clock"] /\ pc = "clock"
        /\ pc' = "ready"
        /\ UNCHANGED <<disk, memory, clock, leaving, entry, then, starts, errors,
                       written>>

\* serf's Leave, before it tells the cluster.
Leave ==
  /\ pc = "ready" /\ ~ leaving
  /\ leaving' = TRUE
  /\ UNCHANGED memory
  /\ Record(<<"leave", "leave">>, "sync")

\* bufio's Flush of all that is given to it: it is in the file, and nothing older
\* counts any more.
Flushes(all) ==
  /\ ~ broken
  /\ file' = file \o all
  /\ written' = <<Last(written)>>
  /\ UNCHANGED errors

\* Part of it is in the file; or an earlier error is returned again.
FlushFails(all) ==
  \/ /\ ~ broken /\ errors < MaxErrors
     /\ errors' = errors + 1
     /\ \E n \in 0..(Len(all) - 1) : file' = file \o SubSeq(all, 1, n)
     /\ UNCHANGED written
  \/ broken /\ UNCHANGED <<file, written, errors>>

\* The leave is flushed; an error is only logged.
Sync ==
  /\ pc = "sync"
  /\ \/ /\ handle
        /\ \/ Flushes(buffer) /\ UNCHANGED broken
           \/ FlushFails(buffer) /\ broken' = TRUE
        /\ buffer' = <<>>
        /\ pc' = "ready"
        /\ UNCHANGED <<newFile, handle, offset, memory, clock, leaving, entry,
                       then, starts>>
     \/ ~ handle /\ Dies

\* Mutant of Shutdown: the file is closed and the buffer forgotten.
ShutdownUnflushed ==
  /\ pc = "ready"
  /\ Ends
  /\ written' = <<Last(written)>>
  /\ UNCHANGED <<file, errors>>

\* shutdownCh is closed: the buffer is flushed, and the goroutine ends, whether
\* there was an error or not.
Shutdown ==
  /\ pc = "ready"
  /\ \/ handle /\ (Flushes(buffer) \/ FlushFails(buffer)) /\ Ends
     \/ ~ handle /\ Dies

-----------------------------------------------------------------------------
(* appendLine and compact. *)

\* A line whose write fails is not counted, and does not lead to a compaction.
\* With the file closed by a compaction that failed, the writer is nil.
AppendLine ==
  /\ pc = "append"
  /\ \/ ~ handle /\ Dies
     \/ /\ handle
        /\ LET all == buffer \o Halves(entry) IN
           \/ /\ \/ ~ broken /\ buffer' = all /\ UNCHANGED <<file, written, errors>>
                 \/ Flushes(all) /\ buffer' = <<>>
              /\ offset' = offset + 2
              /\ pc' = IF offset + 2 > MaxSize THEN "compact" ELSE then
              /\ UNCHANGED broken
           \/ /\ FlushFails(all)
              /\ buffer' = <<>>
              /\ broken' = TRUE
              /\ pc' = then
              /\ UNCHANGED offset
        /\ entry' = NoLine
        /\ UNCHANGED <<newFile, handle, memory, clock, leaving, then, starts>>

\* Lines as they are written, a half after the other.
Written(lines) ==
  [k \in 1..(2 * Len(lines)) |->
     <<lines[(k + 1) \div 2], IF k % 2 = 1 THEN 1 ELSE 2>>]

\* Mutant of Image: the nodes are forgotten.
ImageOfClocks(names) == Written(<< <<"clock", last["clock"]>>,
                                   <<"event-clock", last["event-clock"]>> >>)

\* The nodes, in the order in which they are found, and the clocks after them.
Image(names) ==
  Written([k \in DOMAIN names |-> <<"alive", names[k]>>]
            \o << <<"clock", last["clock"]>>,
                  <<"event-clock", last["event-clock"]>> >>)

\* An error of the file system, after which compact returns.
Fails ==
  /\ errors < MaxErrors
  /\ errors' = errors + 1
  /\ pc' = then

\* The new file is written and flushed, the old one flushed, its error ignored,
\* and closed.  If the new one cannot be written, the old one stays as it is; what
\* there is of the new one then is never read and left out.
WriteNewFile ==
  /\ pc = "compact"
  /\ \/ /\ \E names \in SetToSeqs(alive) : newFile' = Image(names)
        /\ \/ Flushes(buffer) /\ UNCHANGED broken
           \/ FlushFails(buffer) /\ broken' = TRUE
        /\ buffer' = <<>>
        /\ handle' = FALSE
        /\ pc' = "remove"
     \/ Fails /\ UNCHANGED <<file, newFile, buffer, handle, broken, written>>
  /\ UNCHANGED <<offset, memory, clock, leaving, entry, then, starts>>

\* os.Remove; if it fails, no file is open.
RemoveOld ==
  /\ pc = "remove"
  /\ \/ file' = Missing /\ pc' = "rename" /\ UNCHANGED errors
     \/ Fails /\ UNCHANGED file
  /\ UNCHANGED <<newFile, buffer, handle, broken, offset, memory, clock, leaving,
                 entry, then, starts, written>>

\* os.Rename has moved the new file to the old one's place.
Renamed ==
  /\ file' = newFile /\ newFile' = Missing
  /\ broken' = FALSE
  /\ written' = << [told |-> Memory, spoilt |-> {}] >>

\* Mutant of Rename: the offset of the old file is kept.
RenameKeepsOffset ==
  /\ pc = "rename"
  /\ Renamed
  /\ handle' = TRUE
  /\ pc' = then
  /\ UNCHANGED <<buffer, offset, memory, clock, leaving, entry, then, starts, errors>>

\* os.Rename, and opening the file again; either may fail.
Rename ==
  /\ pc = "rename"
  /\ \/ /\ Renamed
        /\ handle' = TRUE
        /\ offset' = Len(newFile)
        /\ pc' = then
        /\ UNCHANGED errors
     \/ Fails /\ Renamed /\ UNCHANGED <<handle, offset>>
     \/ Fails /\ UNCHANGED <<file, newFile, handle, broken, offset, written>>
  /\ UNCHANGED <<buffer, memory, clock, leaving, entry, then, starts>>

-----------------------------------------------------------------------------

Next ==
  \/ NewSnapshotter \/ Crash \/ Spill \/ Witness
  \/ \E n \in Node, status \in {"alive", "not-alive"} : MemberEvent(n, status)
  \/ \E time \in 1..MaxClock : UserEvent(time)
  \/ UpdateClock \/ Leave \/ Sync \/ Shutdown
  \/ AppendLine \/ WriteNewFile \/ RemoveOld \/ Rename

Spec == Init /\ [][Next]_vars

-----------------------------------------------------------------------------
(* Properties. *)

\* While the process runs, whatever is in the file, in the buffer and about to
\* be appended replays to what is in memory, at every step of a compaction too,
\* until a write fails (appendLine, compact).  After a start that found half a
\* line, this is so but for what that half and the line appended to it speak of,
\* until a later line does.
FileTellsTheMemory ==
  pc # "down" /\ ~ broken =>
    Agree(Replay(Content \o buffer
                   \o (IF pc = "append" THEN Halves(entry) ELSE <<>>)),
          Memory, Last(written).spoilt)

\* What a restart will recall is what memory was at some moment that is no
\* older than the last flush that succeeded, and after a shutdown without an
\* error what it was then (replay), but for what half a line spoils.  Between the
\* two steps that replace the file in a compaction the new file tells the same,
\* which the next start does not look for: it begins with nothing.
RecallIsRecent ==
  pc = "down" /\ Content # Missing =>
    \E w \in Range(written) : Agree(Replay(Content), w.told, w.spoilt)
=============================================================================
