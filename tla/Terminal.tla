------------------------------ MODULE Terminal ------------------------------
(***************************************************************************)
(* The line editor of the client, as far as the history goes: the line     *)
(* being entered, and the keys that browse the lines entered before it.    *)
(* A line is typed in one step.                                            *)
(***************************************************************************)
EXTENDS HistoryRing

VARIABLES
  line,            \* the line being entered
  history,         \* the ring
  historyIndex,    \* which of its lines is shown: -1 is none, 0 the last one
  historyPending   \* the line that was left to browse the history

termVars == <<line, history, historyIndex, historyPending>>

Type(l) ==
  /\ line = NoLine
  /\ line' = l
  /\ UNCHANGED <<history, historyIndex, historyPending>>

\* keyCtrlU at the end of the line.
Erase ==
  /\ line # NoLine
  /\ line' = NoLine
  /\ UNCHANGED <<history, historyIndex, historyPending>>

\* Mutant of Up: the index is raised before the line is looked for.
UpPastEnd ==
  /\ historyIndex' = historyIndex + 1
  /\ line' = IF Has(history, historyIndex + 1)
               THEN NthPreviousEntry(history, historyIndex + 1) ELSE line
  /\ UNCHANGED <<history, historyPending>>

Up ==
  /\ Has(history, historyIndex + 1)
  /\ historyPending' = IF historyIndex = -1 THEN line ELSE historyPending
  /\ historyIndex' = historyIndex + 1
  /\ line' = NthPreviousEntry(history, historyIndex + 1)
  /\ UNCHANGED history

Down ==
  /\ historyIndex >= 0
  /\ historyIndex = 0 \/ Has(history, historyIndex - 1)
  /\ historyIndex' = historyIndex - 1
  /\ line' = IF historyIndex = 0 THEN historyPending
                                 ELSE NthPreviousEntry(history, historyIndex - 1)
  /\ UNCHANGED <<history, historyPending>>

\* The end of readLine with a line: only one that is not empty is kept, and
\* only that ends the browsing.
Entered(l, ring) ==
  /\ line' = NoLine
  /\ history' = ring
  /\ historyIndex' = IF l = NoLine THEN historyIndex ELSE -1
  /\ UNCHANGED historyPending

\* keyCtrlC on a line: readLine returns an empty one.
CtrlC ==
  /\ line # NoLine
  /\ Entered(NoLine, history)
=============================================================================
