-------------------------- MODULE TransparencyLog --------------------------
(***************************************************************************)
(* The transparency log of a validator daemon                              *)
(* (crates/tardus-validator/src/transparency_log.rs): one line per event,  *)
(* each naming the event before it.  The id of an entry is a hash of its   *)
(* content and of the id before it; here the ids are counted.  A line that *)
(* does not parse is not whole.  The logger's mutex is held for a whole    *)
(* append, so that an append is one step with one of several outcomes.     *)
(***************************************************************************)
EXTENDS Integers, Sequences, FiniteSetsExt

Genesis == 0

\* lines and ended, whether the last line has its newline, are the file; last
\* is last_event_id of the logger; ids counts the entries made so far; hurt,
\* for the properties: some append was cut short.
NewLog == [lines |-> <<>>, ended |-> TRUE, last |-> Genesis, ids |-> 0, hurt |-> FALSE]

Log ==
    [lines : Seq([id : Nat \ {0}, prev : Nat, whole : BOOLEAN]), ended : BOOLEAN,
     last : Nat, ids : Nat, hurt : BOOLEAN]

\* What becomes of an append.  "refused": the write fails at once, which tlog
\* only warns of.  "half", "cut": the file takes a part of the line, or all of
\* it but the newline; the disk is full, or the process dies right after.
\* "abandoned": the client hangs up and the handler is dropped while it waits
\* for the flush; the line is written all the same.
Troubles == {"refused", "half", "cut", "abandoned"}

Outcomes == {"done"} \cup Troubles

\* The lines of l after line was written at the end of the file: it is glued
\* to a last line that has no newline.
Extended(l, line) ==
    IF l.ended THEN Append(l.lines, line)
    ELSE [l.lines EXCEPT ![Len(l.lines)].whole = FALSE]

\* Faulty: the id is remembered before the line is written.
AppendedEarly(l, outcome) ==
    LET line == [id |-> l.ids + 1, prev |-> l.last, whole |-> outcome # "half"]
    IN  IF outcome = "refused" THEN [l EXCEPT !.last = line.id, !.ids = line.id]
        ELSE [lines |-> Extended(l, line), ended |-> outcome \notin {"half", "cut"},
              last |-> line.id, ids |-> line.id, hurt |-> l.hurt \/ outcome # "done"]

\* append: the id is remembered once the line is flushed.
Appended(l, outcome) ==
    LET line == [id |-> l.ids + 1, prev |-> l.last, whole |-> outcome # "half"]
    IN  IF outcome = "refused" THEN l
        ELSE [lines |-> Extended(l, line), ended |-> outcome \notin {"half", "cut"},
              last |-> IF outcome = "done" THEN line.id ELSE l.last,
              ids |-> line.id, hurt |-> l.hurt \/ outcome # "done"]

\* open: the logger goes on from the last line that parses.
Opened(l) ==
    LET whole == {i \in 1..Len(l.lines) : l.lines[i].whole}
    IN  [l EXCEPT !.last = IF whole = {} THEN Genesis ELSE l.lines[Max(whole)].id]

\* verify_chain succeeds.
Verifies(l) ==
    \A i \in 1..Len(l.lines) :
        /\ l.lines[i].whole
        /\ l.lines[i].prev = IF i = 1 THEN Genesis ELSE l.lines[i - 1].id
=============================================================================
