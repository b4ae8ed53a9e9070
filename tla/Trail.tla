-------------------------------- MODULE Trail --------------------------------
(***************************************************************************)
(* An append-only JSONL file (jsonl_atomic.py): the records whose newline  *)
(* is on disk, and what a write that came short has left after the last    *)
(* newline.  Lines that do not parse are skipped by every reader and       *)
(* dropped by the consumer: they are not kept here.                        *)
(*                                                                         *)
(* Appends and the consumer hold one flock, so each of them is one step.   *)
(***************************************************************************)
EXTENDS Sequences

\* Record, Nothing and Fragment are told apart: whoever instantiates the module
\* assumes it.
CONSTANTS
  Record,        \* what may be written
  Nothing,       \* the rest of a file that ends in a newline
  Fragment       \* a rest that is a piece of a record

\* The rest may also be a whole record, written but for its newline.
File == [lines : Seq(Record), rest : Record \cup {Nothing, Fragment}]

Empty == [lines |-> <<>>, rest |-> Nothing]

\* The lines of a file once a newline has been put behind its rest.
Healed(f) == IF f.rest \in Record THEN Append(f.lines, f.rest) ELSE f.lines

\* Mutant of Appended: the record is spliced onto a torn rest.
AppendedMut(f, r) ==
  [lines |-> IF f.rest = Nothing THEN Append(f.lines, r) ELSE f.lines, rest |-> Nothing]

\* append_line(): one write, with a newline before the record if the file does
\* not end in one.
Appended(f, r) == [lines |-> Append(Healed(f), r), rest |-> Nothing]

\* That write fails, or comes short: after nothing, after the newline before
\* the record, inside the record, or right before the newline behind it.
Torn(f, r) ==
  {f} \cup {[lines |-> Healed(f), rest |-> t] : t \in {Nothing, Fragment, r}}

\* consume_jsonl(): the committed records are taken out, the rest stays.
Consumed(f) == [f EXCEPT !.lines = <<>>]
=============================================================================
