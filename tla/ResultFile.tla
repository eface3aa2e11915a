----------------------------- MODULE ResultFile -----------------------------
(***************************************************************************)
(* A JSONL file of results: one line is appended per measurement, and every *)
(* invocation starts by reading all of it.  A process may die while a line  *)
(* is written:                                                              *)
(*   whole    every line is complete                                        *)
(*   open     the last line lacks its newline; it can be read, but the next *)
(*            append goes to the same line                                  *)
(*   broken   some line is not JSON: every later reading raises             *)
(***************************************************************************)
EXTENDS Sequences, SequencesExt

FileStates == {"whole", "open", "broken"}

NoFile == [lines |-> <<>>, state |-> "whole"]

Readable(file) == file.state # "broken"

Records(file) == ToSet(file.lines)

(* The line goes to the end; after an open line the two become one.         *)
Appended(file, record) ==
  IF file.state = "open" THEN [file EXCEPT !.state = "broken"]
  ELSE [file EXCEPT !.lines = Append(@, record)]

(* What an append may leave when the process dies during it, but for the    *)
(* file as it was and the file with the line.                               *)
TornAppends(file, record) ==
  {[file EXCEPT !.state = "broken"], [Appended(file, record) EXCEPT !.state =
                                        IF @ = "whole" THEN "open" ELSE @]}
=============================================================================
