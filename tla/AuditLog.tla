------------------------------ MODULE AuditLog ------------------------------
(***************************************************************************)
(* The audit file (audit/jsonl.go): what an append leaves when the disk is *)
(* full or the process dies, and what `audit tail` reads from it.          *)
(*                                                                         *)
(* A log is a sequence of chunks, one per write that reached the file.  A  *)
(* chunk is the whole line, the line without its newline, or only a        *)
(* beginning of it.                                                        *)
(***************************************************************************)
EXTENDS Integers, Sequences, FiniteSets

Chunk(record, part) == [record |-> record, part |-> part]

\* Mutant of Recorded: the file is opened with O_TRUNC.
RecordedAnew(log, record, failed) ==
  IF failed THEN {log, <<Chunk(record, "unterminated")>>, <<Chunk(record, "torn")>>}
  ELSE {<<Chunk(record, "whole")>>}

\* Mutant of Recorded: the newline is a write of its own.
RecordedInTwo(log, record, failed) ==
  {log \o <<Chunk(record, "unterminated"), Chunk(record, "torn")>>}

\* Record: the files an append can leave.  Record drops every error.
Recorded(log, record, failed) ==
  IF failed
  THEN {log, Append(log, Chunk(record, "unterminated")), Append(log, Chunk(record, "torn"))}
  ELSE {Append(log, Chunk(record, "whole"))}

\* The chunks that begin a line; the others continue the line of an
\* incomplete chunk before them.
Lines(log) == {i \in DOMAIN log : i = 1 \/ log[i - 1].part = "whole"}

\* A line parses if it is one object and nothing else.
Parses(log, i) == log[i].part = "whole" \/ (log[i].part = "unterminated" /\ i = Len(log))

\* The positions of a set in order.
InTurn(s) == [k \in 1 .. Cardinality(s) |-> CHOOSE i \in s : Cardinality({j \in s : j <= i}) = k]

\* Tail takes the last n lines and then drops those that do not parse.
Latest(log, n) == {i \in Lines(log) : Cardinality({j \in Lines(log) : j > i}) < n}
TailRecords(log, n) ==
  LET kept == InTurn({i \in Latest(log, n) : Parses(log, i)})
  IN  [k \in DOMAIN kept |-> log[kept[k]].record]
=============================================================================
