---------------------------- MODULE RecordStream ----------------------------
(***************************************************************************)
(* What a record counter promises, with no scanner in it: after any number *)
(* of bytes it knows the ends of the records those bytes completed, up to  *)
(* the size of its table, and says so when there were more.  RecordScan    *)
(* implements it; Exchange relies on it.                                   *)
(***************************************************************************)
EXTENDS Records

VARIABLES bound, offset, ends, overflowed

vars == <<bound, offset, ends, overflowed>>

Least(a, b) == IF a < b THEN a ELSE b

KnownEnds(b, o) == SubSeq(b, 1, Least(TableSize, Cardinality(EndedBy(b, o))))

Init ==
  /\ bound \in Streams
  /\ offset = 0
  /\ ends = <<>>
  /\ overflowed = FALSE

(* Any number of further bytes pass at once, whatever records they cut.    *)
Advance ==
  \E o \in offset + 1 .. Size(bound) :
    /\ offset' = o
    /\ ends' = KnownEnds(bound, o)
    /\ overflowed' = (Cardinality(EndedBy(bound, o)) > TableSize)
    /\ UNCHANGED bound

Spec == Init /\ [][Advance]_vars
=============================================================================
