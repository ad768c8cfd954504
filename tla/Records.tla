------------------------------ MODULE Records ------------------------------
(***************************************************************************)
(* A direction of a TLS connection, seen as the record layer sees it: a    *)
(* byte stream cut into records, each a 5-byte head and its body (RFC 8446 *)
(* 5.1; struct ktls_records in src/ktls.c).  A stream is given by the      *)
(* cumulative offset just past each of its records, so that the bytes of   *)
(* every record, and the length its head announces, follow from it.        *)
(***************************************************************************)
EXTENDS Integers, Sequences, FiniteSets

CONSTANTS
  Streams,     \* the streams a peer may send
  TableSize    \* how many record ends the counter can hold: 64 in the code

HeadLen == 5
MaxBody == 65535        \* what two length bytes can announce

(* Where record k of stream b begins, and how long its body is.            *)
Start(b, k) == IF k = 1 THEN 0 ELSE b[k - 1]
BodyLen(b, k) == b[k] - Start(b, k) - HeadLen

IsStream(b) ==
  /\ b \in Seq(Nat)
  /\ \A k \in DOMAIN b : BodyLen(b, k) \in 0 .. MaxBody
  /\ \A i, k \in DOMAIN b : i < k => b[i] < b[k]

ASSUME StreamsAssumption == \A b \in Streams : IsStream(b)
ASSUME TableSizeAssumption == TableSize \in Nat \ {0}

Size(b) == IF b = <<>> THEN 0 ELSE b[Len(b)]

(* The records that end at or before an offset, and those that end in      *)
(* (after, upto]: the reference both counters are measured against.        *)
EndedBy(b, o) == {k \in DOMAIN b : b[k] <= o}
EndedIn(b, after, upto) == {k \in DOMAIN b : b[k] > after /\ b[k] <= upto}

(* The record byte o of the stream lies in, and the byte itself.  The two  *)
(* length bytes close the head; nothing else in a record is ever read, so  *)
(* every other byte is one placeholder.                                    *)
RecordAt(b, o) == CHOOSE k \in DOMAIN b : Start(b, k) <= o /\ o < b[k]

HeadByte(len, j) == IF j = 3 THEN len \div 256 ELSE IF j = 4 THEN len % 256 ELSE 0

ByteAt(b, o) ==
  LET k == RecordAt(b, o)
  IN  HeadByte(BodyLen(b, k), o - Start(b, k))
=============================================================================
