----------------------------- MODULE RecordScan -----------------------------
(***************************************************************************)
(* ktls_scan: the walk that finds record ends in bytes that arrive in      *)
(* whatever pieces the caller chose, one action per turn of its loop, and  *)
(* ktls_exchange_feed, the call around it.  take() drives the same walk    *)
(* over the bytes that leave.                                              *)
(***************************************************************************)
EXTENDS Records

CONSTANT Pieces      \* the lengths a caller may feed at once

ASSUME PiecesAssumption == Pieces \subseteq Nat

VARIABLES
  bound,        \* the peer's stream: chosen once, never changed
  \* struct ktls_records
  offset, body_left, head, head_len, ends, overflowed,
  \* the call in progress: its length, the bytes its loop has left
  busy, len, left,
  rx_fed        \* struct ktls_exchange: bytes fed so far

record == <<offset, body_left, head, head_len, ends, overflowed>>
vars == <<bound, record, busy, len, left, rx_fed>>

Min2(a, b) == IF a < b THEN a ELSE b

Init ==
  /\ bound \in Streams
  /\ offset = 0
  /\ body_left = 0
  /\ head = [j \in 0 .. HeadLen - 1 |-> 0]
  /\ head_len = 0
  /\ ends = <<>>
  /\ overflowed = FALSE
  /\ busy = FALSE
  /\ len = 0
  /\ left = 0
  /\ rx_fed = 0

(* ktls_exchange_feed is entered with the next n bytes of the stream.      *)
Feed(n) ==
  /\ ~busy
  /\ n > 0
  /\ offset + n <= Size(bound)
  /\ busy' = TRUE
  /\ len' = n
  /\ left' = n
  /\ UNCHANGED <<bound, record, rx_fed>>

(* A table that writes its next slot before it asks whether there is one.  *)
NoteEndUnchecked(o) ==
  /\ ends' = Append(ends, o)
  /\ overflowed' = (Len(ends) >= TableSize)

(* One that calls itself overflowed as soon as it is full, one that drops  *)
(* an end and does not say so, and one that cannot go on.                  *)
NoteEndFullIsOver(o) ==
  /\ ends' = IF Len(ends) < TableSize THEN Append(ends, o) ELSE ends
  /\ overflowed' = (Len(ends) + 1 >= TableSize)
NoteEndForgets(o) ==
  /\ ends' = IF Len(ends) < TableSize THEN Append(ends, o) ELSE ends
  /\ UNCHANGED overflowed
NoteEndStops(o) ==
  /\ Len(ends) < TableSize
  /\ ends' = Append(ends, o)
  /\ UNCHANGED overflowed

(* A record ended at offset o: noted while the table has room.             *)
NoteEnd(o) ==
  IF Len(ends) < TableSize
    THEN ends' = Append(ends, o) /\ UNCHANGED overflowed
    ELSE overflowed' = TRUE /\ UNCHANGED ends

(* The low length byte alone.                                              *)
AnnouncedLow(h) == h[4]
(* The body length a whole head announces.                                 *)
Announced(h) == 256 * h[3] + h[4]

(* A turn of the loop with no body open: more of the next head, and when   *)
(* it is whole, the body length it announces.                              *)
ScanHead ==
  LET got == Min2(left, HeadLen - head_len)
      read == [j \in 0 .. HeadLen - 1 |->
                 IF j \in head_len .. head_len + got - 1
                   THEN ByteAt(bound, offset + (j - head_len))
                   ELSE head[j]]
      body == Announced(read)
  IN  /\ busy /\ left > 0 /\ body_left = 0
      /\ head' = read
      /\ offset' = offset + got
      /\ \/ /\ head_len + got < HeadLen
            /\ head_len' = head_len + got
            /\ left' = 0
            /\ UNCHANGED <<body_left, ends, overflowed>>
         \/ /\ head_len + got = HeadLen
            /\ head_len' = 0
            /\ left' = left - got
            /\ body_left' = body
            /\ IF body = 0 THEN NoteEnd(offset + got) ELSE UNCHANGED <<ends, overflowed>>
      /\ UNCHANGED <<bound, busy, len, rx_fed>>

(* A turn of the loop inside a body.                                       *)
ScanBody ==
  LET got == Min2(left, body_left)
  IN  /\ busy /\ left > 0 /\ body_left > 0
      /\ body_left' = body_left - got
      /\ offset' = offset + got
      /\ left' = left - got
      /\ IF body_left = got THEN NoteEnd(offset + got) ELSE UNCHANGED <<ends, overflowed>>
      /\ UNCHANGED <<bound, head, head_len, busy, len, rx_fed>>

(* The walk is over and feed() adds nothing to its own count.              *)
ReturnUncounted ==
  /\ busy /\ left = 0
  /\ busy' = FALSE
  /\ UNCHANGED <<bound, record, len, left, rx_fed>>

(* The walk is over; feed() adds what it was given and returns.            *)
Return ==
  /\ busy /\ left = 0
  /\ busy' = FALSE
  /\ rx_fed' = rx_fed + len
  /\ UNCHANGED <<bound, record, len, left>>

Scan == ScanHead \/ ScanBody \/ Return

Next == (\E n \in Pieces : Feed(n)) \/ Scan

(* A C call runs to its end once entered; nothing makes a caller call.     *)
Spec == Init /\ [][Next]_vars /\ WF_vars(Scan)
-----------------------------------------------------------------------------
(* The record that ended just where the range begins counted too.          *)
RecordsFrom(after, upto) ==
  Cardinality({i \in DOMAIN ends : ends[i] >= after /\ ends[i] <= upto})

(* ktls_records_between.                                                   *)
RecordsBetween(after, upto) ==
  Cardinality({i \in DOMAIN ends : ends[i] > after /\ ends[i] <= upto})

MaxByte == 255
Bytes == 0 .. MaxByte

(* The fields keep their ranges: the head buffer never holds a full head   *)
(* between turns, a body being walked is no longer than a head can say,    *)
(* and the table never outgrows its array.                                 *)
TypeOK ==
  /\ bound \in Streams
  /\ offset \in Nat
  /\ body_left \in 0 .. MaxBody
  /\ head \in [0 .. HeadLen - 1 -> Bytes]
  /\ head_len \in 0 .. HeadLen - 1
  /\ ends \in Seq(Nat) /\ Len(ends) <= TableSize
  /\ overflowed \in BOOLEAN
  /\ busy \in BOOLEAN
  /\ len \in Nat /\ left \in 0 .. len
  /\ rx_fed \in Nat

(* However the bytes were cut into calls, the table holds the ends of the  *)
(* first records of the stream in order, every one the bytes so far        *)
(* completed unless the walk said it overflowed, and it says so only when  *)
(* one more record than the table holds has gone by (ktls_scan).           *)
EndsExact ==
  /\ Len(ends) <= Len(bound)
  /\ \A i \in DOMAIN ends : ends[i] = bound[i] /\ bound[i] <= offset
  /\ ~overflowed => \A k \in DOMAIN bound : k > Len(ends) => bound[k] > offset
  /\ overflowed => /\ Len(ends) = TableSize
                   /\ Len(bound) > TableSize
                   /\ bound[TableSize + 1] <= offset

(* While nothing overflowed, ktls_records_between answers, for any range   *)
(* the bytes so far cover, exactly how many records of the stream ended in *)
(* it - the number crypto_info hands the kernel as a sequence.             *)
CountExact ==
  ~overflowed =>
    \A after \in 0 .. offset : \A upto \in after .. offset :
      RecordsBetween(after, upto) = Cardinality(EndedIn(bound, after, upto))

(* rx_fed and the walk's own offset are two counters of the same bytes,    *)
(* and crypto_info subtracts one and compares it with ends recorded by the *)
(* other: between calls they are equal.                                    *)
CountersAgree == ~busy => rx_fed = offset

(* Which record the walk stands in: records 1 .. k-1 are behind it, noted  *)
(* as far as the table reaches, and it is head_len bytes into the head of  *)
(* record k or body_left bytes before its end.                             *)
AtRecord(k) ==
  /\ Len(ends) = Min2(k - 1, TableSize)
  /\ \A i \in DOMAIN ends : ends[i] = bound[i]
  /\ overflowed <=> k - 1 > TableSize
  /\ head_len + body_left > 0 => k <= Len(bound)
  /\ body_left > 0 => /\ head_len = 0
                      /\ offset = bound[k] - body_left
                      /\ body_left <= BodyLen(bound, k)
  /\ body_left = 0 => /\ offset = Start(bound, k) + head_len
                      /\ \A j \in 0 .. head_len - 1 :
                           head[j] = HeadByte(BodyLen(bound, k), j)

(* The bytes a call was given are walked or still to be walked, and were   *)
(* all the peer's.                                                         *)
Accounted ==
  /\ offset + left <= Size(bound)
  /\ busy => rx_fed + len = offset + left
  /\ ~busy => rx_fed = offset /\ left = 0

(* The inductive invariant behind EndsExact and CountersAgree.             *)
ScanInv == TypeOK /\ Accounted /\ \E k \in 1 .. Len(bound) + 1 : AtRecord(k)

(* Every call to feed() returns: each turn of ktls_scan's loop consumes.   *)
FeedReturns == busy ~> ~busy

(* The walk implements the counter Exchange relies on.                     *)
Ideal == INSTANCE RecordStream
ImplementsStream == Ideal!Spec
=============================================================================
