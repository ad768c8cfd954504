-------------------------- MODULE RecordScanProofs --------------------------
(***************************************************************************)
(* ktls_scan finds exactly the record ends, for every stream, every way of *)
(* cutting it into calls and every size of the table.                      *)
(***************************************************************************)
EXTENDS RecordScan, FiniteSetTheorems, SequenceTheorems, TLAPS

(* A byte belongs to one record only: the one whose start is at or before  *)
(* it and whose end is past it.                                            *)
LEMMA RecordAtUnique ==
  ASSUME NEW b, IsStream(b), NEW k \in DOMAIN b, NEW o \in Nat,
         Start(b, k) <= o, o < b[k]
  PROVE  RecordAt(b, o) = k
<1>1. \A i \in DOMAIN b : Start(b, i) <= o /\ o < b[i] => i = k
  <2> SUFFICES ASSUME NEW i \in DOMAIN b, Start(b, i) <= o, o < b[i], i # k
               PROVE  FALSE
    OBVIOUS
  <2>0. b \in Seq(Nat) /\ DOMAIN b = 1 .. Len(b) /\ Len(b) \in Nat
    BY DEF IsStream
  <2>1. CASE i < k
    <3>1. k - 1 \in DOMAIN b /\ (i = k - 1 \/ i < k - 1)
      BY <2>0, <2>1
    <3>2. b[i] <= b[k - 1] /\ b[k - 1] \in Nat /\ b[i] \in Nat
      BY <2>0, <3>1 DEF IsStream
    <3>3. Start(b, k) = b[k - 1]
      BY <2>0, <2>1 DEF Start
    <3> QED BY <3>2, <3>3
  <2>2. CASE k < i
    <3>1. i - 1 \in DOMAIN b /\ (k = i - 1 \/ k < i - 1)
      BY <2>0, <2>2
    <3>2. b[k] <= b[i - 1] /\ b[i - 1] \in Nat /\ b[k] \in Nat
      BY <2>0, <3>1 DEF IsStream
    <3>3. Start(b, i) = b[i - 1]
      BY <2>0, <2>2 DEF Start
    <3> QED BY <3>2, <3>3
  <2> QED BY <2>0, <2>1, <2>2
<1> QED BY <1>1 DEF RecordAt

(* The two limits as facts: a literal interval would be spelled out        *)
(* element by element to the solver.                                       *)
LEMMA Limits ==
  /\ MaxBody \in Nat /\ MaxBody >= 65535 /\ MaxBody <= 65535
  /\ MaxByte \in Nat /\ MaxByte >= 255 /\ MaxByte <= 255
  BY DEF MaxBody, MaxByte

(* The two length bytes of a head give back the length they announce.      *)
LEMMA HeadBytes ==
  ASSUME NEW n \in 0 .. MaxBody
  PROVE  /\ \A j \in 0 .. HeadLen - 1 : HeadByte(n, j) \in Bytes
         /\ 256 * HeadByte(n, 3) + HeadByte(n, 4) = n
<1>1. n \in Nat /\ n < 65536
  BY Limits
<1>2. n \div 256 \in Bytes /\ n % 256 \in Bytes /\ 0 \in Bytes
  BY <1>1, Limits DEF Bytes
<1>5. 256 * (n \div 256) + (n % 256) = n
  BY <1>1
<1>3. \A j \in 0 .. 4 : HeadByte(n, j) \in {n \div 256, n % 256, 0}
  BY DEF HeadByte
<1>4. HeadByte(n, 3) = n \div 256 /\ HeadByte(n, 4) = n % 256
  BY DEF HeadByte
<1> QED BY <1>2, <1>3, <1>4, <1>5 DEF HeadLen

(* What the streams look like to the provers: Start and BodyLen of a       *)
(* record, and the size of the whole stream.                               *)
LEMMA StreamFacts ==
  ASSUME NEW b, IsStream(b)
  PROVE  /\ b \in Seq(Nat) /\ DOMAIN b = 1 .. Len(b) /\ Len(b) \in Nat
         /\ \A k \in 1 .. Len(b) + 1 : Start(b, k) \in Nat
         /\ \A k \in 1 .. Len(b) : /\ BodyLen(b, k) \in 0 .. MaxBody
                                 /\ b[k] = Start(b, k) + HeadLen + BodyLen(b, k)
                                 /\ b[k] \in Nat
                                 /\ Start(b, k + 1) = b[k]
         /\ Start(b, Len(b) + 1) = Size(b)
<1>1. b \in Seq(Nat) /\ DOMAIN b = 1 .. Len(b) /\ Len(b) \in Nat
  BY DEF IsStream
<1>2. \A k \in 1 .. Len(b) + 1 : Start(b, k) \in Nat
  BY <1>1 DEF Start
<1>3. \A k \in 1 .. Len(b) : BodyLen(b, k) \in 0 .. MaxBody /\ b[k] \in Nat
  BY <1>1 DEF IsStream
<1>4. \A k \in 1 .. Len(b) : b[k] = Start(b, k) + HeadLen + BodyLen(b, k)
  BY <1>1, <1>2, <1>3 DEF BodyLen, HeadLen
<1>5. \A k \in 1 .. Len(b) : Start(b, k + 1) = b[k]
  BY <1>1 DEF Start
<1>6. Start(b, Len(b) + 1) = Size(b)
  <2>1. CASE b = <<>>
    BY <2>1, <1>1 DEF Start, Size
  <2>2. CASE b # <<>>
    <3>1. Len(b) > 0
      BY <2>2, <1>1
    <3> QED BY <3>1, <2>2, <1>1 DEF Start, Size
  <2> QED BY <2>1, <2>2
<1> QED BY <1>1, <1>2, <1>3, <1>4, <1>5, <1>6

(* Records end one after the other.                                        *)
LEMMA EndsOrdered ==
  ASSUME NEW b, IsStream(b), NEW i \in DOMAIN b, NEW j \in DOMAIN b, i <= j
  PROVE  b[i] <= b[j] /\ b[i] \in Nat /\ b[j] \in Nat
<1>1. b \in Seq(Nat) /\ DOMAIN b = 1 .. Len(b) /\ Len(b) \in Nat
  BY DEF IsStream
<1>2. b[i] \in Nat /\ b[j] \in Nat /\ i \in Nat /\ j \in Nat
  BY <1>1
<1>3. i < j => b[i] < b[j]
  BY DEF IsStream
<1>4. i = j \/ i < j
  BY <1>2
<1> QED BY <1>2, <1>3, <1>4

(* NoteEnd at the end of record k turns "records 1 .. k-1 noted" into      *)
(* "records 1 .. k noted", whether or not the table had room.              *)
LEMMA Noted ==
  ASSUME TypeOK, NEW k \in 1 .. Len(bound), NEW o \in Nat, o = bound[k],
         Len(ends) = Min2(k - 1, TableSize),
         \A i \in DOMAIN ends : ends[i] = bound[i],
         overflowed <=> k - 1 > TableSize,
         NoteEnd(o)
  PROVE  /\ ends' \in Seq(Nat) /\ Len(ends') <= TableSize
         /\ overflowed' \in BOOLEAN
         /\ Len(ends') = Min2(k, TableSize)
         /\ \A i \in DOMAIN ends' : ends'[i] = bound[i]
         /\ overflowed' <=> k > TableSize
<1>0. ends \in Seq(Nat) /\ overflowed \in BOOLEAN /\ TableSize \in Nat \ {0} /\ k \in Nat
      /\ k > 0
  BY TableSizeAssumption DEF TypeOK
<1>1. CASE Len(ends) < TableSize
  <2>1. ends' = Append(ends, o) /\ overflowed' = overflowed
    BY <1>1 DEF NoteEnd
  <2>2. k - 1 < TableSize /\ Len(ends) = k - 1
    BY <1>0, <1>1 DEF Min2
  <2>3. Len(ends') = k /\ ends' \in Seq(Nat)
    BY <1>0, <2>1, <2>2
  <2>4. \A i \in DOMAIN ends' : ends'[i] = bound[i]
    <3> SUFFICES ASSUME NEW i \in 1 .. k PROVE ends'[i] = bound[i]
      BY <2>3
    <3>1. CASE i = k
      BY <3>1, <1>0, <2>1, <2>2
    <3>2. CASE i < k
      BY <3>2, <1>0, <2>1, <2>2
    <3> QED BY <3>1, <3>2, <1>0
  <2>5. ~overflowed /\ ~(k > TableSize) /\ Min2(k, TableSize) = k
    BY <1>0, <2>2 DEF Min2
  <2> QED BY <1>0, <2>1, <2>2, <2>3, <2>4, <2>5
<1>2. CASE ~(Len(ends) < TableSize)
  <2>1. ends' = ends /\ overflowed'
    BY <1>2 DEF NoteEnd
  <2>2. k > TableSize /\ Len(ends) = TableSize /\ Min2(k, TableSize) = TableSize
    BY <1>0, <1>2 DEF Min2
  <2>3. overflowed' \in BOOLEAN
    BY <1>2 DEF NoteEnd
  <2> QED BY <1>0, <2>1, <2>2, <2>3
<1> QED BY <1>1, <1>2

(* What the provers need of the invariant, without the sets it is told in. *)
LEMMA TypeFacts ==
  ASSUME ScanInv
  PROVE  /\ bound \in Streams /\ IsStream(bound)
         /\ offset \in Nat /\ left \in Nat /\ len \in Nat /\ left <= len /\ rx_fed \in Nat
         /\ body_left \in Nat /\ body_left <= 65535
         /\ head_len \in Nat /\ head_len <= 4
         /\ head \in [0 .. 4 -> Bytes]
         /\ ends \in Seq(Nat) /\ Len(ends) <= TableSize
         /\ offset + left <= Size(bound)
         /\ TableSize \in Nat /\ TableSize > 0
<1>1. TypeOK /\ Accounted
  BY DEF ScanInv
<1>2. bound \in Streams /\ IsStream(bound)
  BY <1>1, StreamsAssumption DEF TypeOK
<1>3. offset \in Nat /\ len \in Nat /\ rx_fed \in Nat /\ left \in 0 .. len
  BY <1>1 DEF TypeOK
<1>4. body_left \in 0 .. MaxBody /\ head_len \in 0 .. 4
  BY <1>1 DEF TypeOK, HeadLen
<1>5. head \in [0 .. 4 -> Bytes]
  BY <1>1 DEF TypeOK, HeadLen
<1>6. ends \in Seq(Nat) /\ Len(ends) <= TableSize
  BY <1>1 DEF TypeOK
<1>7. offset + left <= Size(bound)
  BY <1>1 DEF Accounted
<1> QED BY <1>2, <1>3, <1>4, <1>5, <1>6, <1>7, TableSizeAssumption, Limits

(* The walk with bytes left stands in a record of the stream.              *)
LEMMA WalkFacts ==
  ASSUME ScanInv, NEW k \in 1 .. Len(bound) + 1, AtRecord(k), left > 0
  PROVE  k \in 1 .. Len(bound)
<1>1. /\ Len(bound) \in Nat /\ Start(bound, Len(bound) + 1) = Size(bound)
      /\ Size(bound) \in Nat
  BY TypeFacts, StreamFacts
<1>2. CASE k = Len(bound) + 1
  <2>1. ~(head_len + body_left > 0)
    BY <1>1, <1>2 DEF AtRecord
  <2>2. head_len = 0 /\ body_left = 0
    BY <2>1, TypeFacts
  <2>3. offset = Start(bound, k) + head_len
    BY <2>2 DEF AtRecord
  <2>4. offset = Size(bound)
    BY <1>1, <1>2, <2>2, <2>3, TypeFacts
  <2> QED BY <2>4, TypeFacts
<1> QED BY <1>1, <1>2

(* What the walk's position says of the record it is in, in plain numbers. *)
LEMMA InRecord ==
  ASSUME ScanInv, NEW k \in 1 .. Len(bound) + 1, AtRecord(k), left > 0
  PROVE  /\ Len(bound) \in Nat /\ k \in 1 .. Len(bound) /\ k \in DOMAIN bound
         /\ k + 1 \in 1 .. Len(bound) + 1
         /\ Start(bound, k) \in Nat /\ bound[k] \in Nat
         /\ BodyLen(bound, k) \in Nat /\ BodyLen(bound, k) <= 65535
         /\ bound[k] = Start(bound, k) + 5 + BodyLen(bound, k)
         /\ Start(bound, k + 1) = bound[k]
<1>1. k \in 1 .. Len(bound) /\ IsStream(bound)
  BY WalkFacts, TypeFacts
<1>2. /\ BodyLen(bound, k) \in 0 .. MaxBody /\ bound[k] \in Nat
      /\ bound[k] = Start(bound, k) + HeadLen + BodyLen(bound, k)
      /\ Start(bound, k + 1) = bound[k]
  BY <1>1, StreamFacts
<1>3. Start(bound, k) \in Nat /\ Len(bound) \in Nat /\ DOMAIN bound = 1 .. Len(bound)
  BY <1>1, StreamFacts
<1>4. BodyLen(bound, k) \in Nat /\ BodyLen(bound, k) <= 65535
  BY <1>2, Limits
<1>5. bound[k] = Start(bound, k) + 5 + BodyLen(bound, k)
  BY <1>2 DEF HeadLen
<1>6. k + 1 \in 1 .. Len(bound) + 1
  BY <1>1, <1>3
<1> QED BY <1>1, <1>2, <1>3, <1>4, <1>5, <1>6

(* A turn in the head keeps the position: inside the head, at its end with *)
(* a body to come, or past a record that has none.                         *)
LEMMA ScanHeadStep == ScanInv /\ ScanHead => ScanInv'
<1> SUFFICES ASSUME ScanInv, ScanHead PROVE ScanInv'
  OBVIOUS
<1>0. PICK k \in 1 .. Len(bound) + 1 : AtRecord(k)
  BY DEF ScanInv
<1> DEFINE got == Min2(left, HeadLen - head_len)
           read == [j \in 0 .. HeadLen - 1 |->
                      IF j \in head_len .. head_len + got - 1
                        THEN ByteAt(bound, offset + (j - head_len))
                        ELSE head[j]]
           n == BodyLen(bound, k)
           first == Start(bound, k)
<1>1. busy /\ left > 0 /\ body_left = 0
  BY DEF ScanHead
<1>2. /\ head' = read /\ offset' = offset + got
      /\ bound' = bound /\ busy' = busy /\ len' = len /\ rx_fed' = rx_fed
  BY DEF ScanHead
<1>3. \/ /\ head_len + got < HeadLen
         /\ head_len' = head_len + got
         /\ left' = 0
         /\ body_left' = body_left /\ ends' = ends /\ overflowed' = overflowed
      \/ /\ head_len + got = HeadLen
         /\ head_len' = 0
         /\ left' = left - got
         /\ body_left' = 256 * read[3] + read[4]
         /\ IF 256 * read[3] + read[4] = 0
              THEN NoteEnd(offset + got)
              ELSE ends' = ends /\ overflowed' = overflowed
  BY DEF ScanHead, Announced
<1>4. /\ Len(bound) \in Nat /\ k \in 1 .. Len(bound) /\ k \in DOMAIN bound
      /\ k + 1 \in 1 .. Len(bound) + 1
      /\ first \in Nat /\ bound[k] \in Nat /\ n \in Nat /\ n <= 65535
      /\ bound[k] = first + 5 + n
      /\ Start(bound, k + 1) = bound[k]
  BY <1>0, <1>1, InRecord
<1>5. offset = first + head_len
  BY <1>0, <1>1 DEF AtRecord
<1>6. \A j \in 0 .. head_len - 1 : head[j] = HeadByte(n, j)
  BY <1>0, <1>1 DEF AtRecord
<1>7. /\ head_len \in Nat /\ head_len <= 4 /\ left \in Nat /\ offset \in Nat
      /\ IsStream(bound)
  BY TypeFacts
<1>8. got \in Nat /\ got >= 1 /\ got <= left /\ head_len + got <= 5
      /\ (head_len + got < 5 => left = got)
  BY <1>1, <1>7 DEF HeadLen, Min2
<1> HIDE DEF got, n, first
<1>9. \A j \in 0 .. head_len + got - 1 : read[j] = HeadByte(n, j)
  <2> SUFFICES ASSUME NEW j \in 0 .. head_len + got - 1 PROVE read[j] = HeadByte(n, j)
    OBVIOUS
  <2>0. j \in 0 .. HeadLen - 1 /\ j \in Nat /\ j < head_len + got
    BY <1>7, <1>8 DEF HeadLen
  <2>1. CASE j < head_len
    <3>1. j \notin head_len .. head_len + got - 1 /\ j \in 0 .. head_len - 1
      BY <2>0, <2>1, <1>7, <1>8
    <3>2. read[j] = head[j]
      BY <2>0, <3>1
    <3> QED BY <3>1, <3>2, <1>6
  <2>2. CASE ~(j < head_len)
    <3>0. PICK o : o = offset + (j - head_len)
      OBVIOUS
    <3>1. o \in Nat /\ o - first = j /\ first <= o /\ o < bound[k]
      BY <1>4, <1>5, <1>7, <1>8, <2>0, <2>2, <3>0
    <3>2. RecordAt(bound, o) = k
      BY <3>1, <1>4, <1>7, RecordAtUnique DEF first
    <3>3. ByteAt(bound, o) = HeadByte(n, j)
      BY <3>1, <3>2, Zenon DEF ByteAt, first, n
    <3>4. j \in head_len .. head_len + got - 1
      BY <2>0, <2>2, <1>7, <1>8
    <3>5. read[j] = ByteAt(bound, o)
      BY <2>0, <3>0, <3>4
    <3> QED BY <3>3, <3>5
  <2> QED BY <2>1, <2>2
<1>10. \A j \in 0 .. HeadLen - 1 : read[j] \in Bytes
  <2> SUFFICES ASSUME NEW j \in 0 .. HeadLen - 1 PROVE read[j] \in Bytes
    OBVIOUS
  <2>0. j \in Nat /\ j \in 0 .. 4
    BY DEF HeadLen
  <2>1. CASE j < head_len + got
    <3>1. j \in 0 .. head_len + got - 1
      BY <2>0, <2>1, <1>7, <1>8
    <3>2. n \in 0 .. MaxBody
      BY <1>4, Limits
    <3>3. HeadByte(n, j) \in Bytes
      BY <3>2, HeadBytes
    <3> QED BY <3>1, <3>3, <1>9
  <2>2. CASE ~(j < head_len + got)
    <3>1. j \notin head_len .. head_len + got - 1
      BY <2>0, <2>2, <1>7, <1>8
    <3>2. read[j] = head[j]
      BY <3>1
    <3>3. head[j] \in Bytes
      BY <2>0, TypeFacts
    <3> QED BY <3>2, <3>3
  <2> QED BY <2>1, <2>2
<1>11. head' \in [0 .. HeadLen - 1 -> Bytes]
  BY <1>2, <1>10
<1> HIDE DEF read
<1>12. CASE head_len + got < 5
  <2>1. /\ head_len' = head_len + got /\ left' = 0 /\ left = got
        /\ body_left' = body_left /\ ends' = ends /\ overflowed' = overflowed
    BY <1>3, <1>8, <1>12 DEF HeadLen
  <2>2. head_len' \in 0 .. HeadLen - 1 /\ offset' \in Nat /\ left' \in 0 .. len'
    BY <1>2, <1>7, <1>8, <1>12, <2>1, TypeFacts DEF HeadLen
  <2>3. TypeOK'
    BY <1>2, <1>11, <2>1, <2>2 DEF ScanInv, TypeOK
  <2>4. Accounted'
    <3>1. offset' + left' = offset + left
      BY <1>2, <1>7, <1>8, <2>1
    <3> QED BY <1>1, <1>2, <3>1 DEF ScanInv, Accounted
  <2>5. AtRecord(k)'
    <3>1. offset' = Start(bound', k) + head_len'
      BY <1>2, <1>4, <1>5, <1>7, <1>8, <2>1 DEF first
    <3>2. \A j \in 0 .. head_len' - 1 : head'[j] = HeadByte(BodyLen(bound', k), j)
      <4>1. BodyLen(bound', k) = n
        BY <1>2 DEF n
      <4>2. \A j \in 0 .. head_len' - 1 : j \in 0 .. head_len + got - 1
        BY <2>1, <1>7, <1>8
      <4> QED BY <1>2, <1>9, <4>1, <4>2
    <3>3. /\ Len(ends') = Min2(k - 1, TableSize)
          /\ \A i \in DOMAIN ends' : ends'[i] = bound'[i]
          /\ overflowed' <=> k - 1 > TableSize
      BY <1>0, <1>2, <2>1 DEF AtRecord
    <3>4. k <= Len(bound') /\ ~(body_left' > 0)
      BY <1>1, <1>2, <1>4, <2>1
    <3> QED BY <3>1, <3>2, <3>3, <3>4 DEF AtRecord
  <2> QED BY <1>2, <2>3, <2>4, <2>5 DEF ScanInv
<1>13. CASE ~(head_len + got < 5)
  <2>0. head_len + got = 5
    BY <1>7, <1>8, <1>13
  <2>1. 256 * read[3] + read[4] = n
    <3>1. 3 \in 0 .. head_len + got - 1 /\ 4 \in 0 .. head_len + got - 1
      BY <2>0, <1>7, <1>8
    <3>2. read[3] = HeadByte(n, 3) /\ read[4] = HeadByte(n, 4)
      BY <1>9, <3>1
    <3>3. n \in 0 .. MaxBody
      BY <1>4, Limits
    <3> QED BY <3>2, <3>3, HeadBytes
  <2>2. /\ head_len' = 0 /\ left' = left - got /\ body_left' = n
        /\ IF n = 0 THEN NoteEnd(offset + got) ELSE ends' = ends /\ overflowed' = overflowed
    BY <1>3, <2>0, <2>1 DEF HeadLen
  <2>3. offset' = first + 5 /\ offset' \in Nat
    BY <1>2, <1>4, <1>5, <1>7, <1>8, <2>0
  <2>4. Accounted'
    <3>1. offset' + left' = offset + left
      BY <1>2, <1>7, <1>8, <2>2
    <3> QED BY <1>1, <1>2, <3>1 DEF ScanInv, Accounted
  <2>5. head_len' \in 0 .. HeadLen - 1 /\ body_left' \in 0 .. MaxBody /\ left' \in 0 .. len'
    <3>1. body_left' \in 0 .. MaxBody
      BY <1>4, <2>2, Limits
    <3>2. left' \in 0 .. len'
      BY <1>2, <1>7, <1>8, <2>2, TypeFacts
    <3> QED BY <2>2, <3>1, <3>2 DEF HeadLen
  <2>6. ASSUME ends' \in Seq(Nat), Len(ends') <= TableSize, overflowed' \in BOOLEAN
        PROVE  TypeOK'
    BY <1>2, <1>11, <2>3, <2>5, <2>6 DEF ScanInv, TypeOK
  <2>7. CASE n = 0
    <3>1. offset + got = bound[k] /\ offset + got \in Nat
      BY <1>2, <1>4, <2>3, <2>7
    <3>2. /\ Len(ends) = Min2(k - 1, TableSize)
          /\ \A i \in DOMAIN ends : ends[i] = bound[i]
          /\ overflowed <=> k - 1 > TableSize
      BY <1>0 DEF AtRecord
    <3>3. NoteEnd(offset + got) /\ TypeOK
      BY <2>2, <2>7 DEF ScanInv
    <3>4. /\ ends' \in Seq(Nat) /\ Len(ends') <= TableSize /\ overflowed' \in BOOLEAN
          /\ Len(ends') = Min2(k, TableSize)
          /\ \A i \in DOMAIN ends' : ends'[i] = bound[i]
          /\ overflowed' <=> k > TableSize
      BY <1>4, <3>1, <3>2, <3>3, Noted
    <3>5. k + 1 - 1 = k
      BY <1>4
    <3>6. offset' = Start(bound', k + 1) + head_len'
      BY <1>2, <1>4, <2>2, <3>1
    <3>7. ~(body_left' > 0) /\ ~(head_len' + body_left' > 0)
          /\ ~\E j \in 0 .. head_len' - 1 : TRUE
      BY <2>2, <2>7
    <3>8. AtRecord(k + 1)'
      BY <1>2, <3>4, <3>5, <3>6, <3>7 DEF AtRecord
    <3> QED BY <1>2, <1>4, <2>4, <2>6, <3>4, <3>8 DEF ScanInv
  <2>8. CASE n # 0
    <3>1. ends' = ends /\ overflowed' = overflowed
      BY <2>2, <2>8
    <3>2. TypeOK'
      BY <2>6, <3>1 DEF ScanInv, TypeOK
    <3>3. offset' = bound'[k] - body_left' /\ body_left' > 0
      BY <1>2, <1>4, <2>2, <2>3, <2>8
    <3>4. body_left' <= BodyLen(bound', k)
      BY <1>2, <1>4, <2>2 DEF n
    <3>5. /\ Len(ends') = Min2(k - 1, TableSize)
          /\ \A i \in DOMAIN ends' : ends'[i] = bound'[i]
          /\ overflowed' <=> k - 1 > TableSize
      BY <1>0, <1>2, <3>1 DEF AtRecord
    <3>6. k <= Len(bound') /\ body_left' # 0 /\ head_len' = 0
      BY <1>2, <1>4, <2>2, <2>8
    <3>7. AtRecord(k)'
      BY <3>3, <3>4, <3>5, <3>6 DEF AtRecord
    <3> QED BY <1>2, <2>4, <3>2, <3>7 DEF ScanInv
  <2> QED BY <2>7, <2>8
<1> QED BY <1>12, <1>13

(* A turn in the body keeps it: still inside, or past the record it ends.  *)
LEMMA ScanBodyStep == ScanInv /\ ScanBody => ScanInv'
<1> SUFFICES ASSUME ScanInv, ScanBody PROVE ScanInv'
  OBVIOUS
<1>0. PICK k \in 1 .. Len(bound) + 1 : AtRecord(k)
  BY DEF ScanInv
<1> DEFINE got == Min2(left, body_left)
<1>1. busy /\ left > 0 /\ body_left > 0
  BY DEF ScanBody
<1>2. /\ body_left' = body_left - got /\ offset' = offset + got /\ left' = left - got
      /\ bound' = bound /\ head' = head /\ head_len' = head_len
      /\ busy' = busy /\ len' = len /\ rx_fed' = rx_fed
  BY DEF ScanBody
<1>3. IF body_left = got
        THEN NoteEnd(offset + got)
        ELSE ends' = ends /\ overflowed' = overflowed
  BY DEF ScanBody
<1>4. /\ Len(bound) \in Nat /\ k \in 1 .. Len(bound)
      /\ k + 1 \in 1 .. Len(bound) + 1
      /\ bound[k] \in Nat /\ BodyLen(bound, k) \in Nat
      /\ Start(bound, k + 1) = bound[k]
  BY <1>0, <1>1, InRecord
<1>5. offset = bound[k] - body_left /\ head_len = 0 /\ body_left <= BodyLen(bound, k)
  BY <1>0, <1>1 DEF AtRecord
<1>6. /\ Len(ends) = Min2(k - 1, TableSize)
      /\ \A i \in DOMAIN ends : ends[i] = bound[i]
      /\ overflowed <=> k - 1 > TableSize
  BY <1>0 DEF AtRecord
<1>7. left \in Nat /\ offset \in Nat /\ body_left \in Nat /\ body_left <= 65535
  BY TypeFacts
<1>8. got \in Nat /\ got >= 1 /\ got <= left /\ got <= body_left
  BY <1>1, <1>7 DEF Min2
<1> HIDE DEF got
<1>9. Accounted'
  <2>1. offset' + left' = offset + left
    BY <1>2, <1>7, <1>8
  <2> QED BY <1>1, <1>2, <2>1 DEF ScanInv, Accounted
<1>10. ASSUME ends' \in Seq(Nat), Len(ends') <= TableSize, overflowed' \in BOOLEAN
       PROVE  TypeOK'
  <2>1. body_left' \in 0 .. MaxBody
    BY <1>2, <1>7, <1>8, Limits
  <2>2. left' \in 0 .. len'
    BY <1>2, <1>7, <1>8, TypeFacts
  <2>3. offset' \in Nat
    BY <1>2, <1>7, <1>8
  <2> QED BY <1>2, <1>10, <2>1, <2>2, <2>3 DEF ScanInv, TypeOK
<1>11. CASE body_left = got
  <2>1. offset + got = bound[k] /\ offset + got \in Nat
    BY <1>4, <1>5, <1>7, <1>8, <1>11
  <2>2. NoteEnd(offset + got) /\ TypeOK
    BY <1>3, <1>11 DEF ScanInv
  <2>3. /\ ends' \in Seq(Nat) /\ Len(ends') <= TableSize /\ overflowed' \in BOOLEAN
        /\ Len(ends') = Min2(k, TableSize)
        /\ \A i \in DOMAIN ends' : ends'[i] = bound[i]
        /\ overflowed' <=> k > TableSize
    BY <1>4, <1>6, <2>1, <2>2, Noted
  <2>4. k + 1 - 1 = k
    BY <1>4
  <2>5. offset' = Start(bound', k + 1) + head_len'
    BY <1>2, <1>4, <1>5, <2>1
  <2>6. ~(body_left' > 0) /\ ~(head_len' + body_left' > 0)
        /\ ~\E j \in 0 .. head_len' - 1 : TRUE
    BY <1>2, <1>5, <1>7, <1>11
  <2>7. AtRecord(k + 1)'
    BY <1>2, <2>3, <2>4, <2>5, <2>6 DEF AtRecord
  <2> QED BY <1>2, <1>4, <1>9, <1>10, <2>3, <2>7 DEF ScanInv
<1>12. CASE body_left # got
  <2>1. ends' = ends /\ overflowed' = overflowed
    BY <1>3, <1>12
  <2>2. TypeOK'
    BY <1>10, <2>1 DEF ScanInv, TypeOK
  <2>3. offset' = bound'[k] - body_left' /\ body_left' > 0 /\ body_left' # 0
    BY <1>2, <1>4, <1>5, <1>7, <1>8, <1>12
  <2>4. body_left' <= BodyLen(bound', k)
    BY <1>2, <1>4, <1>5, <1>7, <1>8
  <2>5. k <= Len(bound') /\ head_len' = 0
    BY <1>2, <1>4, <1>5
  <2>6. AtRecord(k)'
    BY <1>2, <1>6, <2>1, <2>3, <2>4, <2>5 DEF AtRecord
  <2> QED BY <1>2, <1>9, <2>2, <2>6 DEF ScanInv
<1> QED BY <1>11, <1>12

(* Entering and leaving feed() moves nothing the position depends on.      *)
LEMMA PositionKept ==
  ASSUME ScanInv, bound' = bound, offset' = offset, body_left' = body_left, head' = head,
         head_len' = head_len, ends' = ends, overflowed' = overflowed,
         Accounted', busy' \in BOOLEAN, len' \in Nat, left' \in 0 .. len', rx_fed' \in Nat
  PROVE  ScanInv'
<1>1. TypeOK'
  BY DEF ScanInv, TypeOK
<1>2. PICK k \in 1 .. Len(bound) + 1 : AtRecord(k)
  BY DEF ScanInv
<1>3. AtRecord(k)'
  BY <1>2 DEF AtRecord
<1> QED BY <1>1, <1>3 DEF ScanInv

(* A call that begins hands over bytes of the stream, and no more.         *)
LEMMA FeedStep == ASSUME ScanInv, NEW n \in Pieces, Feed(n) PROVE ScanInv'
<1>1. /\ bound' = bound /\ offset' = offset /\ body_left' = body_left /\ head' = head
      /\ head_len' = head_len /\ ends' = ends /\ overflowed' = overflowed
      /\ ~busy /\ offset + n <= Size(bound) /\ busy' = TRUE /\ len' = n /\ left' = n
      /\ rx_fed' = rx_fed
  BY DEF Feed, record
<1>2. n \in Nat /\ rx_fed = offset /\ offset \in Nat
  BY <1>1, PiecesAssumption, TypeFacts DEF ScanInv, Accounted
<1>3. Accounted'
  BY <1>1, <1>2 DEF Accounted
<1>4. busy' \in BOOLEAN
  BY <1>1
<1>5. len' \in Nat /\ left' \in 0 .. len' /\ rx_fed' \in Nat
  BY <1>1, <1>2
<1> QED BY <1>1, <1>3, <1>4, <1>5, PositionKept

(* A call that ends has walked all it was given, and counts it.            *)
LEMMA ReturnStep == ASSUME ScanInv, Return PROVE ScanInv'
<1>1. /\ bound' = bound /\ offset' = offset /\ body_left' = body_left /\ head' = head
      /\ head_len' = head_len /\ ends' = ends /\ overflowed' = overflowed
      /\ busy /\ left = 0 /\ busy' = FALSE /\ len' = len /\ left' = left
      /\ rx_fed' = rx_fed + len
  BY DEF Return, record
<1>2. /\ rx_fed + len = offset + left /\ offset + left <= Size(bound)
      /\ offset \in Nat /\ len \in Nat /\ rx_fed \in Nat
  BY <1>1, TypeFacts DEF ScanInv, Accounted
<1>3. Accounted'
  BY <1>1, <1>2 DEF Accounted
<1>4. busy' \in BOOLEAN
  BY <1>1
<1>5. len' \in Nat /\ left' \in 0 .. len' /\ rx_fed' \in Nat
  BY <1>1, <1>2
<1> QED BY <1>1, <1>3, <1>4, <1>5, PositionKept

(* A fresh counter stands before the first record (ktls_exchange_open).    *)
LEMMA InitStep == Init => ScanInv
<1> SUFFICES ASSUME Init PROVE ScanInv
  OBVIOUS
<1>1. IsStream(bound)
  BY StreamsAssumption DEF Init
<1>2. Len(bound) \in Nat /\ Size(bound) \in Nat /\ Start(bound, 1) = 0
  <2>1. Start(bound, 1) = 0
    BY DEF Start
  <2> QED BY <1>1, <2>1, StreamFacts
<1>3. TypeOK
  <2>1. 0 \in Bytes /\ 0 \in 0 .. MaxBody
    BY Limits DEF Bytes
  <2>2. head \in [0 .. HeadLen - 1 -> Bytes]
    BY <2>1 DEF Init
  <2>3. ends \in Seq(Nat) /\ Len(ends) <= TableSize
    BY TableSizeAssumption DEF Init
  <2>4. head_len \in 0 .. HeadLen - 1 /\ left \in 0 .. len /\ len \in Nat
    BY DEF Init, HeadLen
  <2> QED BY <2>1, <2>2, <2>3, <2>4 DEF Init, TypeOK
<1>4. Accounted
  BY <1>2 DEF Init, Accounted
<1>5. AtRecord(1)
  BY <1>2, TableSizeAssumption DEF Init, AtRecord, Min2
<1> QED BY <1>2, <1>3, <1>4, <1>5 DEF ScanInv

(* The position is kept by every behaviour of the walk.                    *)
THEOREM ScanInvariant == Spec => []ScanInv
<1>1. ScanInv /\ UNCHANGED vars => ScanInv'
  <2> SUFFICES ASSUME ScanInv, UNCHANGED vars PROVE ScanInv'
    OBVIOUS
  <2>1. /\ bound' = bound /\ offset' = offset /\ body_left' = body_left /\ head' = head
        /\ head_len' = head_len /\ ends' = ends /\ overflowed' = overflowed
        /\ busy' = busy /\ len' = len /\ left' = left /\ rx_fed' = rx_fed
    BY DEF vars, record
  <2>2. Accounted' /\ busy' \in BOOLEAN /\ len' \in Nat /\ left' \in 0 .. len'
        /\ rx_fed' \in Nat
    BY <2>1 DEF ScanInv, TypeOK, Accounted
  <2> QED BY <2>1, <2>2, PositionKept
<1>2. ScanInv /\ [Next]_vars => ScanInv'
  BY <1>1, ScanHeadStep, ScanBodyStep, FeedStep, ReturnStep DEF Next, Scan
<1> QED BY InitStep, <1>2, PTL DEF Spec

(* The walk stands past the end of records 1 .. k-1 and short of the end   *)
(* of record k: what the table's contents mean in terms of the offset.     *)
LEMMA Position ==
  ASSUME ScanInv, NEW k \in 1 .. Len(bound) + 1, AtRecord(k)
  PROVE  \A i \in DOMAIN bound : bound[i] <= offset <=> i < k
<1>1. /\ DOMAIN bound = 1 .. Len(bound) /\ Len(bound) \in Nat
      /\ Start(bound, k) \in Nat /\ IsStream(bound) /\ k \in Nat
  BY TypeFacts, StreamFacts
<1>2. offset \in Nat /\ body_left \in Nat /\ head_len \in Nat /\ head_len <= 4
  BY TypeFacts
<1>3. ASSUME k <= Len(bound) PROVE Start(bound, k) <= offset /\ offset < bound[k]
  <2>0. k \in 1 .. Len(bound)
    BY <1>1, <1>3
  <2>1. /\ BodyLen(bound, k) \in 0 .. MaxBody /\ bound[k] \in Nat
        /\ bound[k] = Start(bound, k) + HeadLen + BodyLen(bound, k)
    BY <2>0, TypeFacts, StreamFacts
  <2>2. CASE body_left > 0
    <3>1. offset = bound[k] - body_left /\ body_left <= BodyLen(bound, k)
      BY <2>2 DEF AtRecord
    <3> QED BY <1>1, <1>2, <2>1, <2>2, <3>1, Limits DEF HeadLen
  <2>3. CASE ~(body_left > 0)
    <3>1. offset = Start(bound, k) + head_len
      BY <2>3, <1>2 DEF AtRecord
    <3> QED BY <1>1, <1>2, <2>1, <3>1, Limits DEF HeadLen
  <2> QED BY <2>2, <2>3
<1>4. ASSUME k = Len(bound) + 1 PROVE Start(bound, k) <= offset
  <2>1. body_left = 0 /\ head_len = 0
    BY <1>1, <1>2, <1>4 DEF AtRecord
  <2>2. offset = Start(bound, k) + head_len
    BY <2>1 DEF AtRecord
  <2> QED BY <1>1, <2>1, <2>2
<1>5. Start(bound, k) <= offset
  <2>1. k <= Len(bound) \/ k = Len(bound) + 1
    BY <1>1
  <2> QED BY <1>3, <1>4, <2>1
<1> SUFFICES ASSUME NEW i \in DOMAIN bound PROVE bound[i] <= offset <=> i < k
  OBVIOUS
<1>6. bound[i] \in Nat /\ i \in Nat /\ i >= 1 /\ i <= Len(bound)
  BY <1>1, EndsOrdered
<1>7. CASE i < k
  <2>1. k - 1 \in DOMAIN bound /\ i <= k - 1 /\ k # 1
    BY <1>1, <1>6, <1>7
  <2>2. Start(bound, k) = bound[k - 1]
    BY <2>1 DEF Start
  <2>3. bound[k - 1] \in Nat /\ bound[i] <= bound[k - 1]
    BY <1>1, <2>1, EndsOrdered
  <2> QED BY <1>2, <1>5, <1>6, <1>7, <2>2, <2>3
<1>8. CASE ~(i < k)
  <2>1. k \in DOMAIN bound /\ k <= Len(bound) /\ k <= i
    BY <1>1, <1>6, <1>8
  <2>2. bound[k] \in Nat /\ bound[k] <= bound[i]
    BY <1>1, <2>1, EndsOrdered
  <2>3. offset < bound[k]
    BY <1>3, <2>1
  <2> QED BY <1>2, <1>6, <1>8, <2>2, <2>3
<1> QED BY <1>7, <1>8

(* The lesser of two numbers.                                              *)
LEMMA Min2Facts ==
  ASSUME NEW a \in Nat, NEW t \in Nat
  PROVE  /\ Min2(a, t) <= a
         /\ a > t => Min2(a, t) = t
         /\ ~(a > t) => Min2(a, t) = a
  BY DEF Min2

(* The invariant says what the table promises.                             *)
LEMMA TableExact == ASSUME ScanInv PROVE EndsExact
<1>0. PICK k \in 1 .. Len(bound) + 1 : AtRecord(k)
  BY DEF ScanInv
<1>1. \A i \in DOMAIN bound : bound[i] <= offset <=> i < k
  BY <1>0, Position
<1>2. /\ Len(ends) = Min2(k - 1, TableSize)
      /\ \A i \in DOMAIN ends : ends[i] = bound[i]
      /\ overflowed <=> k - 1 > TableSize
  BY <1>0 DEF AtRecord
<1>3. /\ Len(bound) \in Nat /\ TableSize \in Nat /\ TableSize > 0 /\ offset \in Nat
      /\ k \in Nat /\ k >= 1 /\ k <= Len(bound) + 1 /\ Len(ends) \in Nat
  BY TypeFacts, StreamFacts
<1>4. DOMAIN ends = 1 .. Len(ends) /\ DOMAIN bound = 1 .. Len(bound)
  BY TypeFacts, StreamFacts
<1>10. \A i \in DOMAIN bound : bound[i] \in Nat
  <2> SUFFICES ASSUME NEW i \in DOMAIN bound PROVE bound[i] \in Nat
    OBVIOUS
  <2>1. i <= i
    BY <1>3, <1>4
  <2> QED BY <2>1, TypeFacts, EndsOrdered
<1>5. Len(ends) <= k - 1 /\ (overflowed => Len(ends) = TableSize)
      /\ (~overflowed => Len(ends) = k - 1)
  <2>1. k - 1 \in Nat
    BY <1>3
  <2> QED BY <1>2, <1>3, <2>1, Min2Facts
<1>6. Len(ends) <= Len(bound) /\ Len(ends) < k
  <2>1. Len(ends) <= k - 1
    BY <1>5
  <2> QED BY <1>3, <2>1
<1>7. \A i \in DOMAIN ends : ends[i] = bound[i] /\ bound[i] <= offset
  <2> SUFFICES ASSUME NEW i \in DOMAIN ends PROVE bound[i] <= offset
    BY <1>2
  <2>1. i \in Nat /\ i >= 1 /\ i <= Len(ends)
    BY <1>3, <1>4
  <2>2. i <= Len(bound) /\ i < k
    BY <1>3, <1>6, <2>1
  <2>3. i \in DOMAIN bound
    BY <1>3, <1>4, <2>1, <2>2
  <2> QED BY <1>1, <2>2, <2>3
<1>8. ASSUME ~overflowed, NEW i \in DOMAIN bound, i > Len(ends) PROVE bound[i] > offset
  <2>1. ~(i < k)
    BY <1>3, <1>5, <1>8
  <2> QED BY <1>1, <1>3, <1>10, <2>1
<1>9. ASSUME overflowed PROVE Len(bound) > TableSize /\ bound[TableSize + 1] <= offset
  <2>1. TableSize + 1 < k /\ TableSize + 1 \in DOMAIN bound
    BY <1>2, <1>3, <1>9
  <2> QED BY <1>1, <1>3, <2>1
<1> QED BY <1>5, <1>6, <1>7, <1>8, <1>9 DEF EndsExact

(* A table that is exact counts exactly, over any range it covers.         *)
LEMMA CountsExactly == ASSUME ScanInv PROVE CountExact
<1> SUFFICES ASSUME ~overflowed, NEW after \in 0 .. offset, NEW upto \in after .. offset
             PROVE  RecordsBetween(after, upto) = Cardinality(EndedIn(bound, after, upto))
  BY DEF CountExact
<1>1. EndsExact
  BY TableExact
<1>2. /\ Len(bound) \in Nat /\ DOMAIN bound = 1 .. Len(bound) /\ offset \in Nat
      /\ DOMAIN ends = 1 .. Len(ends) /\ Len(ends) \in Nat
      /\ \A i \in 1 .. Len(bound) : bound[i] \in Nat
  BY TypeFacts, StreamFacts
<1>3. \A i \in DOMAIN ends : i \in DOMAIN bound /\ ends[i] = bound[i]
  BY <1>1, <1>2 DEF EndsExact
<1>4. ASSUME NEW i \in DOMAIN bound, bound[i] <= upto PROVE i \in DOMAIN ends
  <2>0. bound[i] \in Nat /\ upto \in Nat /\ upto <= offset
    BY <1>2
  <2>1. ~(bound[i] > offset)
    BY <1>2, <1>4, <2>0
  <2>2. ~(i > Len(ends))
    BY <1>1, <2>1 DEF EndsExact
  <2> QED BY <1>2, <2>2
<1>5. {i \in DOMAIN ends : ends[i] > after /\ ends[i] <= upto} = EndedIn(bound, after, upto)
  BY <1>3, <1>4 DEF EndedIn
<1> QED BY <1>5 DEF RecordsBetween

(* For every stream, every way of cutting it and every table size, the     *)
(* ends ktls_scan notes are the ends of the stream's records, and it tells *)
(* exactly when there were more than it could note.                        *)
THEOREM ScanFindsEnds == Spec => []EndsExact
<1>1. ScanInv => EndsExact
  BY TableExact
<1> QED BY <1>1, ScanInvariant, PTL

(* The number ktls_records_between makes of them, which crypto_info hands  *)
(* the kernel as a sequence, is how many records ended in the range.       *)
THEOREM ScanCountsExactly == Spec => []CountExact
<1>1. ScanInv => CountExact
  BY CountsExactly
<1> QED BY <1>1, ScanInvariant, PTL

(* feed()'s counter and the walk's agree whenever no call is in progress.  *)
THEOREM ScanCountersAgree == Spec => []CountersAgree
<1>1. ScanInv => CountersAgree
  BY DEF ScanInv, Accounted, CountersAgree
<1> QED BY <1>1, ScanInvariant, PTL

(* The fields keep their ranges: in particular no turn of the loop writes  *)
(* past head[5] or ends[64].                                               *)
THEOREM ScanTypeOK == Spec => []TypeOK
<1>1. ScanInv => TypeOK
  BY DEF ScanInv
<1> QED BY <1>1, ScanInvariant, PTL

(* FiniteSets seen through RecordStream is FiniteSets.                     *)
LEMMA SameCardinality == ASSUME NEW S PROVE Ideal!Cardinality(S) = Cardinality(S)
  BY DEF Cardinality, Ideal!Cardinality

(* What the abstract counter would know here is what the walk knows.       *)
Knows ==
  /\ ends = Ideal!KnownEnds(bound, offset)
  /\ overflowed = (Cardinality(Ideal!EndedBy(bound, offset)) > TableSize)

(* At every offset the table is what RecordStream would have in its place. *)
LEMMA KnowsWhatItShould == ASSUME ScanInv PROVE Knows
<1>0. PICK k \in 1 .. Len(bound) + 1 : AtRecord(k)
  BY DEF ScanInv
<1>1. /\ Len(bound) \in Nat /\ TableSize \in Nat /\ k \in Nat /\ k >= 1 /\ k <= Len(bound) + 1
      /\ Len(ends) \in Nat
  BY TypeFacts, StreamFacts
<1>2. /\ DOMAIN bound = 1 .. Len(bound) /\ bound \in Seq(Nat) /\ ends \in Seq(Nat)
      /\ DOMAIN ends = 1 .. Len(ends)
  BY TypeFacts, StreamFacts
<1>3. Ideal!EndedBy(bound, offset) = 1 .. k - 1
  <2>1. \A i \in DOMAIN bound : bound[i] <= offset <=> i < k
    BY <1>0, Position
  <2>2. \A i \in 1 .. k - 1 : i \in DOMAIN bound /\ i < k
    BY <1>1, <1>2
  <2>3. \A i \in DOMAIN bound : i < k => i \in 1 .. k - 1
    BY <1>1, <1>2
  <2> QED BY <2>1, <2>2, <2>3 DEF Ideal!EndedBy
<1>4. Cardinality(1 .. k - 1) = k - 1
  <2>1. 1 \in Int /\ k - 1 \in Int
    BY <1>1
  <2>2. Cardinality(1 .. k - 1) = IF 1 > k - 1 THEN 0 ELSE k - 1 - 1 + 1
    BY <2>1, FS_Interval
  <2> QED BY <1>1, <2>2
<1>5. /\ Len(ends) = Min2(k - 1, TableSize)
      /\ \A i \in DOMAIN ends : ends[i] = bound[i]
      /\ overflowed <=> k - 1 > TableSize
  BY <1>0 DEF AtRecord
<1>6. overflowed = (Cardinality(Ideal!EndedBy(bound, offset)) > TableSize)
  <2>1. overflowed \in BOOLEAN
    BY DEF ScanInv, TypeOK
  <2>2. CASE overflowed
    BY <1>1, <1>3, <1>4, <1>5, <2>1, <2>2
  <2>3. CASE ~overflowed
    BY <1>1, <1>3, <1>4, <1>5, <2>1, <2>3
  <2> QED BY <2>2, <2>3
<1>7. Ideal!Least(TableSize, k - 1) = Len(ends) /\ Len(ends) <= Len(bound)
  <2>1. Len(ends) <= Len(bound)
    BY TableExact DEF EndsExact
  <2>2. Ideal!Least(TableSize, k - 1) = Min2(k - 1, TableSize)
    BY <1>1 DEF Ideal!Least, Min2
  <2> QED BY <1>5, <2>1, <2>2
<1>8. ends = SubSeq(bound, 1, Len(ends))
  <2> DEFINE known == SubSeq(bound, 1, Len(ends))
  <2>1. \A i \in 1 .. Len(ends) : bound[i] \in Nat
    BY <1>1, <1>2, <1>7
  <2>2. /\ known \in Seq(Nat) /\ Len(known) = Len(ends)
        /\ \A i \in 1 .. Len(ends) : known[i] = bound[i]
    BY <1>1, <1>2, <1>7
  <2> HIDE DEF known
  <2>3. \A i \in 1 .. Len(ends) : ends[i] = known[i]
    BY <1>2, <1>5, <2>2
  <2>4. ends = known
    BY <1>2, <2>2, <2>3, SeqEqual
  <2> QED BY <2>4 DEF known
<1>9. ends = Ideal!KnownEnds(bound, offset)
  <2>1. Ideal!KnownEnds(bound, offset) = SubSeq(bound, 1, Ideal!Least(TableSize, k - 1))
    BY <1>3, <1>4, SameCardinality, Zenon DEF Ideal!KnownEnds
  <2> QED BY <1>7, <1>8, <2>1, Zenon
<1> QED BY <1>6, <1>9 DEF Knows

(* ktls_scan implements the record counter: whatever the pieces, each of   *)
(* its turns is one step of RecordStream or changes nothing it shows.      *)
THEOREM ScanImplementsStream == Spec => ImplementsStream
<1>1. Init => Ideal!Init
  BY DEF Init, Ideal!Init
<1>2. Spec => [](ScanInv /\ Knows)
  <2>1. ScanInv => Knows
    BY KnowsWhatItShould
  <2> QED BY <2>1, ScanInvariant, PTL
<1>3. ASSUME ScanInv, TypeOK', Accounted', Knows', [Next]_vars
      PROVE  [Ideal!Advance]_(Ideal!vars)
  <2>1. ASSUME offset' > offset, bound' = bound PROVE Ideal!Advance
    <3>1. /\ ends' = Ideal!KnownEnds(bound, offset')
          /\ overflowed' = (Cardinality(Ideal!EndedBy(bound, offset')) > TableSize)
      BY <1>3, <2>1 DEF Knows
    <3>2. offset' + left' <= Size(bound)
      BY <1>3, <2>1 DEF Accounted
    <3>3. offset' \in Nat /\ left' \in Nat /\ offset \in Nat /\ Size(bound) \in Nat
      <4>1. offset' \in Nat /\ left' \in Nat
        BY <1>3 DEF TypeOK
      <4> QED BY <1>3, <4>1, TypeFacts, StreamFacts
    <3>4. offset' \in offset + 1 .. Ideal!Size(bound)
      BY <2>1, <3>2, <3>3 DEF Size, Ideal!Size
    <3> QED BY <2>1, <3>1, <3>4, SameCardinality DEF Ideal!Advance
  <2>9. left \in Nat /\ head_len \in Nat /\ head_len <= 4 /\ body_left \in Nat /\ offset \in Nat
    BY <1>3, TypeFacts
  <2>2. CASE ScanHead
    <3>1. offset' = offset + Min2(left, 5 - head_len) /\ bound' = bound /\ left > 0
      BY <2>2 DEF ScanHead, HeadLen
    <3>2. offset' > offset
      BY <2>9, <3>1 DEF Min2
    <3> QED BY <2>1, <3>1, <3>2
  <2>3. CASE ScanBody
    <3>1. offset' = offset + Min2(left, body_left) /\ bound' = bound /\ left > 0
          /\ body_left > 0
      BY <2>3 DEF ScanBody
    <3>2. offset' > offset
      BY <2>9, <3>1 DEF Min2
    <3> QED BY <2>1, <3>1, <3>2
  <2>4. CASE Return
    BY <2>4 DEF Return, record, Ideal!vars
  <2>5. CASE \E n \in Pieces : Feed(n)
    BY <2>5 DEF Feed, record, Ideal!vars
  <2>6. CASE UNCHANGED vars
    BY <2>6 DEF vars, record, Ideal!vars
  <2> QED BY <1>3, <2>2, <2>3, <2>4, <2>5, <2>6 DEF Next, Scan
<1>4. ScanInv => TypeOK /\ Accounted
  BY DEF ScanInv
<1> QED BY <1>1, <1>2, <1>3, <1>4, PTL DEF Spec, ImplementsStream, Ideal!Spec
=============================================================================
