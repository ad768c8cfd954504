------------------------- MODULE HandoverPipeProofs -------------------------
(***************************************************************************)
(* That the handover, whatever of their habits the callers have short of   *)
(* ignoring a failed ktls_next_key, implements the two pipes of            *)
(* SecureStream; and that none of their ends is missed without eager ones. *)
(***************************************************************************)
EXTENDS HandoverProofs

(* Data records among the first i of st; whether its last word was said.   *)
Datas(st, i) == Cardinality({j \in 1 .. i : st[j].kind = "data"})
Shutting(st) == st # <<>> /\ st[Len(st)].kind = "close"

(* A record says on the wire what it is, and close_notify is the last.     *)
Wording(st) ==
  \A i \in 1 .. Len(st) :
    /\ st[i].type = IF st[i].kind = "data" THEN 23 ELSE IF st[i].kind = "close" THEN 21 ELSE 22
    /\ st[i].kind = "close" => i = Len(st)

(* How many messages a reader must have been handed: before the handover   *)
(* those backlog() went past; after it those before the place the kernel   *)
(* stands at, if the kernel expects the record that is there at all.       *)
Handed(e, p, r, kr, g, st) ==
  /\ p \in Before \union Offered \union {"submit"} =>
       g = IF e.done THEN Datas(st, e.eaten \div U) ELSE 0
  /\ p = "submit" => ~Overflowed(e.fed)
  /\ p \in {"live", "turn_tx"} /\ r % U = 0 /\ kr = NonceAfter(st, r \div U) =>
       g = Datas(st, r \div U)
  /\ p = "turn_rx" /\ r % U = 0 /\ NonceAfter(st, r \div U) = [key |-> kr.key + 1, seq |-> 0] =>
       g = Datas(st, r \div U)

(* An end is told when the close_notify was read, by the kernel and not by *)
(* backlog(); without eager callers it is said only to a peer that has     *)
(* handed over, and backlog() cannot have read it.                         *)
Told(e, p, r, kr, en, st) ==
  /\ "eager" \notin Habits => (Shutting(st) => kr # NoKey /\ e.fed < U * Len(st))
  /\ p # "closed" =>
       /\ en # "cut"
       /\ en = "clean" <=> Shutting(st) /\ r = U * Len(st) /\ e.fed < U * Len(st)

Reading(e, p, r, kr, g, en, st) == Handed(e, p, r, kr, g, st) /\ Told(e, p, r, kr, en, st)

PipeInv ==
  \A s \in Side :
    /\ Wording(stream[s])
    /\ Reading(x[s], pc[s], read[s], krx[s], Len(got[s]), ended[s], stream[Peer(s)])

-----------------------------------------------------------------------------
(* Counting the messages of a stream.                                      *)
LEMMA DatasFinite ==
  ASSUME NEW st, NEW i, i \in Nat
  PROVE  IsFiniteSet({j \in 1 .. i : st[j].kind = "data"}) /\ Datas(st, i) \in Nat
<1> DEFINE S == {j \in 1 .. i : st[j].kind = "data"}
<1>1. IsFiniteSet(1 .. i)
  BY FS_Interval
<1>2. IsFiniteSet(S)
  BY <1>1, FS_Subset
<1> QED BY <1>2, FS_CardinalityType DEF Datas

(* The count depends on the records counted only.                          *)
LEMMA DatasPrefix ==
  ASSUME NEW st, NEW new, NEW i, i \in Nat, \A j \in 1 .. i : new[j] = st[j]
  PROVE  Datas(new, i) = Datas(st, i)
<1>1. {j \in 1 .. i : new[j].kind = "data"} = {j \in 1 .. i : st[j].kind = "data"}
  OBVIOUS
<1> QED BY <1>1 DEF Datas

(* Records that are no message do not count.                               *)
LEMMA DatasSame ==
  ASSUME NEW st, NEW i, NEW k, i \in Nat, k \in Nat, i <= k,
         \A j \in i + 1 .. k : st[j].kind # "data"
  PROVE  Datas(st, k) = Datas(st, i)
<1>1. {j \in 1 .. k : st[j].kind = "data"} = {j \in 1 .. i : st[j].kind = "data"}
  <2>1. \A j \in 1 .. k : j \in 1 .. i \/ j \in i + 1 .. k
    OBVIOUS
  <2>2. \A j \in 1 .. i : j \in 1 .. k
    OBVIOUS
  <2> QED BY <2>1, <2>2
<1> QED BY <1>1 DEF Datas

(* Past the next message the count is one more.                            *)
LEMMA DatasOneMore ==
  ASSUME NEW st, NEW i, NEW k, i \in Nat, k \in Nat, i < k, st[k].kind = "data",
         \A j \in i + 1 .. k - 1 : st[j].kind # "data"
  PROVE  Datas(st, k) = Datas(st, i) + 1
<1> DEFINE S == {j \in 1 .. i : st[j].kind = "data"}
<1>1. {j \in 1 .. k : st[j].kind = "data"} = S \union {k}
  <2>1. \A j \in 1 .. k : j \in 1 .. i \/ j \in i + 1 .. k - 1 \/ j = k
    OBVIOUS
  <2>2. (\A j \in 1 .. i : j \in 1 .. k) /\ k \in 1 .. k
    OBVIOUS
  <2> QED BY <2>1, <2>2
<1>2. IsFiniteSet(S) /\ k \notin S
  <2>1. IsFiniteSet(S)
    BY DatasFinite
  <2>2. k \notin S
    OBVIOUS
  <2> QED BY <2>1, <2>2
<1>3. Cardinality(S \union {k}) = Cardinality(S) + 1
  BY <1>2, FS_AddElement
<1> QED BY <1>1, <1>3 DEF Datas

(* Further on there are no fewer.                                          *)
LEMMA DatasMonotone ==
  ASSUME NEW st, NEW i, NEW k, i \in Nat, k \in Nat, i <= k
  PROVE  Datas(st, i) <= Datas(st, k)
<1> DEFINE S == {j \in 1 .. i : st[j].kind = "data"}
           T == {j \in 1 .. k : st[j].kind = "data"}
<1>1. S \subseteq T
  OBVIOUS
<1>2. IsFiniteSet(T)
  BY DatasFinite
<1>3. Cardinality(S) <= Cardinality(T)
  BY <1>1, <1>2, FS_Subset
<1> QED BY <1>3 DEF Datas

(* A message's number is this count.                                       *)
LEMMA NumberIs ==
  ASSUME NEW p, NEW i
  PROVE  Number(p, i) = Datas(stream[p], i)
  BY DEF Number, Datas

(* Having said close_notify is a fact about the stream.                    *)
LEMMA ShutIs ==
  ASSUME NEW p
  PROVE  Shut(p) <=> Shutting(stream[p])
  BY DEF Shut, Shutting

-----------------------------------------------------------------------------
(* One side moves: what it reads, and what its peer reads of it, is looked *)
(* at apart.                                                               *)
LEMMA OneReads ==
  ASSUME HandoverInv, PipeInv, NEW s \in Side, Moves(s),
         Wording(stream'[s]),
         Reading(x'[s], pc'[s], read'[s], krx'[s], Len(got'[s]), ended'[s], stream[Peer(s)]),
         Reading(x[Peer(s)], pc[Peer(s)], read[Peer(s)], krx[Peer(s)], Len(got[Peer(s)]),
                 ended[Peer(s)], stream'[s])
  PROVE  PipeInv'
<1> DEFINE t == Peer(s)
<1>1. t \in Side /\ t # s /\ Peer(t) = s /\ Side = {s, t}
  BY Sides
<1>2. /\ x'[t] = x[t] /\ stream'[t] = stream[t] /\ pc'[t] = pc[t]
      /\ read'[t] = read[t] /\ krx'[t] = krx[t] /\ got'[t] = got[t] /\ ended'[t] = ended[t]
  BY <1>1 DEF Types, HandoverInv, Moves
<1>3. Wording(stream'[t])
  BY <1>1, <1>2 DEF PipeInv
<1>4. Reading(x'[s], pc'[s], read'[s], krx'[s], Len(got'[s]), ended'[s], stream'[Peer(s)])
  BY <1>2
<1>5. Reading(x'[t], pc'[t], read'[t], krx'[t], Len(got'[t]), ended'[t], stream'[Peer(t)])
  BY <1>1, <1>2
<1> QED BY <1>1, <1>3, <1>4, <1>5 DEF PipeInv

(* The same when its stream does not change.                               *)
LEMMA OneReadsOnly ==
  ASSUME HandoverInv, PipeInv, NEW s \in Side, Moves(s), UNCHANGED stream,
         Reading(x'[s], pc'[s], read'[s], krx'[s], Len(got'[s]), ended'[s], stream[Peer(s)])
  PROVE  PipeInv'
<1> DEFINE t == Peer(s)
<1>1. t \in Side /\ Peer(t) = s
  BY Sides
<1>2. Wording(stream'[s])
  BY DEF PipeInv
<1>3. Reading(x[t], pc[t], read[t], krx[t], Len(got[t]), ended[t], stream'[s])
  BY <1>1 DEF PipeInv
<1> QED BY <1>2, <1>3, OneReads

(* Where a side's reading stands.                                          *)
LEMMA Reads ==
  ASSUME HandoverInv, PipeInv, NEW s \in Side
  PROVE  /\ Wording(stream[s]) /\ Wording(stream[Peer(s)])
         /\ Handed(x[s], pc[s], read[s], krx[s], Len(got[s]), stream[Peer(s)])
         /\ Told(x[s], pc[s], read[s], krx[s], ended[s], stream[Peer(s)])
         /\ Peer(s) \in Side /\ stream[Peer(s)] \in Seq(Record) /\ Len(stream[Peer(s)]) \in Nat
         /\ Len(got[s]) \in Nat
         /\ x[s].eaten \in Nat /\ x[s].fed \in Nat /\ x[s].eaten <= x[s].fed
         /\ x[s].fed <= read[s] /\ read[s] \in Nat /\ read[s] <= U * Len(stream[Peer(s)])
         /\ x[s].eaten <= U * Len(stream[Peer(s)]) /\ x[s].fed <= U * Len(stream[Peer(s)])
<1> DEFINE t == Peer(s)
           n == U * Len(stream[t])
<1>1. t \in Side
  BY Sides
<1>2. Wording(stream[s]) /\ Wording(stream[t])
      /\ Reading(x[s], pc[s], read[s], krx[s], Len(got[s]), ended[s], stream[t])
  BY <1>1 DEF PipeInv
<1>3. /\ stream[t] \in Seq(Record) /\ Len(stream[t]) \in Nat /\ got[s] \in Seq(Nat)
      /\ x[s] \in ExchangeType /\ read[s] \in Nat /\ read[s] <= wrote[t] /\ wrote[t] \in Nat
      /\ Pace(s, x[s]) /\ Calling(s, x[s], pc[s], read[s], ktx[s], krx[s])
  BY <1>1, Here
<1>4. wrote[t] <= n /\ n \in Nat
  BY <1>1, <1>3, WroteRecords DEF U
<1>5. /\ x[s].eaten \in Nat /\ x[s].fed \in Nat /\ x[s].eaten <= x[s].fed /\ x[s].fed <= read[s]
  BY <1>3 DEF Pace, Calling, ExchangeType
<1>6. Len(got[s]) \in Nat
  BY <1>3
<1> HIDE DEF n
<1>7. read[s] <= n /\ x[s].eaten <= n /\ x[s].fed <= n
  BY <1>3, <1>4, <1>5
<1> QED BY <1>1, <1>2, <1>3, <1>5, <1>6, <1>7 DEF Reading, n

(* Records a side appends do not touch what was read before them.          *)
LEMMA GrowthReads ==
  ASSUME HandoverInv, PipeInv, NEW s \in Side, NEW new, new \in Seq(Record),
         Len(stream[s]) <= Len(new), \A i \in 1 .. Len(stream[s]) : new[i] = stream[s][i],
         ~Shutting(stream[s]),
         Shutting(new) => /\ "eager" \in Habits \/ krx[Peer(s)] # NoKey
                          /\ Len(stream[s]) < Len(new)
  PROVE  Reading(x[Peer(s)], pc[Peer(s)], read[Peer(s)], krx[Peer(s)], Len(got[Peer(s)]),
                 ended[Peer(s)], new)
<1> DEFINE t == Peer(s)
           e == x[t]
           st == stream[s]
           m == read[t] \div U
           n == e.eaten \div U
<1>1. t \in Side /\ Peer(t) = s
  BY Sides
<1>2. /\ Handed(e, pc[t], read[t], krx[t], Len(got[t]), st)
      /\ Told(e, pc[t], read[t], krx[t], ended[t], st) /\ e.fed \in Nat /\ e.fed <= read[t]
      /\ st \in Seq(Record) /\ Len(st) \in Nat /\ e.eaten \in Nat /\ read[t] \in Nat
      /\ read[t] <= U * Len(st) /\ e.eaten <= U * Len(st)
  BY <1>1, Reads
<1>3. m \in Nat /\ m <= Len(st) /\ n \in Nat /\ n <= Len(st)
  BY <1>2 DEF U
<1> HIDE DEF m, n
<1>4. (\A i \in 1 .. m : new[i] = st[i]) /\ (\A i \in 1 .. n : new[i] = st[i])
  BY <1>2, <1>3
<1>5. Datas(new, m) = Datas(st, m) /\ Datas(new, n) = Datas(st, n)
  BY <1>3, <1>4, DatasPrefix
<1>6. NonceAfter(new, m) = NonceAfter(st, m)
  <2>1. m = 0 \/ (m \in 1 .. m /\ new[m] = st[m])
    BY <1>3, <1>4
  <2> QED BY <2>1 DEF NonceAfter
<1>7. Handed(e, pc[t], read[t], krx[t], Len(got[t]), new)
  BY <1>2, <1>5, <1>6 DEF Handed, m, n
<1>8. Told(e, pc[t], read[t], krx[t], ended[t], new)
  <2>1. Shutting(new) => read[t] # U * Len(new) /\ e.fed < U * Len(new)
    <3>1. Len(new) \in Nat
      OBVIOUS
    <3> QED BY <1>2, <3>1 DEF U
  <2> QED BY <1>2, <2>1 DEF Told
<1> QED BY <1>7, <1>8 DEF Reading

-----------------------------------------------------------------------------
(* A step of one side, as the pipe sees it: nothing happens unless its     *)
(* messages, its last word, what it was handed or how it ended change.     *)
PipeStep ==
  \E s \in Side : Pipe!Write(s) \/ Pipe!Shut(s) \/ Pipe!Deliver(s) \/ Pipe!End(s) \/ Pipe!Miss(s)

(* What one side's step does to what the two pipes were given.             *)
LEMMA SentIs ==
  ASSUME HandoverInv, NEW s \in Side, Moves(s)
  PROVE  /\ Sent(s) = Datas(stream[s], Len(stream[s])) /\ Sent(Peer(s))' = Sent(Peer(s))
         /\ Sent(s)' = Datas(stream'[s], Len(stream'[s])) /\ Shut(Peer(s))' = Shut(Peer(s))
         /\ Shut(s) = Shutting(stream[s]) /\ Shut(s)' = Shutting(stream'[s])
<1>1. stream'[Peer(s)] = stream[Peer(s)]
  BY Sides DEF Moves, HandoverInv, Types
<1> QED BY <1>1 DEF Sent, Number, Datas, Shut, Shutting

(* No end is missed in a step that feeds nothing: one said now lies past   *)
(* all that the peer has fed.                                              *)
LEMMA MissedSame ==
  ASSUME HandoverInv, NEW s \in Side, Moves(s), x'[s].fed = x[s].fed,
         \/ stream'[s] = stream[s]
         \/ /\ ~Shutting(stream[s])
            /\ Shutting(stream'[s]) => ~(x[Peer(s)].fed >= U * Len(stream'[s]))
  PROVE  [q \in Side |-> Missed(q)]' = [q \in Side |-> Missed(q)]
<1> DEFINE t == Peer(s)
<1>1. t \in Side /\ Side = {s, t} /\ Peer(t) = s /\ t # s
  BY Sides
<1>2. x'[t] = x[t] /\ stream'[t] = stream[t]
  BY <1>1 DEF Moves, HandoverInv, Types
<1>3. Missed(s)' = Missed(s)
  BY <1>2 DEF Missed, Shut
<1>4. Missed(t)' = Missed(t)
  <2>1. CASE stream'[s] = stream[s]
    BY <1>1, <1>2, <2>1 DEF Missed, Shut
  <2>2. CASE stream'[s] # stream[s]
    <3>1. Missed(t) = FALSE
      BY <1>1, <2>2 DEF Missed, Shut, Shutting
    <3>2. Missed(t)' = FALSE
      BY <1>1, <1>2, <2>2 DEF Missed, Shut, Shutting
    <3> QED BY <3>1, <3>2
  <2> QED BY <2>1, <2>2
<1>5. \A q \in Side : Missed(q)' = Missed(q)
  BY <1>1, <1>3, <1>4
<1> QED BY <1>5

(* A step that sends no message, says no end and hands nothing to the      *)
(* caller is a stutter of the pipes.                                       *)
LEMMA QuietIs ==
  ASSUME HandoverInv, NEW s \in Side, Moves(s), UNCHANGED <<got, ended>>,
         Datas(stream'[s], Len(stream'[s])) = Datas(stream[s], Len(stream[s])),
         stream'[s] = stream[s] \/ (~Shutting(stream[s]) /\ ~Shutting(stream'[s])),
         x'[s].fed = x[s].fed
  PROVE  UNCHANGED Pipe!vars
<1> DEFINE t == Peer(s)
<1>1. Side = {s, t}
  BY Sides
<1>2. Sent(s)' = Sent(s) /\ Sent(t)' = Sent(t) /\ Shut(s)' = Shut(s) /\ Shut(t)' = Shut(t)
  <2>1. Shutting(stream'[s]) = Shutting(stream[s])
    BY DEF Shutting
  <2> QED BY <2>1, SentIs
<1>3. \A q \in Side : Sent(q)' = Sent(q) /\ Shut(q)' = Shut(q)
  BY <1>1, <1>2
<1>4. [q \in Side |-> Sent(q)]' = [q \in Side |-> Sent(q)]
  BY <1>3
<1>5. [q \in Side |-> Shut(q)]' = [q \in Side |-> Shut(q)]
  BY <1>3
<1>6. [q \in Side |-> Missed(q)]' = [q \in Side |-> Missed(q)]
  BY MissedSame
<1> QED BY <1>4, <1>5, <1>6 DEF Pipe!vars

(* A caller that closes: only how its reading ended may be told.           *)
LEMMA ClosedReads ==
  ASSUME HandoverInv, PipeInv, NEW s \in Side, Moves(s), UNCHANGED <<stream, krx>>,
         pc'[s] = "closed", x'[s].fed = x[s].fed
  PROVE  PipeInv'
<1>1. Told(x[s], pc[s], read[s], krx[s], ended[s], stream[Peer(s)])
  BY Reads
<1>2. Told(x'[s], pc'[s], read'[s], krx'[s], ended'[s], stream[Peer(s)])
  BY <1>1 DEF Told
<1>3. Handed(x'[s], pc'[s], read'[s], krx'[s], Len(got'[s]), stream[Peer(s)])
  BY DEF Handed, Before, Offered
<1> QED BY <1>2, <1>3, OneReadsOnly DEF Reading

(* A side that dies, closes or cannot open a record tells its caller       *)
(* nothing.                                                                *)
LEMMA QuietCloserPipe ==
  ASSUME HandoverInv, PipeInv, NEW s \in Side, Die(s) \/ Close(s) \/ Rejects(s)
  PROVE  PipeInv' /\ UNCHANGED Pipe!vars
<1>1. /\ pc' = [pc EXCEPT ![s] = "closed"]
      /\ UNCHANGED <<x, stream, wrote, read, ktx, krx, got, ended>>
  BY DEF Die, Close, Rejects, Goto, kernel, told
<1>2. Moves(s) /\ pc'[s] = "closed" /\ stream' = stream /\ x'[s].fed = x[s].fed
  BY <1>1 DEF Moves, HandoverInv, Types
<1>3. PipeInv'
  BY <1>1, <1>2, ClosedReads
<1>4. UNCHANGED Pipe!vars
  BY <1>1, <1>2, QuietIs
<1> QED BY <1>3, <1>4

(* An end that was not told when the socket ends was never said, or else   *)
(* backlog() has read it.                                                  *)
LEMMA CutIs ==
  ASSUME HandoverInv, PipeInv, NEW s \in Side, Eof(s), ended[s] = "open"
  PROVE  ~Shutting(stream[Peer(s)]) \/ x[s].fed >= U * Len(stream[Peer(s)])
<1> DEFINE t == Peer(s)
<1> SUFFICES ASSUME Shutting(stream[t]) PROVE x[s].fed >= U * Len(stream[t])
  OBVIOUS
<1>0. pc[s] \in {"read", "drain", "live"} /\ Unread(s) = 0
  BY DEF Eof
<1>1. read[s] = U * Len(stream[t]) => ~(x[s].fed < U * Len(stream[t]))
  <2>1. Told(x[s], pc[s], read[s], krx[s], ended[s], stream[t])
    BY Reads
  <2> QED BY <1>0, <2>1 DEF Told
<1>2. ktx[t] # NoKey
  <2> SUFFICES ASSUME ktx[t] = NoKey PROVE FALSE
    OBVIOUS
  <2>1. t \in Side /\ Sealed(t, stream[t]) /\ Own(t) \in Nat /\ stream[t] \in Seq(Record)
        /\ OnlyTickets(t, stream[t])
    <3>1. t \in Side
      BY Sides
    <3>2. Sending(t, x[t], stream[t], pc[t], wrote[t], ktx[t])
      BY <3>1, Here
    <3> QED BY <3>1, <3>2, Here, ExchangeAssumption DEF Sending, Own
  <2> DEFINE n == Len(stream[t])
  <2>2. n \in 1 .. n /\ n \in Nat /\ stream[t][n].kind = "close"
    BY <2>1 DEF Shutting
  <2>3. n \in Own(t) + 1 .. n
    BY <2>1, <2>2 DEF Sealed
  <2> QED BY <2>1, <2>2, <2>3 DEF OnlyTickets
<1>3. wrote[t] = U * Len(stream[t]) /\ wrote[t] \in Nat /\ read[s] \in Nat
  BY <1>2, HandshakeBehind, Here, Sides
<1>4. read[s] = U * Len(stream[t])
  BY <1>0, <1>3 DEF Unread
<1>5. x[s].fed \in Nat /\ U * Len(stream[t]) \in Nat
  BY <1>3, Reads
<1> QED BY <1>1, <1>4, <1>5

(* The end of the socket is told as a cut only when no close_notify came,  *)
(* or when backlog() has read it.                                          *)
LEMMA EofPipe ==
  ASSUME HandoverInv, PipeInv, NEW s \in Side, Eof(s)
  PROVE  PipeInv' /\ (PipeStep \/ UNCHANGED Pipe!vars)
<1> DEFINE t == Peer(s)
<1>1. /\ pc' = [pc EXCEPT ![s] = "closed"]
      /\ ended' = [ended EXCEPT ![s] = IF ended[s] = "open" THEN "cut" ELSE ended[s]]
      /\ UNCHANGED <<x, stream, wrote, read, ktx, krx, got>>
  BY DEF Eof, Goto, kernel
<1>2. Moves(s) /\ pc'[s] = "closed" /\ x'[s].fed = x[s].fed
  BY <1>1 DEF Moves, HandoverInv, Types
<1>3. PipeInv'
  BY <1>1, <1>2, ClosedReads
<1>4. CASE ended[s] # "open"
  <2>1. ended' = ended
    BY <1>1, <1>4 DEF HandoverInv, Types
  <2> QED BY <1>1, <1>2, <1>3, <2>1, QuietIs
<1>5. CASE ended[s] = "open"
  <2>1. ~Shutting(stream[t]) \/ (Shutting(stream[t]) /\ x[s].fed >= U * Len(stream[t]))
    BY <1>5, CutIs
  <2>2. ended' = [ended EXCEPT ![s] = "cut"]
    BY <1>1, <1>5
  <2>3. Sent(s)' = Sent(s) /\ Sent(t)' = Sent(t) /\ Shut(s)' = Shut(s) /\ Shut(t)' = Shut(t)
    BY <1>1, <1>2, SentIs
  <2>4. \A q \in Side : Sent(q)' = Sent(q) /\ Shut(q)' = Shut(q)
    BY <2>3, Sides
  <2>5. Pipe!End(s)
    <3>1. t \in Side /\ (~Shut(t) \/ Missed(s))
      BY <2>1, Sides DEF Shut, Shutting, Missed
    <3>2. ~[q \in Side |-> Shut(q)][t] \/ [q \in Side |-> Missed(q)][s]
      BY <3>1
    <3>3. [q \in Side |-> Sent(q)]' = [q \in Side |-> Sent(q)]
      BY <2>4
    <3>4. [q \in Side |-> Shut(q)]' = [q \in Side |-> Shut(q)]
      BY <2>4
    <3>5. [q \in Side |-> Missed(q)]' = [q \in Side |-> Missed(q)]
      BY <1>1, <1>2, MissedSame
    <3> QED BY <1>1, <1>5, <2>2, <3>2, <3>3, <3>4, <3>5 DEF Pipe!End
  <2> QED BY <1>3, <2>5 DEF PipeStep
<1> QED BY <1>4, <1>5

(* Moves of a caller that no message is part of.                           *)
LEMMA TakePipe ==
  ASSUME HandoverInv, PipeInv, NEW s \in Side, CallTake(s)
  PROVE  PipeInv' /\ UNCHANGED Pipe!vars
<1> DEFINE e == x[s]
<1>1. PICK n : /\ x' = [x EXCEPT ![s] = [e EXCEPT !.taken = e.taken + n]]
               /\ wrote' = [wrote EXCEPT ![s] = wrote[s] + n]
  BY DEF CallTake, Take
<1>2. /\ pc[s] = "take" /\ pc' = [pc EXCEPT ![s] = "step"]
      /\ UNCHANGED <<stream, read, ktx, krx, got, ended>>
  BY DEF CallTake, Take, Goto, kernel, told
<1>3. /\ Moves(s) /\ x'[s] = [e EXCEPT !.taken = e.taken + n] /\ pc'[s] = "step"
  BY <1>1, <1>2 DEF Moves, HandoverInv, Types
<1>4. x'[s].done = e.done /\ x'[s].eaten = e.eaten /\ x'[s].fed = e.fed
  BY <1>3, Here DEF ExchangeType
<1>5. /\ Handed(e, "take", read[s], krx[s], Len(got[s]), stream[Peer(s)])
      /\ Told(x[s], "take", read[s], krx[s], ended[s], stream[Peer(s)])
  BY <1>2, Reads
<1>6. Handed(x'[s], "step", read[s], krx[s], Len(got[s]), stream[Peer(s)])
  BY <1>4, <1>5 DEF Handed, Before, Offered
<1>7. Told(x'[s], "step", read[s], krx[s], ended[s], stream[Peer(s)])
  BY <1>4, <1>5 DEF Told
<1>8. PipeInv'
  BY <1>2, <1>3, <1>6, <1>7, OneReadsOnly DEF Reading
<1>9. stream' = stream
  BY <1>2
<1> QED BY <1>2, <1>3, <1>4, <1>8, <1>9, QuietIs

(* Feeding moves nothing in a pipe, as the caller is handed data by        *)
(* backlog() only: save that an end which is fed is missed.                *)
LEMMA FeedPipe ==
  ASSUME HandoverInv, PipeInv, NEW s \in Side, CallFeed(s)
  PROVE  PipeInv' /\ (PipeStep \/ UNCHANGED Pipe!vars)
<1> DEFINE e == x[s]
           t == Peer(s)
           st == stream[t]
           q == IF pc[s] = "read" THEN "step" ELSE "drain"
<1>1. PICK n \in 1 .. Unread(s) : /\ x' = [x EXCEPT ![s] = [e EXCEPT !.fed = e.fed + n]]
                                  /\ read' = [read EXCEPT ![s] = read[s] + n]
  BY DEF CallFeed, Feed
<1>2. /\ pc[s] \in {"read", "drain"} /\ pc' = [pc EXCEPT ![s] = q]
      /\ UNCHANGED <<stream, wrote, ktx, krx, got, ended>>
  BY DEF CallFeed, Feed, Goto, kernel, told
<1>3. /\ Moves(s) /\ x'[s] = [e EXCEPT !.fed = e.fed + n] /\ pc'[s] = q /\ read'[s] = read[s] + n
  BY <1>1, <1>2 DEF Moves, HandoverInv, Types
<1>4. x'[s].done = e.done /\ x'[s].eaten = e.eaten /\ x'[s].fed = e.fed + n
  BY <1>3, Here DEF ExchangeType
<1>5. /\ Handed(e, pc[s], read[s], krx[s], Len(got[s]), st)
      /\ Told(e, pc[s], read[s], krx[s], ended[s], st)
      /\ e.fed \in Nat /\ Len(st) \in Nat /\ t \in Side
  BY Reads
<1>6. krx[s] = NoKey /\ read[s] = e.fed
  BY <1>2, InBefore, InOffered DEF Before, Offered
<1>7. Handed(x'[s], q, read[s] + n, krx[s], Len(got[s]), st)
  BY <1>2, <1>4, <1>5 DEF Handed, Before, Offered
<1>8. /\ "eager" \notin Habits => ~Shutting(st)
      /\ ended[s] # "cut" /\ ended[s] # "clean"
  <2>1. ~(e.fed = U * Len(st) /\ e.fed < U * Len(st))
    BY <1>5 DEF U
  <2> QED BY <1>2, <1>5, <1>6, <2>1 DEF Told
<1>9. n \in Nat
  OBVIOUS
<1>10. Told(x'[s], q, read[s] + n, krx[s], ended[s], st)
  <2>1. ~(e.fed + n = U * Len(st) /\ e.fed + n < U * Len(st))
    BY <1>5, <1>9 DEF U
  <2> QED BY <1>4, <1>6, <1>8, <2>1 DEF Told
<1>11. PipeInv'
  BY <1>2, <1>3, <1>7, <1>10, OneReadsOnly DEF Reading
<1>12. /\ stream' = stream /\ got' = got /\ ended' = ended
       /\ Peer(t) = s /\ t # s /\ Side = {s, t} /\ x'[t] = x[t]
  BY <1>2, <1>3, Sides DEF Moves, HandoverInv, Types
<1>13. [p \in Side |-> Sent(p)]' = [p \in Side |-> Sent(p)]
  BY <1>12 DEF Sent, Number
<1>14. [p \in Side |-> Shut(p)]' = [p \in Side |-> Shut(p)]
  BY <1>12 DEF Shut
<1>15. Missed(t)' = Missed(t)
  BY <1>12 DEF Missed, Shut
<1>16. CASE Shutting(st) /\ e.fed + n >= U * Len(st)
  <2>1. Missed(s)' = TRUE
    BY <1>4, <1>12, <1>16 DEF Missed, Shut, Shutting
  <2>2. \A p \in Side : Missed(p)' = IF p = s THEN TRUE ELSE Missed(p)
    BY <1>12, <1>15, <2>1
  <2>3. [p \in Side |-> Missed(p)]' = [[p \in Side |-> Missed(p)] EXCEPT ![s] = TRUE]
    BY <2>2
  <2>4. [p \in Side |-> Shut(p)][t]
    BY <1>5, <1>16 DEF Shut, Shutting
  <2>5. ended[s] = "open" /\ "eager" \in Habits
    BY <1>8, <1>16, Here
  <2>6. Pipe!Miss(s)
    BY <1>12, <1>13, <1>14, <2>3, <2>4, <2>5 DEF Pipe!Miss
  <2> QED BY <1>11, <2>6 DEF PipeStep
<1>17. CASE ~(Shutting(st) /\ e.fed + n >= U * Len(st))
  <2>1. Missed(s)' = FALSE
    BY <1>4, <1>12, <1>17 DEF Missed, Shut, Shutting
  <2>2. Missed(s) = FALSE
    <3>1. e.fed >= U * Len(st) => e.fed + n >= U * Len(st)
      BY <1>5, <1>9 DEF U
    <3> QED BY <1>17, <3>1 DEF Missed, Shut, Shutting
  <2>3. \A p \in Side : Missed(p)' = Missed(p)
    BY <1>12, <1>15, <2>1, <2>2
  <2>4. [p \in Side |-> Missed(p)]' = [p \in Side |-> Missed(p)]
    BY <2>3
  <2>5. UNCHANGED Pipe!vars
    BY <1>12, <1>13, <1>14, <2>4 DEF Pipe!vars
  <2> QED BY <1>11, <2>5
<1> QED BY <1>16, <1>17

(* Neither does ktls_exchange_release.                                     *)
LEMMA ReleasePipe ==
  ASSUME HandoverInv, PipeInv, NEW s \in Side, CallRelease(s)
  PROVE  PipeInv' /\ UNCHANGED Pipe!vars
<1> DEFINE e == x[s]
<1>1. /\ pc[s] = "live" /\ x' = [x EXCEPT ![s] = [e EXCEPT !.ssl = FALSE]]
      /\ UNCHANGED <<stream, pc, wrote, read, ktx, krx, got, ended>>
  BY DEF CallRelease, Release, kernel, told
<1>2. Moves(s)
  BY <1>1 DEF Moves, HandoverInv, Types
<1>3. /\ Handed(e, "live", read[s], krx[s], Len(got[s]), stream[Peer(s)])
      /\ Told(x[s], "live", read[s], krx[s], ended[s], stream[Peer(s)])
  BY <1>1, Reads
<1>4. Handed(x'[s], "live", read[s], krx[s], Len(got[s]), stream[Peer(s)])
  BY <1>3 DEF Handed, Before, Offered
<1>5. x'[s].fed = e.fed
  BY <1>1, Here DEF HandoverInv, Types, ExchangeType
<1>6. Told(x'[s], "live", read[s], krx[s], ended[s], stream[Peer(s)])
  BY <1>3, <1>5 DEF Told
<1>7. PipeInv'
  BY <1>1, <1>2, <1>4, <1>6, OneReadsOnly DEF Reading
<1>8. stream' = stream
  BY <1>1
<1> QED BY <1>1, <1>2, <1>5, <1>7, <1>8, QuietIs

(* A message handed over, by backlog() or by the kernel, is the next one.  *)
LEMMA DeliverIs ==
  ASSUME HandoverInv, NEW s \in Side, Moves(s), UNCHANGED <<stream, ended>>,
         x'[s].fed = x[s].fed, ended[s] = "open",
         got' = [got EXCEPT ![s] = Append(got[s], Len(got[s]) + 1)],
         Len(got[s]) < Datas(stream[Peer(s)], Len(stream[Peer(s)]))
  PROVE  Pipe!Deliver(s)
<1> DEFINE t == Peer(s)
<1>1. t \in Side /\ Side = {s, t} /\ Peer(t) = s
  BY Sides
<1>2. Sent(s)' = Sent(s) /\ Sent(t)' = Sent(t) /\ Shut(s)' = Shut(s) /\ Shut(t)' = Shut(t)
  BY SentIs
<1>3. \A q \in Side : Sent(q)' = Sent(q) /\ Shut(q)' = Shut(q)
  BY <1>1, <1>2
<1>4. [q \in Side |-> Sent(q)]' = [q \in Side |-> Sent(q)]
  BY <1>3
<1>5. [q \in Side |-> Shut(q)]' = [q \in Side |-> Shut(q)]
  BY <1>3
<1>6. [q \in Side |-> Sent(q)][t] = Datas(stream[t], Len(stream[t]))
  BY <1>1 DEF Sent, Number, Datas
<1>7. [q \in Side |-> Missed(q)]' = [q \in Side |-> Missed(q)]
  BY MissedSame
<1> QED BY <1>4, <1>5, <1>6, <1>7 DEF Pipe!Deliver

(* backlog() hands over the next message, or nothing.                      *)
LEMMA BacklogPipe ==
  ASSUME HandoverInv, PipeInv, NEW s \in Side, CallBacklog(s)
  PROVE  PipeInv' /\ (PipeStep \/ UNCHANGED Pipe!vars)
<1> DEFINE e == x[s]
           t == Peer(s)
           st == stream[t]
           a == e.eaten \div U
           b == e.fed \div U
<1>1. /\ pc[s] = "drain" /\ UNCHANGED <<stream, wrote, read, ktx, krx, ended>>
  BY DEF CallBacklog, BacklogReads, BacklogEmpty, kernel
<1>2. e.done /\ read[s] = e.fed /\ e \in ExchangeType
  BY <1>1, InOffered, Here DEF Offered
<1>3. /\ Handed(e, "drain", read[s], krx[s], Len(got[s]), st)
      /\ Told(x[s], "drain", read[s], krx[s], ended[s], st)
      /\ e.eaten \in Nat /\ e.fed \in Nat /\ e.eaten <= e.fed /\ Len(st) \in Nat /\ e.fed <= U * Len(st)
      /\ Len(got[s]) \in Nat /\ t \in Side
  BY <1>1, Reads
<1>4. a \in Nat /\ b \in Nat /\ a <= b /\ b <= Len(st)
  BY <1>3 DEF U
<1>5. Len(got[s]) = Datas(st, a) /\ ended[s] = "open"
  <2>1. Len(got[s]) = Datas(st, a)
    BY <1>2, <1>3 DEF Handed, Offered
  <2>2. ended[s] # "cut" /\ ended[s] # "clean"
    <3>1. ~(e.fed = U * Len(st) /\ e.fed < U * Len(st))
      BY <1>3 DEF U
    <3> QED BY <1>2, <1>3, <3>1 DEF Told
  <2>3. ended[s] \in {"open", "clean", "cut"}
    BY Here
  <2> QED BY <2>1, <2>2, <2>3
<1> HIDE DEF a, b
<1>6. ASSUME NEW c, c \in Nat, NEW q \in {"drain", "offload"},
             x' = [x EXCEPT ![s] = [e EXCEPT !.eaten = c]], pc' = [pc EXCEPT ![s] = q],
             got' = [got EXCEPT ![s] = got'[s]], Len(got'[s]) = Datas(st, c \div U)
      PROVE  PipeInv'
  <2>1. x'[s] = [e EXCEPT !.eaten = c] /\ pc'[s] = q /\ Moves(s)
    BY <1>1, <1>6 DEF Moves, HandoverInv, Types
  <2>2. x'[s].done = e.done /\ x'[s].eaten = c /\ x'[s].fed = e.fed
    BY <1>2, <2>1 DEF ExchangeType
  <2>3. Handed(x'[s], q, read[s], krx[s], Len(got'[s]), st)
    BY <1>2, <1>6, <2>2 DEF Handed, Before, Offered
  <2>4. Told(x'[s], q, read[s], krx[s], ended[s], st)
    BY <1>3, <1>6, <2>2 DEF Told
  <2> QED BY <1>1, <2>1, <2>3, <2>4, OneReadsOnly DEF Reading
<1>7. ASSUME NEW i \in DataWaiting(s), BacklogReads(s, i),
             got' = [got EXCEPT ![s] = Append(@, Number(Peer(s), i))],
             Goto(s, IF "drains" \in Habits THEN "drain" ELSE "offload")
      PROVE  PipeInv' /\ PipeStep
  <2>1. /\ i \in a + 1 .. b /\ st[i].kind = "data" /\ i \in Nat
        /\ \A j \in a + 1 .. i - 1 : st[j].kind # "data"
    <3>1. DataWaiting(s) = {j \in a + 1 .. b : st[j].kind = "data"}
      BY DEF DataWaiting, a, b
    <3>2. i \in a + 1 .. b /\ st[i].kind = "data" /\ i \in Nat
      BY <1>4, <1>7, <3>1
    <3>3. \A j \in DataWaiting(s) : i <= j
      BY <1>7 DEF BacklogReads
    <3>4. \A j \in a + 1 .. i - 1 : j \in a + 1 .. b /\ ~(i <= j)
      BY <1>4, <3>2
    <3> QED BY <3>1, <3>2, <3>3, <3>4
  <2>2. Datas(st, i) = Len(got[s]) + 1
    BY <1>4, <1>5, <2>1, DatasOneMore
  <2>3. got' = [got EXCEPT ![s] = Append(got[s], Len(got[s]) + 1)]
    BY <1>7, <2>2, NumberIs
  <2>4. got'[s] = Append(got[s], Len(got[s]) + 1) /\ got' = [got EXCEPT ![s] = got'[s]]
    BY <2>3 DEF HandoverInv, Types
  <2>5. got[s] \in Seq(Nat) /\ Len(got[s]) + 1 \in Nat
    BY <1>3, Here
  <2>6. Len(got'[s]) = Len(got[s]) + 1
    BY <2>4, <2>5
  <2>7. i * U \in Nat /\ (i * U) \div U = i
    BY <2>1 DEF U
  <2>8. PICK q \in {"drain", "offload"} : pc' = [pc EXCEPT ![s] = q]
    BY <1>7 DEF Goto
  <2>9. x' = [x EXCEPT ![s] = [e EXCEPT !.eaten = i * U]]
    BY <1>7 DEF BacklogReads
  <2>10. PipeInv'
    BY <1>6, <2>2, <2>4, <2>6, <2>7, <2>8, <2>9
  <2>11. Moves(s) /\ x'[s].fed = e.fed
    BY <1>1, <1>2, <2>3, <2>8, <2>9 DEF Moves, HandoverInv, Types, ExchangeType
  <2>12. Len(got[s]) < Datas(st, Len(st))
    <3>1. i <= Len(st)
      BY <1>3, <1>4, <2>1
    <3>2. Datas(st, i) <= Datas(st, Len(st)) /\ Datas(st, Len(st)) \in Nat
      BY <1>3, <2>1, <3>1, DatasMonotone, DatasFinite
    <3> QED BY <1>3, <2>2, <3>2
  <2>13. Pipe!Deliver(s)
    BY <1>1, <1>5, <2>3, <2>11, <2>12, DeliverIs
  <2> QED BY <2>10, <2>13 DEF PipeStep
<1>8. ASSUME BacklogEmpty(s), Goto(s, "offload"), UNCHANGED got
      PROVE  PipeInv' /\ UNCHANGED Pipe!vars
  <2>1. \A j \in a + 1 .. b : st[j].kind # "data"
    BY <1>8 DEF BacklogEmpty, DataWaiting, a, b
  <2>2. Datas(st, b) = Len(got[s])
    BY <1>4, <1>5, <2>1, DatasSame
  <2>3. x' = [x EXCEPT ![s] = [e EXCEPT !.eaten = e.fed]]
    BY <1>8 DEF BacklogEmpty, Pulled
  <2>4. pc' = [pc EXCEPT ![s] = "offload"]
    BY <1>8 DEF Goto
  <2>5. got' = [got EXCEPT ![s] = got'[s]] /\ Len(got'[s]) = Datas(st, e.fed \div U)
    BY <1>8, <2>2 DEF HandoverInv, Types, b
  <2>6. PipeInv'
    BY <1>3, <1>6, <2>3, <2>4, <2>5
  <2>7. Moves(s) /\ x'[s].fed = e.fed
    BY <1>1, <1>2, <2>3, <2>4, <2>5 DEF Moves, HandoverInv, Types, ExchangeType
  <2>8. stream' = stream
    BY <1>1
  <2> QED BY <1>1, <1>8, <2>6, <2>7, <2>8, QuietIs
<1> QED BY <1>7, <1>8 DEF CallBacklog

-----------------------------------------------------------------------------
(* What a call of step() may do to the stream and to what was read.        *)
LEMMA StepShape ==
  ASSUME HandoverInv, NEW s \in Side, CallStep(s) \/ CallStepFails(s)
  PROVE  /\ pc[s] = "step" /\ Moves(s) /\ UNCHANGED <<wrote, read, ktx, krx, got, ended>>
         /\ pc'[s] \in {"step", "take", "read", "drain", "closed"} /\ x'[s].ssl /\ x'[s].fed = x[s].fed
         /\ \/ stream'[s] = stream[s]
            \/ stream'[s] = stream[s] \o Writes(s, "hello")
            \/ stream'[s] = stream[s] \o Writes(s, "finish")
         /\ \/ ~x[s].done /\ ~x'[s].done
            \/ x[s].done /\ x'[s] = x[s]
            \/ ~x[s].done /\ x'[s].done /\ x'[s].eaten = U * Own(Peer(s))
<1> DEFINE e == x[s]
<1>1. pc[s] = "step" /\ UNCHANGED <<wrote, read, ktx, krx, got, ended>>
  BY DEF CallStep, CallStepFails, kernel, told
<1>2. PICK q \in {"step", "take", "read", "drain", "closed"} : pc' = [pc EXCEPT ![s] = q]
  <2>1. CASE CallStep(s)
    <3> DEFINE q == CASE StepAnswer(x'[s]) = "writing" -> "take"
                      [] StepAnswer(x'[s]) = "reading" -> "read"
                      [] OTHER -> "drain"
    <3>1. pc' = [pc EXCEPT ![s] = q]
      BY <2>1 DEF CallStep, Goto
    <3>2. q \in {"take", "read", "drain"}
      OBVIOUS
    <3> HIDE DEF q
    <3> QED BY <3>1, <3>2
  <2>2. CASE CallStepFails(s)
    BY <2>2 DEF CallStepFails, Goto
  <2> QED BY <2>1, <2>2
<1>3. x \in [Side -> ExchangeType] /\ stream \in [Side -> Seq(Record)] /\ e \in ExchangeType
      /\ e.ssl
  BY <1>1, InBefore DEF HandoverInv, Types, Before
<1>4. ASSUME NEW y, NEW new, x' = [x EXCEPT ![s] = y], stream' = [stream EXCEPT ![s] = new]
      PROVE  x'[s] = y /\ stream'[s] = new /\ Moves(s) /\ pc'[s] = q
  BY <1>1, <1>2, <1>4 DEF Moves, HandoverInv, Types
<1>5. ASSUME ~e.done, x' = [x EXCEPT ![s] = Pulled(e)], UNCHANGED stream
      PROVE  /\ x'[s] = Pulled(e) /\ stream'[s] = stream[s] /\ Moves(s) /\ pc'[s] = q
             /\ ~x'[s].done /\ x'[s].ssl /\ x'[s].fed = e.fed
  <2>1. stream' = [stream EXCEPT ![s] = stream[s]]
    BY <1>3, <1>5
  <2>2. ~Pulled(e).done /\ Pulled(e).ssl /\ Pulled(e).fed = e.fed
    BY <1>3, <1>5 DEF Pulled, ExchangeType
  <2> QED BY <1>4, <1>5, <2>1, <2>2
<1>6. CASE StepWaits(s) \/ StepRefuses(s)
  <2>1. ~e.done /\ x' = [x EXCEPT ![s] = Pulled(e)] /\ UNCHANGED stream
    BY <1>6 DEF StepWaits, StepRefuses
  <2> QED BY <1>1, <1>5, <2>1
<1>7. CASE StepAdvances(s)
  <2>1. /\ ~e.done /\ e.stage # "complete" /\ x' = [x EXCEPT ![s] = Advanced(e, s)]
        /\ stream' = [stream EXCEPT ![s] = stream[s] \o Writes(s, "hello")]
    BY <1>7 DEF StepAdvances
  <2>2. Advanced(e, s).done = e.done /\ Advanced(e, s).ssl /\ Advanced(e, s).fed = e.fed
    BY <1>3, <2>1, AdvancedIs
  <2>3. x'[s] = Advanced(e, s) /\ stream'[s] = stream[s] \o Writes(s, "hello") /\ Moves(s) /\ pc'[s] = q
    BY <1>4, <2>1
  <2> QED BY <1>1, <2>1, <2>2, <2>3
<1>8. LastWrites(e, s) = Writes(s, "finish") \/ stream[s] \o LastWrites(e, s) = stream[s]
  BY <1>3 DEF LastWrites
<1>9. CASE StepCompletes(s)
  <2> DEFINE y == Ended(e, s)
             z == Finished(DeriveBoth(y, s), s)
  <2>1. /\ ~e.done /\ Complete(e, s) /\ x' = [x EXCEPT ![s] = z]
        /\ stream' = [stream EXCEPT ![s] = stream[s] \o LastWrites(e, s)]
    BY <1>9 DEF StepCompletes
  <2>2. /\ y \in ExchangeType /\ y.ssl /\ y.fed = e.fed /\ y.eaten = U * Own(Peer(s))
        /\ s = "server" => y.taken = U * Own(s)
        /\ y.made = U * Written(s, "complete")
    BY <1>1, <2>1, EndedIs
  <2> HIDE DEF y
  <2>3. z.done /\ z.ssl /\ z.fed = y.fed /\ z.eaten = y.eaten
    BY <2>2, FinishedIs
  <2> HIDE DEF z
  <2>4. x'[s] = z /\ stream'[s] = stream[s] \o LastWrites(e, s) /\ Moves(s) /\ pc'[s] = q
    BY <1>4, <2>1
  <2> QED BY <1>1, <1>8, <2>1, <2>2, <2>3, <2>4
<1>10. CASE StepFails(s)
  <2> DEFINE y == Ended(e, s)
  <2>1. PICK z \in {y, Fill(y, s)} : x' = [x EXCEPT ![s] = z]
    BY <1>10 DEF StepFails
  <2>2. /\ ~e.done /\ Complete(e, s)
        /\ stream' = [stream EXCEPT ![s] = stream[s] \o LastWrites(e, s)]
    BY <1>10 DEF StepFails
  <2>3. y \in ExchangeType /\ ~y.done /\ y.ssl /\ y.fed = e.fed
    BY <1>1, <2>2, EndedIs
  <2> HIDE DEF y
  <2>4. ~z.done /\ z.ssl /\ z.fed = e.fed
    <3>1. Fill(y, s).done = y.done /\ Fill(y, s).ssl = y.ssl /\ Fill(y, s).fed = y.fed
      BY <2>3, FillIs
    <3> QED BY <2>1, <2>3, <3>1
  <2>5. x'[s] = z /\ stream'[s] = stream[s] \o LastWrites(e, s) /\ Moves(s) /\ pc'[s] = q
    BY <1>4, <2>1, <2>2
  <2> QED BY <1>1, <1>8, <2>2, <2>4, <2>5
<1>11. CASE StepAgain(s)
  <2>1. e.done /\ x' = x /\ stream' = stream
    BY <1>11 DEF StepAgain
  <2>2. x' = [x EXCEPT ![s] = e] /\ stream' = [stream EXCEPT ![s] = stream[s]]
    BY <1>3, <2>1
  <2>3. x'[s] = e /\ stream'[s] = stream[s] /\ Moves(s) /\ pc'[s] = q
    BY <1>4, <2>2
  <2> QED BY <1>1, <1>3, <2>1, <2>3
<1> QED BY <1>6, <1>7, <1>9, <1>10, <1>11 DEF CallStep, CallStepFails

(* What OpenSSL writes holds no message and no last word.                  *)
LEMMA NothingSaid ==
  ASSUME NEW st, st \in Seq(Record),
         \A i \in 1 .. Len(st) : st[i].kind \in {"hs", "fin", "nst"}
  PROVE  Datas(st, Len(st)) = 0 /\ ~Shutting(st)
<1> DEFINE n == Len(st)
<1>1. n \in Nat
  OBVIOUS
<1>2. {j \in 1 .. n : st[j].kind = "data"} = {}
  OBVIOUS
<1>3. Datas(st, n) = 0
  BY <1>2, FS_EmptySet DEF Datas
<1>4. ~Shutting(st)
  BY DEF Shutting
<1> QED BY <1>3, <1>4

(* Until the kernel sends there are only OpenSSL's records.                *)
LEMMA OpenSSLKinds ==
  ASSUME HandoverInv, NEW s \in Side, ktx[s] = NoKey
  PROVE  \A i \in 1 .. Len(stream[s]) : stream[s][i].kind \in {"hs", "fin", "nst"}
<1>1. /\ Sealed(s, stream[s]) /\ Own(s) \in Nat /\ Len(stream[s]) \in Nat
      /\ OnlyTickets(s, stream[s])
  <2>1. Sending(s, x[s], stream[s], pc[s], wrote[s], ktx[s])
    BY Here
  <2> QED BY <2>1, Here, ExchangeAssumption DEF Sending, Own
<1> SUFFICES ASSUME NEW i \in 1 .. Len(stream[s])
             PROVE  stream[s][i].kind \in {"hs", "fin", "nst"}
  OBVIOUS
<1>2. CASE i <= Own(s)
  BY <1>1, <1>2 DEF Sealed
<1>3. CASE i > Own(s)
  <2>1. i \in Own(s) + 1 .. Len(stream[s])
    BY <1>1, <1>3
  <2> QED BY <1>1, <2>1 DEF OnlyTickets
<1> QED BY <1>1, <1>2, <1>3

(* What OpenSSL writes is handshake, Finished and tickets, and says so.    *)
LEMMA WritesKinds ==
  ASSUME NEW s \in Side, NEW stage \in {"hello", "finish"}
  PROVE  \A i \in 1 .. Len(Writes(s, stage)) :
           Writes(s, stage)[i].kind \in {"hs", "fin", "nst"} /\ Writes(s, stage)[i].type = 22
<1>1. CASE ~(s = "server" /\ stage = "finish")
  BY <1>1, WritesIs
<1>2. CASE s = "server" /\ stage = "finish"
  <2> DEFINE ws == Writes(s, stage)
  <2>1. ws = [i \in 1 .. Tickets |->
                [kind |-> "nst", type |-> 22, key |-> 1, seq |-> i - 1]]
    BY <1>2 DEF Writes
  <2>2. Len(ws) = Tickets
    BY <2>1, ExchangeAssumption
  <2> SUFFICES ASSUME NEW i \in 1 .. Len(ws)
               PROVE  ws[i].kind = "nst" /\ ws[i].type = 22
    OBVIOUS
  <2>3. ws[i] = [kind |-> "nst", type |-> 22, key |-> 1, seq |-> i - 1]
    BY <2>1, <2>2
  <2> HIDE DEF ws
  <2> QED BY <2>3
<1> QED BY <1>1, <1>2

(* A flight more on the stream: still no message in it.                    *)
LEMMA WritesGrow ==
  ASSUME HandoverInv, PipeInv, NEW s \in Side, ktx[s] = NoKey, NEW stage \in {"hello", "finish"}
  PROVE  LET new == stream[s] \o Writes(s, stage)
         IN  /\ new \in Seq(Record) /\ Len(stream[s]) <= Len(new) /\ Wording(new)
             /\ \A i \in 1 .. Len(stream[s]) : new[i] = stream[s][i]
             /\ \A i \in 1 .. Len(new) : new[i].kind \in {"hs", "fin", "nst"}
<1> DEFINE st == stream[s]
           ws == Writes(s, stage)
           new == st \o ws
<1>1. /\ st \in Seq(Record) /\ Len(st) \in Nat /\ Wording(st)
      /\ \A i \in 1 .. Len(st) : st[i].kind \in {"hs", "fin", "nst"}
  BY Here, Reads, OpenSSLKinds
<1>2. /\ ws \in Seq(Record) /\ Len(ws) \in Nat
      /\ \A i \in 1 .. Len(ws) : ws[i].kind \in {"hs", "fin", "nst"} /\ ws[i].type = 22
  BY WritesIs, WritesKinds
<1> HIDE DEF st, ws
<1>3. /\ new \in Seq(Record) /\ Len(new) = Len(st) + Len(ws)
      /\ \A i \in 1 .. Len(new) : new[i] = IF i <= Len(st) THEN st[i] ELSE ws[i - Len(st)]
  BY <1>1, <1>2
<1> HIDE DEF new
<1>4. ASSUME NEW i \in 1 .. Len(new)
      PROVE  new[i].kind \in {"hs", "fin", "nst"} /\ new[i].type = 22
  <2>1. CASE i <= Len(st)
    <3>1. i \in 1 .. Len(st) /\ new[i] = st[i]
      BY <1>1, <1>2, <1>3, <2>1
    <3>2. st[i].kind \in {"hs", "fin", "nst"}
      BY <1>1, <3>1
    <3>3. st[i].type = 22
      BY <1>1, <3>1, <3>2 DEF Wording
    <3> QED BY <3>1, <3>2, <3>3
  <2>2. CASE i > Len(st)
    <3>1. i - Len(st) \in 1 .. Len(ws) /\ new[i] = ws[i - Len(st)]
      BY <1>1, <1>2, <1>3, <2>2
    <3> QED BY <1>2, <3>1
  <2> QED BY <1>1, <1>2, <1>3, <2>1, <2>2
<1>5. Wording(new)
  BY <1>4 DEF Wording
<1>6. \A i \in 1 .. Len(st) : new[i] = st[i]
  BY <1>1, <1>2, <1>3
<1>7. Len(st) <= Len(new)
  BY <1>1, <1>2, <1>3
<1> QED BY <1>3, <1>4, <1>5, <1>6, <1>7 DEF st, ws, new

(* No step of the handshake is a step of the pipes.                        *)
LEMMA StepPipe ==
  ASSUME HandoverInv, PipeInv, NEW s \in Side, CallStep(s) \/ CallStepFails(s)
  PROVE  PipeInv' /\ UNCHANGED Pipe!vars
<1> DEFINE t == Peer(s)
           st == stream[s]
           new == stream'[s]
<1>1. /\ pc[s] = "step" /\ Moves(s) /\ UNCHANGED <<wrote, read, ktx, krx, got, ended>>
      /\ pc'[s] \in {"step", "take", "read", "drain", "closed"} /\ x'[s].fed = x[s].fed
      /\ new = st \/ new = st \o Writes(s, "hello") \/ new = st \o Writes(s, "finish")
      /\ \/ ~x[s].done /\ ~x'[s].done
         \/ x[s].done /\ x'[s] = x[s]
         \/ ~x[s].done /\ x'[s].done /\ x'[s].eaten = U * Own(Peer(s))
  BY StepShape
<1>2. ktx[s] = NoKey /\ krx[s] = NoKey
  BY <1>1, InBefore DEF Before
<1>3. /\ st \in Seq(Record) /\ Len(st) \in Nat /\ Wording(st)
      /\ \A i \in 1 .. Len(st) : st[i].kind \in {"hs", "fin", "nst"}
  BY <1>2, Here, Reads, OpenSSLKinds
<1>4. /\ new \in Seq(Record) /\ Len(st) <= Len(new) /\ Wording(new)
      /\ \A i \in 1 .. Len(st) : new[i] = st[i]
      /\ \A i \in 1 .. Len(new) : new[i].kind \in {"hs", "fin", "nst"}
  <2>1. CASE new = st
    BY <1>3, <2>1
  <2>2. CASE new = st \o Writes(s, "hello")
    BY <1>2, <2>2, WritesGrow
  <2>3. CASE new = st \o Writes(s, "finish")
    BY <1>2, <2>3, WritesGrow
  <2> QED BY <1>1, <2>1, <2>2, <2>3
<1>5. Datas(st, Len(st)) = 0 /\ ~Shutting(st)
  BY <1>3, NothingSaid
<1>6. Datas(new, Len(new)) = 0 /\ ~Shutting(new)
  BY <1>4, NothingSaid
<1>7. Reading(x[t], pc[t], read[t], krx[t], Len(got[t]), ended[t], new)
  BY <1>4, <1>5, <1>6, GrowthReads
<1>8. /\ Handed(x[s], "step", read[s], krx[s], Len(got[s]), stream[t])
      /\ Told(x[s], "step", read[s], krx[s], ended[s], stream[t])
  BY <1>1, Reads
<1>9. Told(x'[s], pc'[s], read[s], krx[s], ended[s], stream[t])
  BY <1>1, <1>8 DEF Told
<1>10. Handed(x'[s], pc'[s], read[s], krx[s], Len(got[s]), stream[t])
  <2>1. Len(got[s]) = IF x[s].done THEN Datas(stream[t], x[s].eaten \div U) ELSE 0
    BY <1>8 DEF Handed, Before
  <2>2. Datas(stream[t], (U * Own(t)) \div U) = 0 \/ ~x'[s].done \/ x[s].done
    <3> SUFFICES ASSUME x'[s].done, ~x[s].done
                 PROVE  Datas(stream[t], (U * Own(t)) \div U) = 0
      OBVIOUS
    <3>1. t \in Side /\ Own(t) \in Nat /\ Sealed(t, stream[t]) /\ Len(stream[t]) \in Nat
      BY Sides, Here, ExchangeAssumption DEF Own
    <3>2. (U * Own(t)) \div U = Own(t)
      BY <3>1 DEF U
    <3>3. Own(t) <= Len(stream[t])
      <4>1. x'[s].eaten = U * Own(t) /\ Pace(s, x'[s]) /\ x'[s].fed <= U * Len(stream[t])
        <5>1. HandoverInv'
          BY CallStepKeeps, CallStepFailsKeeps
        <5>2. Pace(s, x'[s]) /\ Calling(s, x'[s], pc'[s], read'[s], ktx'[s], krx'[s])
          BY <5>1 DEF HandoverInv, Local
        <5>3. x'[s].fed <= read[s] /\ x'[s].fed \in Nat
          <6>1. x'[s] \in ExchangeType
            BY <5>1 DEF HandoverInv, Types
          <6> QED BY <1>1, <5>2, <6>1 DEF Calling, ExchangeType
        <5>4. read[s] <= U * Len(stream[t]) /\ read[s] \in Nat
          BY Reads
        <5>5. U * Len(stream[t]) \in Nat
          BY <3>1 DEF U
        <5> QED BY <1>1, <5>2, <5>3, <5>4, <5>5
      <4>2. U * Own(t) <= U * Len(stream[t])
        <5>1. x'[s].eaten <= x'[s].fed
          BY <4>1 DEF Pace
        <5>2. U * Own(t) \in Nat /\ U * Len(stream[t]) \in Nat
          BY <3>1 DEF U
        <5>3. x'[s].fed \in Nat
          <6>1. HandoverInv'
            BY CallStepKeeps, CallStepFailsKeeps
          <6>2. x'[s] \in ExchangeType
            BY <6>1 DEF HandoverInv, Types
          <6> QED BY <6>2 DEF ExchangeType
        <5> QED BY <4>1, <5>1, <5>2, <5>3
      <4> QED BY <3>1, <4>2 DEF U
    <3>4. \A j \in 0 + 1 .. Own(t) : stream[t][j].kind # "data"
      BY <3>1, <3>3 DEF Sealed
    <3>5. Datas(stream[t], Own(t)) = Datas(stream[t], 0)
      BY <3>1, <3>4, DatasSame
    <3>6. Datas(stream[t], 0) = 0
      <4>1. {j \in 1 .. 0 : stream[t][j].kind = "data"} = {}
        OBVIOUS
      <4> QED BY <4>1, FS_EmptySet DEF Datas
    <3> QED BY <3>2, <3>5, <3>6
  <2>3. Len(got[s]) = IF x'[s].done THEN Datas(stream[t], x'[s].eaten \div U) ELSE 0
    BY <1>1, <2>1, <2>2
  <2> QED BY <1>1, <2>3 DEF Handed, Before, Offered
<1>11. PipeInv'
  <2>1. read'[s] = read[s] /\ krx'[s] = krx[s] /\ got'[s] = got[s] /\ ended'[s] = ended[s]
    BY <1>1
  <2>2. Reading(x'[s], pc'[s], read'[s], krx'[s], Len(got'[s]), ended'[s], stream[t])
    BY <1>9, <1>10, <2>1 DEF Reading
  <2> QED BY <1>1, <1>4, <1>7, <2>2, OneReads
<1>12. UNCHANGED Pipe!vars
  <2>1. ~Shutting(new) /\ ~Shutting(st) /\ x'[s].fed = x[s].fed
    BY <1>1, <1>5, <1>6
  <2>2. Datas(new, Len(new)) = Datas(st, Len(st)) /\ Moves(s) /\ UNCHANGED <<got, ended>>
    BY <1>1, <1>5, <1>6
  <2> QED BY <2>1, <2>2, QuietIs
<1> QED BY <1>11, <1>12
-----------------------------------------------------------------------------
(* A record the kernel seals: a message, a word between the kernels, or    *)
(* the last word, and it says on the wire which.                           *)
LEMMA SealReads ==
  ASSUME HandoverInv, PipeInv, NEW s \in Side, pc[s] \in {"live", "submit"}, ~Shut(s),
         NEW record, NEW kind, Seal(s, record, kind), UNCHANGED <<x, read, krx, got, ended>>,
         \/ record = "DATA" /\ kind = "data"
         \/ record = "HANDSHAKE" /\ kind = "ku"
         \/ record = "ALERT" /\ kind = "close" /\ ("eager" \in Habits \/ krx[Peer(s)] # NoKey),
         UNCHANGED pc \/ (pc[s] = "live" /\ pc' = [pc EXCEPT ![s] = "turn_tx"])
  PROVE  /\ PipeInv' /\ Moves(s)
         /\ Datas(stream'[s], Len(stream'[s])) =
              Datas(stream[s], Len(stream[s])) + (IF kind = "data" THEN 1 ELSE 0)
         /\ Shutting(stream'[s]) <=> kind = "close"
         /\ [q \in Side |-> Missed(q)]' = [q \in Side |-> Missed(q)]
<1> DEFINE st == stream[s]
           kt == ktx[s]
           t == Peer(s)
           r == [kind |-> kind, type |-> TypeOf(record), key |-> kt.key, seq |-> kt.seq]
           new == Append(st, r)
           n == Len(st)
<1>1. /\ stream' = [stream EXCEPT ![s] = new] /\ Moves(s) /\ stream'[s] = new
  BY DEF Seal, HandoverInv, Types, Moves
<1>2. /\ st \in Seq(Record) /\ n \in Nat /\ kt \in Nonce /\ Wording(st) /\ ~Shutting(st)
  BY Here, Reads, ShutIs
<1>3. /\ r \in Record /\ r.kind = kind
      /\ r.type = IF kind = "data" THEN 23 ELSE IF kind = "close" THEN 21 ELSE 22
  BY <1>2 DEF Record, TypeOf, Nonce
<1> HIDE DEF r
<1>4. /\ new \in Seq(Record) /\ Len(new) = n + 1 /\ new[n + 1] = r
      /\ \A i \in 1 .. n : new[i] = st[i]
  BY <1>2, <1>3
<1> HIDE DEF new
<1>5. \A i \in 1 .. n : st[i].kind # "close"
  <2>1. \A i \in 1 .. n : st[i].kind = "close" => i = n
    BY <1>2 DEF Wording
  <2>2. n \in 1 .. n => st[n].kind # "close"
    <3>1. n \in 1 .. n => st # <<>>
      BY <1>2
    <3> QED BY <1>2, <3>1 DEF Shutting
  <2> QED BY <2>1, <2>2
<1>6. Wording(new)
  <2> SUFFICES ASSUME NEW i \in 1 .. Len(new)
               PROVE  /\ new[i].type = IF new[i].kind = "data" THEN 23
                                       ELSE IF new[i].kind = "close" THEN 21 ELSE 22
                      /\ new[i].kind = "close" => i = Len(new)
    BY DEF Wording
  <2>1. CASE i \in 1 .. n
    BY <1>2, <1>4, <1>5, <2>1 DEF Wording
  <2>2. CASE i = n + 1
    BY <1>3, <1>4, <2>2
  <2> QED BY <1>2, <1>4, <2>1, <2>2
<1>7. Shutting(new) <=> kind = "close"
  <2>1. new # <<>>
    BY <1>2, <1>4
  <2> QED BY <1>3, <1>4, <2>1 DEF Shutting
<1>8. Reading(x[t], pc[t], read[t], krx[t], Len(got[t]), ended[t], new)
  <2>1. Len(st) <= Len(new) /\ Len(st) < Len(new)
    BY <1>2, <1>4
  <2>2. kind = "close" => "eager" \in Habits \/ krx[t] # NoKey
    OBVIOUS
  <2>3. \A i \in 1 .. Len(stream[s]) : new[i] = stream[s][i]
    BY <1>4
  <2> QED BY <1>2, <1>4, <1>7, <2>1, <2>2, <2>3, GrowthReads
<1>9. Datas(new, n + 1) = Datas(st, n) + (IF kind = "data" THEN 1 ELSE 0)
  <2>1. Datas(new, n) = Datas(st, n) /\ Datas(st, n) \in Nat
    BY <1>2, <1>4, DatasPrefix, DatasFinite
  <2>2. CASE kind = "data"
    <3>1. new[n + 1].kind = "data" /\ n < n + 1 /\ n + 1 \in Nat
          /\ \A j \in n + 1 .. (n + 1) - 1 : new[j].kind # "data"
      BY <1>2, <1>3, <1>4, <2>2
    <3>2. Datas(new, n + 1) = Datas(new, n) + 1
      BY <1>2, <3>1, DatasOneMore
    <3> QED BY <2>1, <2>2, <3>2
  <2>3. CASE kind # "data"
    <3>1. n <= n + 1 /\ n + 1 \in Nat /\ \A j \in n + 1 .. n + 1 : new[j].kind # "data"
      BY <1>2, <1>3, <1>4, <2>3
    <3>2. Datas(new, n + 1) = Datas(new, n)
      BY <1>2, <3>1, DatasSame
    <3> QED BY <2>1, <2>3, <3>2
  <2> QED BY <2>2, <2>3
<1>10. Reading(x'[s], pc'[s], read'[s], krx'[s], Len(got'[s]), ended'[s], stream[t])
  <2>1. /\ Handed(x[s], pc[s], read[s], krx[s], Len(got[s]), stream[t])
        /\ Told(x[s], pc[s], read[s], krx[s], ended[s], stream[t])
    BY Reads
  <2>2. pc'[s] = pc[s] \/ (pc[s] = "live" /\ pc'[s] = "turn_tx")
    BY DEF HandoverInv, Types
  <2>3. Handed(x[s], pc'[s], read[s], krx[s], Len(got[s]), stream[t])
    BY <2>1, <2>2 DEF Handed, Before, Offered
  <2>4. Told(x[s], pc'[s], read[s], krx[s], ended[s], stream[t])
    BY <2>1, <2>2 DEF Told
  <2> QED BY <2>3, <2>4 DEF Reading
<1>11. PipeInv'
  BY <1>1, <1>6, <1>8, <1>10, OneReads
<1>12. [q \in Side |-> Missed(q)]' = [q \in Side |-> Missed(q)]
  <2>1. x[t].fed \in Nat /\ x[t].fed <= U * n
    BY Sides, Reads
  <2>2. ~(x[t].fed >= U * Len(new))
    BY <1>2, <1>4, <2>1 DEF U
  <2> QED BY <1>1, <1>2, <2>2, MissedSame
<1> QED BY <1>1, <1>4, <1>7, <1>9, <1>11, <1>12

(* A message sealed is a message the pipe was given.                       *)
LEMMA SendDataPipe ==
  ASSUME HandoverInv, PipeInv, NEW s \in Side, SendData(s)
  PROVE  PipeInv' /\ PipeStep
<1> DEFINE t == Peer(s)
<1>1. /\ PipeInv' /\ Moves(s) /\ ~Shutting(stream'[s])
      /\ [q \in Side |-> Missed(q)]' = [q \in Side |-> Missed(q)]
      /\ Datas(stream'[s], Len(stream'[s])) = Datas(stream[s], Len(stream[s])) + 1
  BY SealReads DEF SendData, told
<1>2. ~Shut(s) /\ UNCHANGED <<got, ended>>
  BY DEF SendData, told
<1>3. Sent(s)' = Sent(s) + 1 /\ Sent(t)' = Sent(t) /\ Shut(s)' = Shut(s) /\ Shut(t)' = Shut(t)
  <2>1. Shut(s)' = FALSE /\ Shut(s) = FALSE
    BY <1>1, <1>2 DEF Shut, Shutting
  <2> QED BY <1>1, <2>1, SentIs
<1>4. s \in Side /\ t \in Side /\ t # s /\ Side = {s, t}
  BY Sides
<1>5. \A q \in Side : Shut(q)' = Shut(q) /\ Sent(q)' = IF q = s THEN Sent(s) + 1 ELSE Sent(q)
  BY <1>3, <1>4
<1>6. [q \in Side |-> Sent(q)]' = [[q \in Side |-> Sent(q)] EXCEPT ![s] = @ + 1]
  BY <1>5
<1>7. [q \in Side |-> Shut(q)]' = [q \in Side |-> Shut(q)]
  BY <1>5
<1>8. ~[q \in Side |-> Shut(q)][s]
  <2>1. [q \in Side |-> Shut(q)][s] = Shut(s)
    OBVIOUS
  <2> QED BY <1>2, <2>1
<1>9. Pipe!Write(s)
  BY <1>1, <1>2, <1>6, <1>7, <1>8 DEF Pipe!Write
<1> QED BY <1>1, <1>9 DEF PipeStep

(* A KeyUpdate is none.                                                    *)
LEMMA SendKeyUpdatePipe ==
  ASSUME HandoverInv, PipeInv, NEW s \in Side, SendKeyUpdate(s)
  PROVE  PipeInv' /\ UNCHANGED Pipe!vars
<1>1. /\ PipeInv' /\ Moves(s) /\ ~Shutting(stream'[s])
      /\ Datas(stream'[s], Len(stream'[s])) = Datas(stream[s], Len(stream[s])) + 0
  <2>1. /\ pc[s] \in {"live", "submit"} /\ ~Shut(s) /\ Seal(s, "HANDSHAKE", "ku")
        /\ UNCHANGED <<x, read, krx, got, ended>>
        /\ pc[s] = "live" /\ pc' = [pc EXCEPT ![s] = "turn_tx"]
    BY DEF SendKeyUpdate, told, Goto
  <2>2. /\ PipeInv' /\ Moves(s) /\ (Shutting(stream'[s]) <=> "ku" = "close")
        /\ Datas(stream'[s], Len(stream'[s])) =
             Datas(stream[s], Len(stream[s])) + (IF "ku" = "data" THEN 1 ELSE 0)
    BY <2>1, SealReads
  <2> QED BY <2>2
<1>2. ~Shut(s) /\ UNCHANGED <<x, got, ended>>
  BY DEF SendKeyUpdate, told
<1>3. Datas(stream[s], Len(stream[s])) \in Nat
  BY Here, DatasFinite
<1>4. Datas(stream'[s], Len(stream'[s])) = Datas(stream[s], Len(stream[s]))
  BY <1>1, <1>3
<1>5. ~Shutting(stream[s]) /\ x'[s].fed = x[s].fed
  BY <1>2, ShutIs
<1> QED BY <1>1, <1>2, <1>4, <1>5, QuietIs

(* close_notify ends the pipe.                                             *)
LEMMA SendClosePipe ==
  ASSUME HandoverInv, PipeInv, NEW s \in Side, SendClose(s)
  PROVE  PipeInv' /\ PipeStep
<1> DEFINE t == Peer(s)
<1>1. /\ PipeInv' /\ Moves(s) /\ Shutting(stream'[s])
      /\ [q \in Side |-> Missed(q)]' = [q \in Side |-> Missed(q)]
      /\ Datas(stream'[s], Len(stream'[s])) = Datas(stream[s], Len(stream[s])) + 0
  BY SealReads DEF SendClose, told
<1>2. UNCHANGED <<got, ended>>
  BY DEF SendClose, told
<1>3. Datas(stream[s], Len(stream[s])) \in Nat
  BY Here, DatasFinite
<1>4. Sent(s)' = Sent(s) /\ Sent(t)' = Sent(t) /\ Shut(s)' = TRUE /\ Shut(t)' = Shut(t)
  <2>1. Shut(s)' = TRUE
    BY <1>1 DEF Shut, Shutting
  <2> QED BY <1>1, <1>3, <2>1, SentIs
<1>5. s \in Side /\ t \in Side /\ t # s /\ Side = {s, t}
  BY Sides
<1>6. \A q \in Side : Sent(q)' = Sent(q) /\ Shut(q)' = IF q = s THEN TRUE ELSE Shut(q)
  BY <1>4, <1>5
<1>7. [q \in Side |-> Sent(q)]' = [q \in Side |-> Sent(q)]
  BY <1>6
<1>8. [q \in Side |-> Shut(q)]' = [[q \in Side |-> Shut(q)] EXCEPT ![s] = TRUE]
  BY <1>6
<1>9. Pipe!Shut(s)
  BY <1>1, <1>2, <1>7, <1>8 DEF Pipe!Shut
<1> QED BY <1>1, <1>9 DEF PipeStep

-----------------------------------------------------------------------------
(* What a turned key does to the reading side of a socket.                 *)
LEMMA TurnShape ==
  ASSUME HandoverInv, "unchecked" \notin Habits, NEW s \in Side, TurnTx(s) \/ TurnRx(s)
  PROVE  /\ Moves(s) /\ UNCHANGED <<stream, wrote, read, got, ended>> /\ x'[s].fed = x[s].fed
         /\ pc[s] \in {"turn_tx", "turn_rx"} /\ pc'[s] \in {"live", "closed"}
         /\ pc'[s] = "closed" \/ pc[s] = "turn_tx" => krx' = krx
         /\ pc'[s] = "live" /\ pc[s] = "turn_rx" =>
              krx'[s] = [key |-> krx[s].key + 1, seq |-> 0]
<1>1. PICK dir \in {"tx", "rx"} : Turn(s, dir) /\ pc[s] = (IF dir = "tx" THEN "turn_tx" ELSE "turn_rx")
  BY DEF TurnTx, TurnRx
<1> DEFINE e == x[s]
           w == Which(s, dir)
<1>2. PICK outcome \in {"ok", "expand", "fill"} :
        LET f == NextKey(e, w, outcome)
            installs == outcome = "ok" /\ HandsOver(f)
            blob == CryptoInfo(f, s, dir)
        IN  /\ x' = [x EXCEPT ![s] = f]
            /\ ktx' = IF installs /\ dir = "tx" THEN [ktx EXCEPT ![s] = blob] ELSE ktx
            /\ krx' = IF installs /\ dir = "rx" THEN [krx EXCEPT ![s] = blob] ELSE krx
            /\ pc' = [pc EXCEPT ![s] = IF installs THEN "live" ELSE "closed"]
  <2>1. {"ok"} \union (MayFail \intersect {"expand", "fill"}) \subseteq {"ok", "expand", "fill"}
    OBVIOUS
  <2> QED BY <1>1, <2>1 DEF Turn, Goto
<1> DEFINE f == NextKey(e, w, outcome)
           installs == outcome = "ok" /\ HandsOver(f)
           blob == CryptoInfo(f, s, dir)
<1>3. UNCHANGED <<stream, wrote, read, got, ended>>
  BY <1>1 DEF Turn, told
<1>4. w \in Side /\ e \in ExchangeType /\ Peer(s) \in Side
  BY Here, Sides DEF Which
<1>5. f.fed = e.fed /\ (outcome = "ok" => f.info[w] = e.secret[w] + 1 /\ f.rekeyed[w])
  <2> HIDE DEF e, w
  <2> QED BY <1>4, NextKeyIs
<1>6. /\ x' = [x EXCEPT ![s] = f]
      /\ ktx' = IF installs /\ dir = "tx" THEN [ktx EXCEPT ![s] = blob] ELSE ktx
      /\ krx' = IF installs /\ dir = "rx" THEN [krx EXCEPT ![s] = blob] ELSE krx
      /\ pc' = [pc EXCEPT ![s] = IF installs THEN "live" ELSE "closed"]
  BY <1>2
<1>7. outcome = "ok" => blob = [key |-> e.secret[w] + 1, seq |-> 0]
  BY <1>5 DEF CryptoInfo, RecordSequence
<1>8. installs => outcome = "ok"
  OBVIOUS
<1> HIDE DEF f, blob, installs
<1>9. /\ Moves(s) /\ x'[s] = f /\ pc'[s] = IF installs THEN "live" ELSE "closed"
      /\ installs /\ dir = "rx" => krx'[s] = blob
  BY <1>3, <1>6 DEF HandoverInv, Types, Moves
<1>10. dir = "rx" => e.secret[w] = krx[s].key
  <2>1. Calling(s, e, pc[s], read[s], ktx[s], krx[s])
    BY Here
  <2> QED BY <1>1, <2>1 DEF Calling, Kernels, Which
<1> QED BY <1>1, <1>3, <1>5, <1>6, <1>7, <1>8, <1>9, <1>10

(* Turning a key moves nothing in a pipe.                                  *)
LEMMA TurnsPipe ==
  ASSUME HandoverInv, PipeInv, "unchecked" \notin Habits, NEW s \in Side, TurnTx(s) \/ TurnRx(s)
  PROVE  PipeInv' /\ UNCHANGED Pipe!vars
<1> DEFINE t == Peer(s)
<1>1. /\ Moves(s) /\ UNCHANGED <<stream, wrote, read, got, ended>> /\ x'[s].fed = x[s].fed
      /\ pc[s] \in {"turn_tx", "turn_rx"} /\ pc'[s] \in {"live", "closed"}
      /\ pc'[s] = "closed" \/ pc[s] = "turn_tx" => krx' = krx
      /\ pc'[s] = "live" /\ pc[s] = "turn_rx" =>
           krx'[s] = [key |-> krx[s].key + 1, seq |-> 0]
  BY TurnShape
<1>2. UNCHANGED Pipe!vars
  <2>1. stream' = stream
    BY <1>1
  <2> QED BY <1>1, <2>1, QuietIs
<1>3. CASE pc'[s] = "closed"
  BY <1>1, <1>2, <1>3, ClosedReads
<1>4. CASE pc'[s] = "live"
  <2>1. /\ Handed(x[s], pc[s], read[s], krx[s], Len(got[s]), stream[t])
        /\ Told(x[s], pc[s], read[s], krx[s], ended[s], stream[t])
    BY Reads
  <2>2. /\ read[s] % U = 0 /\ krx'[s] = NonceAfter(stream[t], read[s] \div U) =>
             Len(got[s]) = Datas(stream[t], read[s] \div U)
    <3>1. CASE pc[s] = "turn_tx"
      BY <1>1, <2>1, <3>1 DEF Handed
    <3>2. CASE pc[s] = "turn_rx"
      BY <1>1, <1>4, <2>1, <3>2 DEF Handed
    <3> QED BY <1>1, <3>1, <3>2
  <2>3. krx'[s] # NoKey
    <3>1. krx[s] # NoKey /\ krx[s] \in Nonce
      <4>1. Calling(s, x[s], pc[s], read[s], ktx[s], krx[s])
        BY Here
      <4> QED BY <1>1, <4>1, Here DEF Calling, Kernels
    <3>2. CASE pc[s] = "turn_tx"
      BY <1>1, <3>1, <3>2
    <3>3. CASE pc[s] = "turn_rx"
      <4>1. krx[s].key \in Nat
        BY <3>1 DEF Nonce
      <4>2. krx'[s].key # 0
        BY <1>1, <1>4, <3>3, <4>1
      <4> QED BY <4>2 DEF NoKey
    <3> QED BY <1>1, <3>2, <3>3
  <2>4. Handed(x'[s], "live", read[s], krx'[s], Len(got[s]), stream[t])
    BY <2>2 DEF Handed, Before, Offered
  <2>5. Told(x'[s], "live", read[s], krx'[s], ended[s], stream[t])
    BY <1>1, <2>1, <2>3 DEF Told
  <2>6. PipeInv'
    BY <1>1, <1>4, <2>4, <2>5, OneReadsOnly DEF Reading
  <2> QED BY <1>2, <2>6
<1> QED BY <1>1, <1>3, <1>4

-----------------------------------------------------------------------------
(* A record the kernel opens is the one its stream calls for, so all the   *)
(* messages before it were handed over.                                    *)
LEMMA OpensNext ==
  ASSUME HandoverInv, PipeInv, NEW s \in Side, pc[s] = "live", Unread(s) >= U, Opens(s),
         NEW m, m = read[s] \div U
  PROVE  /\ m \in Nat /\ read[s] = U * m /\ m + 1 \in 1 .. Len(stream[Peer(s)])
         /\ Len(got[s]) = Datas(stream[Peer(s)], m) /\ ended[s] = "open"
         /\ stream[Peer(s)][m + 1].kind \in {"nst", "data", "ku", "close"}
         /\ krx[s] # NoKey
<1> DEFINE t == Peer(s)
           st == stream[t]
           r == st[m + 1]
           kr == krx[s]
           n == Len(st)
<1>1. /\ t \in Side /\ read[s] \in Nat /\ wrote[t] \in Nat /\ n \in Nat /\ kr \in Nonce
      /\ Sealed(t, st) /\ st \in Seq(Record) /\ wrote[t] <= U * n
  BY Here, Sides, WroteRecords
<1>2. read[s] % U = 0 /\ r.key = kr.key /\ r.seq = kr.seq
  BY DEF Opens
<1>3. kr # NoKey /\ kr.key >= 1
  <2>1. Calling(s, x[s], pc[s], read[s], ktx[s], krx[s])
    BY Here
  <2> QED BY <2>1, HandoverAssumption DEF Calling, Kernels
<1> HIDE DEF n
<1>4. m \in Nat /\ read[s] = U * m /\ m + 1 \in 1 .. n
  BY <1>1, <1>2 DEF Unread, U
<1>5. Own(t) \in Nat
  BY ExchangeAssumption DEF Own
<1>6. /\ r.kind \in {"nst", "data", "ku", "close"}
      /\ r.key = NonceAfter(st, m).key /\ r.seq = NonceAfter(st, m).seq
  <2>1. m + 1 > Own(t)
    <3>1. m + 1 <= Own(t) => r.key = 0
      BY <1>1, <1>4, <1>5 DEF Sealed, n
    <3> QED BY <1>2, <1>3, <1>4, <1>5, <3>1
  <2>2. m + 1 \in 1 .. Len(st) /\ (m + 1) - 1 = m
    BY <1>4 DEF n
  <2> QED BY <1>1, <2>1, <2>2 DEF Sealed
<1>7. kr = NonceAfter(st, m)
  <2>1. kr = [key |-> kr.key, seq |-> kr.seq]
    BY <1>1 DEF Nonce
  <2>2. NonceAfter(st, m) = [key |-> NonceAfter(st, m).key, seq |-> NonceAfter(st, m).seq]
    BY DEF NonceAfter
  <2> QED BY <1>2, <1>6, <2>1, <2>2
<1>8. /\ Handed(x[s], "live", read[s], kr, Len(got[s]), st)
      /\ Told(x[s], "live", read[s], kr, ended[s], st)
  BY Reads
<1>9. Len(got[s]) = Datas(st, m)
  BY <1>2, <1>7, <1>8 DEF Handed
<1>10. ended[s] = "open"
  <2>1. read[s] # U * n
    BY <1>1, <1>4 DEF U
  <2>2. ended[s] # "cut" /\ ended[s] # "clean"
    BY <1>8, <2>1 DEF Told, n
  <2>3. ended[s] \in {"open", "clean", "cut"}
    BY Here
  <2> QED BY <2>2, <2>3
<1> QED BY <1>3, <1>4, <1>6, <1>9, <1>10 DEF n

(* The kernel opens a record only with the nonce it was sealed with, so    *)
(* what it delivers is the next message, or none.                          *)
LEMMA ReceivePipe ==
  ASSUME HandoverInv, PipeInv, NEW s \in Side, Receive(s)
  PROVE  PipeInv' /\ (PipeStep \/ UNCHANGED Pipe!vars)
<1> DEFINE t == Peer(s)
           st == stream[t]
           m == read[s] \div U
           i == m + 1
           r == st[i]
           type == RecordOf(r.type)
           kr == krx[s]
           k2 == [kr EXCEPT !.seq = kr.seq + 1]
           e == x[s]
<1>1. /\ pc[s] = "live" /\ Unread(s) >= U /\ Opens(s) /\ UNCHANGED <<x, stream, wrote, ktx>>
      /\ read' = [read EXCEPT ![s] = read[s] + U] /\ krx' = [krx EXCEPT ![s] = k2]
      /\ got' = [got EXCEPT ![s] = IF type = "DATA" THEN Append(got[s], Number(t, i)) ELSE got[s]]
      /\ ended' = [ended EXCEPT ![s] = IF type = "ALERT" THEN "clean" ELSE ended[s]]
  BY DEF Receive
<1>2. PICK q \in {"live", "turn_rx"} : pc' = [pc EXCEPT ![s] = q]
  BY DEF Receive, Goto
<1>3. /\ m \in Nat /\ read[s] = U * m /\ i \in 1 .. Len(st)
      /\ Len(got[s]) = Datas(st, m) /\ ended[s] = "open"
      /\ r.kind \in {"nst", "data", "ku", "close"} /\ kr # NoKey
  BY <1>1, OpensNext
<1>4. /\ t \in Side /\ st \in Seq(Record) /\ Len(st) \in Nat /\ Wording(st) /\ kr \in Nonce
      /\ got[s] \in Seq(Nat) /\ Len(got[s]) \in Nat /\ Told(x[s], "live", read[s], kr, ended[s], st)
  BY <1>1, Reads, Here
<1>5. k2 # NoKey
  <2>1. kr.key \in 1 .. MaxKey + 1
    <3>1. Calling(s, e, "live", read[s], ktx[s], kr)
      BY <1>1, Here
    <3> QED BY <1>3, <3>1 DEF Calling
  <2>2. k2.key = kr.key
    BY <1>4 DEF Nonce
  <2> QED BY <2>1, <2>2, HandoverAssumption DEF NoKey
<1>6. /\ r.type = IF r.kind = "data" THEN 23 ELSE IF r.kind = "close" THEN 21 ELSE 22
      /\ r.kind = "close" => i = Len(st)
  BY <1>3, <1>4 DEF Wording
<1>7. type = IF r.kind = "data" THEN "DATA" ELSE IF r.kind = "close" THEN "ALERT" ELSE "HANDSHAKE"
  BY <1>3, <1>6 DEF RecordOf
<1>8. i \in Nat /\ m < i /\ i <= Len(st) /\ read[s] + U = U * i /\ (U * i) \div U = i
      /\ (read[s] + U = U * Len(st) <=> i = Len(st))
  <2> DEFINE n == Len(st)
  <2>1. m \in Nat /\ n \in Nat /\ i \in 1 .. n /\ read[s] = U * m
    BY <1>3, <1>4
  <2> HIDE DEF m, n
  <2>2. i \in Nat /\ m < i /\ i <= n /\ read[s] + U = U * i /\ (U * i) \div U = i
        /\ (read[s] + U = U * n <=> i = n)
    BY <2>1 DEF U
  <2> QED BY <2>2 DEF n
<1>8a. e.fed < U * Len(st)
  <2> DEFINE n == Len(st)
  <2>1. m \in Nat /\ n \in Nat /\ m < n /\ read[s] = U * m /\ e.fed \in Nat /\ e.fed <= read[s]
    BY <1>3, <1>4, Reads
  <2> HIDE DEF m, n
  <2>2. e.fed < U * n
    BY <2>1 DEF U
  <2> QED BY <2>2 DEF n
<1> HIDE DEF type, k2
<1>9. /\ x'[s] = e /\ pc'[s] = q /\ read'[s] = read[s] + U /\ krx'[s] = k2 /\ Moves(s)
      /\ got'[s] = (IF type = "DATA" THEN Append(got[s], Number(t, i)) ELSE got[s])
      /\ ended'[s] = (IF type = "ALERT" THEN "clean" ELSE ended[s])
  BY <1>1, <1>2 DEF HandoverInv, Types, Moves
<1> HIDE DEF m
<1>10. \A j \in m + 1 .. i - 1 : st[j].kind # "data"
  BY <1>3
<1>11. Datas(st, i) = Len(got'[s])
  <2>1. CASE r.kind = "data"
    <3>1. Datas(st, i) = Len(got[s]) + 1
      BY <1>3, <1>8, <1>10, <2>1, DatasOneMore
    <3>2. got'[s] = Append(got[s], Len(got[s]) + 1)
      BY <1>7, <1>9, <2>1, <3>1, NumberIs
    <3> QED BY <1>4, <3>1, <3>2
  <2>2. CASE r.kind # "data"
    <3>1. \A j \in m + 1 .. i : st[j].kind # "data"
      BY <1>3, <2>2
    <3>2. Datas(st, i) = Datas(st, m)
      BY <1>3, <1>8, <3>1, DatasSame
    <3>3. got'[s] = got[s]
      BY <1>7, <1>9, <2>2
    <3> QED BY <1>3, <3>2, <3>3
  <2> QED BY <2>1, <2>2
<1>12. Handed(e, q, read[s] + U, k2, Len(got'[s]), st)
  BY <1>8, <1>11 DEF Handed, Before, Offered
<1>13. ended'[s] = "clean" <=> r.kind = "close"
  BY <1>3, <1>7, <1>9
<1>14. Shutting(st) /\ i = Len(st) <=> r.kind = "close"
  <2>1. st # <<>>
    BY <1>3, <1>4
  <2> QED BY <1>6, <2>1 DEF Shutting
<1>15. Told(e, q, read[s] + U, k2, ended'[s], st)
  <2>1. ended'[s] # "cut"
    BY <1>3, <1>9
  <2> QED BY <1>4, <1>5, <1>8, <1>13, <1>14, <1>8a, <2>1 DEF Told
<1>16. PipeInv'
  BY <1>1, <1>9, <1>12, <1>15, OneReadsOnly DEF Reading
<1>17. CASE r.kind = "data"
  <2>1. got' = [got EXCEPT ![s] = Append(got[s], Len(got[s]) + 1)]
    <3>1. Datas(st, i) = Len(got[s]) + 1
      BY <1>3, <1>8, <1>10, <1>17, DatasOneMore
    <3> QED BY <1>1, <1>7, <1>17, <3>1, NumberIs
  <2>2. ended' = ended
    BY <1>1, <1>7, <1>17 DEF HandoverInv, Types
  <2>3. Len(got[s]) < Datas(st, Len(st))
    <3>1. Datas(st, i) = Len(got[s]) + 1
      BY <1>3, <1>8, <1>10, <1>17, DatasOneMore
    <3>2. Datas(st, i) <= Datas(st, Len(st)) /\ Datas(st, Len(st)) \in Nat
      BY <1>4, <1>8, DatasMonotone, DatasFinite
    <3> QED BY <1>4, <3>1, <3>2
  <2>4. Pipe!Deliver(s)
    BY <1>1, <1>3, <1>9, <2>1, <2>2, <2>3, DeliverIs
  <2> QED BY <1>16, <2>4 DEF PipeStep
<1>18. CASE r.kind = "close"
  <2>1. got' = got /\ ended' = [ended EXCEPT ![s] = "clean"]
    BY <1>1, <1>7, <1>18 DEF HandoverInv, Types
  <2>2. Len(got[s]) = Sent(t) /\ Shut(t)
    <3>1. i = Len(st) /\ Len(got'[s]) = Len(got[s]) /\ Shutting(st)
      BY <1>6, <1>14, <1>18, <2>1
    <3>2. Len(got[s]) = Datas(st, Len(st))
      BY <1>11, <3>1
    <3> QED BY <3>1, <3>2, ShutIs DEF Sent, Number, Datas
  <2>3. Sent(s)' = Sent(s) /\ Sent(t)' = Sent(t) /\ Shut(s)' = Shut(s) /\ Shut(t)' = Shut(t)
    BY <1>1, <1>9, SentIs
  <2>4. \A p \in Side : Sent(p)' = Sent(p) /\ Shut(p)' = Shut(p)
    BY <2>3, Sides
  <2>5. [p \in Side |-> Sent(p)]' = [p \in Side |-> Sent(p)]
    BY <2>4
  <2>6. [p \in Side |-> Shut(p)]' = [p \in Side |-> Shut(p)]
    BY <2>4
  <2>7. [p \in Side |-> Shut(p)][t] /\ [p \in Side |-> Sent(p)][t] = Len(got[s])
    <3>1. [p \in Side |-> Shut(p)][t] = Shut(t) /\ [p \in Side |-> Sent(p)][t] = Sent(t)
      BY <1>4
    <3> QED BY <2>2, <3>1
  <2>8. [p \in Side |-> Missed(p)]' = [p \in Side |-> Missed(p)]
    BY <1>1, <1>9, MissedSame
  <2>9. ~[p \in Side |-> Missed(p)][s]
    <3>1. ~Missed(s)
      BY <1>4, <1>8a, Reads DEF Missed, U
    <3> QED BY <3>1
  <2>10. Pipe!End(s)
    BY <1>3, <2>1, <2>5, <2>6, <2>7, <2>8, <2>9 DEF Pipe!End
  <2> QED BY <1>16, <2>10 DEF PipeStep
<1>19. CASE r.kind \notin {"data", "close"}
  <2>1. got' = got /\ ended' = ended
    BY <1>1, <1>7, <1>19 DEF HandoverInv, Types
  <2>2. stream' = stream
    BY <1>1
  <2> QED BY <1>9, <1>16, <2>1, <2>2, QuietIs
<1> QED BY <1>17, <1>18, <1>19

-----------------------------------------------------------------------------
(* The reading blob of an exchange that hands over counts the records      *)
(* backlog() went past.                                                    *)
LEMMA RxBlobCounts ==
  ASSUME HandoverInv, NEW s \in Side, x[s].ssl, x[s].done, Fresh(x[s]), ~Overflowed(x[s].fed)
  PROVE  /\ x[s].eaten \div U >= Own(Peer(s))
         /\ CryptoInfo(x[s], s, "rx") = [key |-> 1, seq |-> x[s].eaten \div U - Own(Peer(s))]
<1> DEFINE e == x[s]
           t == Peer(s)
           b == e.eaten \div U
           o == Own(t)
<1>1. e \in ExchangeType /\ Pace(s, e) /\ t \in Side
  BY Here, Sides
<1>2. /\ e.eaten \in Nat /\ e.fed \in Nat /\ e.eaten <= e.fed /\ e.rx_at_done = U * o
      /\ e.eaten >= U * o
  BY <1>1 DEF Pace, ExchangeType
<1>3. o \in Nat
  BY ExchangeAssumption DEF Own
<1> HIDE DEF o
<1>4. b \in Nat /\ b >= o
  BY <1>2, <1>3 DEF U
<1>5. Consumed(e) = e.eaten
  BY <1>2 DEF Consumed, InPending
<1>6. ~e.rekeyed[t] /\ e.info[t] = 1
  BY <1>1 DEF Fresh
<1>7. RecordSequence(e, s, "rx") = RecordsBetween(e.fed, U * o, e.eaten)
  BY <1>2, <1>5, <1>6 DEF RecordSequence, Which
<1>8. RecordsBetween(e.fed, U * o, e.eaten) = Cardinality(o + 1 .. b)
  BY <1>2, <1>3, BetweenCounts
<1> HIDE DEF b
<1>9. Cardinality(o + 1 .. b) = b - o
  <2>1. o + 1 \in Int /\ b \in Int
    BY <1>3, <1>4
  <2>2. Cardinality(o + 1 .. b) = IF o + 1 > b THEN 0 ELSE b - (o + 1) + 1
    BY <2>1, FS_Interval
  <2> QED BY <1>3, <1>4, <2>2
<1>10. CryptoInfo(e, s, "rx") = [key |-> 1, seq |-> b - o]
  BY <1>6, <1>7, <1>8, <1>9 DEF CryptoInfo, Which
<1> QED BY <1>4, <1>10 DEF b, o

(* A kernel that is given it expects the record that is really there only  *)
(* if nothing that was fed is left in OpenSSL.                             *)
LEMMA InstallReads ==
  ASSUME HandoverInv, PipeInv, NEW s \in Side, pc[s] \in {"offload", "submit"},
         ~Overflowed(x[s].fed)
  PROVE  Reading(x[s], "live", read[s], CryptoInfo(x[s], s, "rx"), Len(got[s]), ended[s],
                 stream[Peer(s)])
<1> DEFINE e == x[s]
           t == Peer(s)
           st == stream[t]
           kr == CryptoInfo(e, s, "rx")
           o == Own(t)
           b == e.eaten \div U
           m == read[s] \div U
           n == Len(st)
<1>1. e.ssl /\ e.done /\ Fresh(e) /\ read[s] = e.fed
  <2>1. Calling(s, e, pc[s], read[s], ktx[s], krx[s])
    BY Here
  <2> QED BY <2>1 DEF Calling, Offered
<1>2. /\ Handed(e, pc[s], read[s], krx[s], Len(got[s]), st)
      /\ Told(x[s], pc[s], read[s], krx[s], ended[s], st)
      /\ t \in Side /\ st \in Seq(Record) /\ n \in Nat
      /\ e.eaten \in Nat /\ e.eaten <= e.fed /\ e.fed \in Nat /\ e.fed <= U * n
  BY Reads
<1>3. b >= o /\ kr = [key |-> 1, seq |-> b - o]
  BY <1>1, RxBlobCounts
<1>4. o \in Nat \ {0} /\ Sealed(t, st)
  <2>1. Sealed(t, st)
    BY <1>2, Here
  <2> QED BY <2>1, ExchangeAssumption DEF Own
<1> HIDE DEF kr, o, n
<1>5. b \in Nat /\ m \in Nat /\ b <= m /\ m <= n
  BY <1>1, <1>2 DEF U
<1> HIDE DEF b, m
<1>6. ASSUME kr = NonceAfter(st, m)
      PROVE  m = b
  <2>1. m \in 1 .. Len(st) /\ m # 0
    <3>1. m \in 1 .. n
      BY <1>2, <1>3, <1>4, <1>5
    <3> QED BY <3>1, <1>2 DEF n
  <2>2. st[m].key \in Nat /\ st[m].seq \in Nat
    <3>1. st[m] \in Record
      BY <1>2, <2>1
    <3> QED BY <3>1 DEF Record
  <2>3. kr.key = 1 /\ kr.seq = b - o
    BY <1>3
  <2>4. CASE m <= o
    BY <1>3, <1>4, <1>5, <2>4
  <2>5. CASE m > o
    <3>1. st[m].key >= 1 /\ (st[m].key = 1 => st[m].seq = m - o - 1)
      BY <1>4, <2>1, <2>5 DEF Sealed, o
    <3>2. NonceAfter(st, m) = IF st[m].kind = "ku" THEN [key |-> st[m].key + 1, seq |-> 0]
                              ELSE [key |-> st[m].key, seq |-> st[m].seq + 1]
      BY <2>1, <2>2, <3>1 DEF NonceAfter
    <3>3. CASE st[m].kind = "ku"
      <4>1. kr.key = st[m].key + 1
        BY <1>6, <3>2, <3>3
      <4> QED BY <2>2, <2>3, <3>1, <4>1
    <3>4. CASE st[m].kind # "ku"
      <4>1. kr.key = st[m].key /\ kr.seq = st[m].seq + 1
        BY <1>6, <3>2, <3>4
      <4>2. st[m].seq = m - o - 1
        BY <2>3, <3>1, <4>1
      <4>3. b - o = m - o - 1 + 1
        BY <2>3, <4>1, <4>2
      <4> QED BY <1>4, <1>5, <4>3
    <3> QED BY <3>3, <3>4
  <2> QED BY <1>4, <1>5, <2>4, <2>5
<1>7. Len(got[s]) = Datas(st, b)
  BY <1>1, <1>2 DEF Handed, Offered, b
<1>8. Handed(e, "live", read[s], kr, Len(got[s]), st)
  <2>1. kr = NonceAfter(st, read[s] \div U) => Len(got[s]) = Datas(st, read[s] \div U)
    BY <1>6, <1>7 DEF m
  <2> QED BY <2>1 DEF Handed, Before, Offered
<1>9. kr # NoKey
  <2>1. kr.key = 1
    BY <1>3
  <2> QED BY <2>1 DEF NoKey
<1>10. Told(x[s], "live", read[s], kr, ended[s], st)
  BY <1>2, <1>9 DEF Told
<1> QED BY <1>8, <1>10 DEF Reading, kr

(* Handing over moves nothing: what was handed up by backlog() is what     *)
(* lies before the kernel's place.                                         *)
LEMMA OffloadPipe ==
  ASSUME HandoverInv, PipeInv, NEW s \in Side, CallOffload(s) \/ SubmitTx(s) \/ SubmitRx(s)
  PROVE  PipeInv' /\ UNCHANGED Pipe!vars
<1> DEFINE e == x[s]
           t == Peer(s)
           kr == CryptoInfo(e, s, "rx")
<1>1. /\ pc[s] \in {"offload", "submit"} /\ UNCHANGED <<x, stream, wrote, read, got, ended>>
  BY DEF CallOffload, SubmitTx, SubmitRx, told
<1>2. /\ Handed(e, pc[s], read[s], krx[s], Len(got[s]), stream[t])
      /\ Told(x[s], pc[s], read[s], krx[s], ended[s], stream[t])
  BY Reads
<1>3. ASSUME NEW q, q \in {"live", "closed", "submit"}, NEW kt, NEW k, pc' = [pc EXCEPT ![s] = q],
             ktx' = [ktx EXCEPT ![s] = kt], krx' = [krx EXCEPT ![s] = k],
             q = "closed" => k = krx[s],
             q = "submit" => ~Overflowed(e.fed) /\ k = krx[s] /\ pc[s] = "offload",
             q = "live" => ~Overflowed(e.fed) /\ k = kr
      PROVE  PipeInv' /\ UNCHANGED Pipe!vars
  <2> HIDE DEF kr
  <2>1. Moves(s) /\ pc'[s] = q /\ krx'[s] = k
    BY <1>1, <1>3 DEF Moves, HandoverInv, Types
  <2>2. UNCHANGED Pipe!vars
    <3>1. stream' = stream
      BY <1>1
    <3> QED BY <1>1, <2>1, <3>1, QuietIs
  <2>3. CASE q = "closed"
    <3>1. krx' = krx
      BY <1>3, <2>3 DEF HandoverInv, Types
    <3> QED BY <1>1, <2>1, <2>2, <2>3, <3>1, ClosedReads
  <2>4. CASE q = "submit"
    <3>1. Handed(e, "submit", read[s], krx[s], Len(got[s]), stream[t])
      BY <1>2, <1>3, <2>4 DEF Handed, Before, Offered
    <3>2. Told(x[s], "submit", read[s], krx[s], ended[s], stream[t])
      BY <1>2, <1>3, <2>4 DEF Told
    <3>3. PipeInv'
      BY <1>1, <1>3, <2>1, <2>4, <3>1, <3>2, OneReadsOnly DEF Reading
    <3> QED BY <2>2, <3>3
  <2>5. CASE q = "live"
    <3>1. Reading(e, "live", read[s], kr, Len(got[s]), ended[s], stream[t])
      BY <1>1, <1>3, <2>5, InstallReads DEF kr
    <3>2. PipeInv'
      BY <1>1, <1>3, <2>1, <2>5, <3>1, OneReadsOnly
    <3> QED BY <2>2, <3>2
  <2> QED BY <1>3, <2>3, <2>4, <2>5
<1>4. ktx = [ktx EXCEPT ![s] = ktx[s]] /\ krx = [krx EXCEPT ![s] = krx[s]]
  BY DEF HandoverInv, Types
<1>5. HandsOver(e) => ~Overflowed(e.fed)
  BY DEF HandsOver
<1>6. CASE CallOffload(s) /\ OffloadInstalls(s)
  BY <1>3, <1>5, <1>6 DEF OffloadInstalls, Goto
<1>7. CASE CallOffload(s) /\ OffloadRefuses(s)
  BY <1>3, <1>4, <1>7 DEF OffloadRefuses, Goto, kernel
<1>8. CASE CallOffload(s) /\ OffloadHalves(s)
  BY <1>3, <1>4, <1>8 DEF OffloadHalves, Goto
<1>9. CASE SubmitTx(s)
  BY <1>3, <1>4, <1>5, <1>9 DEF SubmitTx, Goto
<1>10. CASE SubmitRx(s)
  <2>1. ~Overflowed(e.fed)
    BY <1>2, <1>10 DEF SubmitRx, Handed
  <2> QED BY <1>3, <1>4, <1>10, <2>1 DEF SubmitRx, Goto
<1> QED BY <1>6, <1>7, <1>8, <1>9, <1>10 DEF CallOffload

-----------------------------------------------------------------------------
(* Two empty streams are two empty pipes.                                  *)
LEMMA PipeInit ==
  ASSUME Init
  PROVE  PipeInv /\ Pipe!Init
<1>1. /\ x = [s \in Side |-> Opened] /\ stream = [s \in Side |-> <<>>]
      /\ pc = [s \in Side |-> "step"] /\ read = [s \in Side |-> 0]
      /\ krx = [s \in Side |-> NoKey]
      /\ got = [s \in Side |-> <<>>] /\ ended = [s \in Side |-> "open"]
  BY DEF Init, ExchangeInit
<1>2. ~Opened.done
  BY DEF Opened
<1>3. Wording(<<>>) /\ ~Shutting(<<>>)
  BY DEF Wording, Shutting
<1>4. Handed(Opened, "step", 0, NoKey, 0, <<>>)
  BY <1>2 DEF Handed, Before, Offered
<1>5. Told(Opened, "step", 0, NoKey, "open", <<>>)
  BY <1>3 DEF Told
<1>6. Len(<<>>) = 0
  OBVIOUS
<1>7. PipeInv
  <2> SUFFICES ASSUME NEW s \in Side
               PROVE  /\ Wording(stream[s])
                      /\ Reading(x[s], pc[s], read[s], krx[s], Len(got[s]), ended[s],
                                 stream[Peer(s)])
    BY DEF PipeInv
  <2>1. Peer(s) \in Side
    BY Sides
  <2>2. /\ x[s] = Opened /\ stream[s] = <<>> /\ stream[Peer(s)] = <<>> /\ pc[s] = "step"
        /\ read[s] = 0 /\ krx[s] = NoKey /\ got[s] = <<>> /\ ended[s] = "open"
    BY <1>1, <2>1
  <2> QED BY <1>3, <1>4, <1>5, <1>6, <2>2 DEF Reading
<1>8. \A s \in Side : Sent(s) = 0 /\ Shut(s) = FALSE /\ Missed(s) = FALSE
  <2> SUFFICES ASSUME NEW s \in Side
               PROVE  Sent(s) = 0 /\ Shut(s) = FALSE /\ Missed(s) = FALSE
    OBVIOUS
  <2>1. stream[s] = <<>> /\ stream[Peer(s)] = <<>>
    BY <1>1, Sides
  <2>2. {j \in 1 .. 0 : stream[s][j].kind = "data"} = {}
    OBVIOUS
  <2>3. Sent(s) = 0
    BY <1>6, <2>1, <2>2, FS_EmptySet DEF Sent, Number
  <2> QED BY <2>1, <2>3 DEF Shut, Missed
<1>9. /\ [s \in Side |-> Sent(s)] = [s \in Side |-> 0]
      /\ [s \in Side |-> Shut(s)] = [s \in Side |-> FALSE]
      /\ [s \in Side |-> Missed(s)] = [s \in Side |-> FALSE]
  BY <1>8
<1>10. Pipe!Init
  BY <1>1, <1>9 DEF Pipe!Init
<1> QED BY <1>7, <1>10

(* Every step is a step of the pipes or a stutter of them.                 *)
LEMMA PipeNext ==
  ASSUME "unchecked" \notin Habits, HandoverInv, PipeInv, [Next]_vars
  PROVE  PipeInv' /\ (PipeStep \/ UNCHANGED Pipe!vars)
<1>1. CASE UNCHANGED vars
  <2>1. UNCHANGED <<x, stream, pc, wrote, read, ktx, krx, got, ended>>
    BY <1>1 DEF vars, kernel, told
  <2>2. PipeInv'
    BY <2>1 DEF PipeInv
  <2>3. \A s \in Side : Sent(s)' = Sent(s) /\ Shut(s)' = Shut(s) /\ Missed(s)' = Missed(s)
    BY <2>1 DEF Sent, Number, Shut, Missed
  <2>4. [s \in Side |-> Sent(s)]' = [s \in Side |-> Sent(s)]
    BY <2>3
  <2>5. [s \in Side |-> Shut(s)]' = [s \in Side |-> Shut(s)]
    BY <2>3
  <2>6. [s \in Side |-> Missed(s)]' = [s \in Side |-> Missed(s)]
    BY <2>3
  <2> QED BY <2>1, <2>2, <2>4, <2>5, <2>6 DEF Pipe!vars
<1>2. ASSUME NEW s \in Side, Progress(s) \/ SubmitTx(s) \/ CallStepFails(s) \/ CallRelease(s)
               \/ Die(s) \/ SendData(s) \/ SendKeyUpdate(s) \/ SendClose(s)
      PROVE  PipeInv' /\ (PipeStep \/ UNCHANGED Pipe!vars)
  <2>1. CASE CallStep(s) \/ CallStepFails(s) BY <2>1, StepPipe
  <2>2. CASE CallTake(s) BY <2>2, TakePipe
  <2>3. CASE CallFeed(s) BY <2>3, FeedPipe
  <2>4. CASE CallBacklog(s) BY <2>4, BacklogPipe
  <2>5. CASE CallOffload(s) \/ SubmitTx(s) \/ SubmitRx(s) BY <2>5, OffloadPipe
  <2>6. CASE Eof(s) BY <2>6, EofPipe
  <2>7. CASE Die(s) \/ Close(s) \/ Rejects(s) BY <2>7, QuietCloserPipe
  <2>8. CASE TurnTx(s) \/ TurnRx(s) BY <2>8, TurnsPipe
  <2>9. CASE Receive(s) BY <2>9, ReceivePipe
  <2>10. CASE CallRelease(s) BY <2>10, ReleasePipe
  <2>11. CASE SendData(s) BY <2>11, SendDataPipe
  <2>12. CASE SendKeyUpdate(s) BY <2>12, SendKeyUpdatePipe
  <2>13. CASE SendClose(s) BY <2>13, SendClosePipe
  <2> QED BY <1>2, <2>1, <2>2, <2>3, <2>4, <2>5, <2>6, <2>7, <2>8, <2>9, <2>10, <2>11, <2>12, <2>13
             DEF Progress
<1> QED BY <1>1, <1>2 DEF Next

(* Whatever of the habits the callers have and whatever fails, as long as  *)
(* a failed ktls_next_key ends the connection: each direction is one pipe  *)
(* across the handover from ktls_exchange_backlog to the kernel.  No       *)
(* message is handed over twice, out of order or past a gap, and a reader  *)
(* that saw a clean end was handed everything.  One that saw a cut had a   *)
(* peer that never ended, or, with eager callers only, one whose           *)
(* close_notify ktls_exchange_backlog swallowed.                           *)
THEOREM HandoverImplementsPipe ==
  ASSUME "unchecked" \notin Habits
  PROVE  Spec => ImplementsPipe
<1>1. Init => HandoverInv /\ PipeInv /\ Pipe!Init
  BY InitHolds, PipeInit
<1>2. HandoverInv /\ PipeInv /\ [Next]_vars =>
        (HandoverInv /\ PipeInv)' /\ [PipeStep]_(Pipe!vars)
  BY NextKeeps, PipeNext
<1> QED BY <1>1, <1>2, PTL DEF Spec, ImplementsPipe, Pipe!Spec, PipeStep

-----------------------------------------------------------------------------
(* A reader that was told of a cut had a peer that closed without a word,  *)
(* and a peer that closed says no more.                                    *)
CutInv ==
  \A s \in Side : ended[s] = "cut" => pc[Peer(s)] = "closed" /\ ~Shut(Peer(s))

(* Every step is one side's, of a caller that has not closed.              *)
LEMMA OnlyOpenMove ==
  ASSUME HandoverInv, NEW s \in Side,
         Progress(s) \/ SubmitTx(s) \/ CallStepFails(s) \/ CallRelease(s)
           \/ Die(s) \/ SendData(s) \/ SendKeyUpdate(s) \/ SendClose(s)
  PROVE  /\ pc[s] # "closed"
         /\ stream'[Peer(s)] = stream[Peer(s)] /\ pc'[Peer(s)] = pc[Peer(s)]
         /\ ended'[Peer(s)] = ended[Peer(s)]
         /\ Eof(s) \/ (ended'[s] = "cut" => ended[s] = "cut")
<1> DEFINE t == Peer(s)
<1>1. t \in Side /\ t # s
  BY Sides
<1>2. /\ stream \in [Side -> Seq(Record)] /\ ended \in [Side -> {"open", "clean", "cut"}]
      /\ pc \in [Side -> Before \union Offered \union {"submit", "closed"} \union Kernels]
  BY DEF HandoverInv, Types
<1>3. CASE CallStep(s) \/ CallStepFails(s)
  <2>1. pc[s] = "step" /\ Moves(s) /\ ended' = ended
    BY <1>3, StepShape
  <2> QED BY <1>1, <1>2, <2>1 DEF Moves
<1>4. CASE CallTake(s) \/ CallFeed(s) \/ CallBacklog(s) \/ CallRelease(s)
  BY <1>1, <1>2, <1>4 DEF CallTake, CallFeed, CallBacklog, CallRelease, Take, Feed, BacklogReads,
                          BacklogEmpty, Release, Goto, told
<1>5. CASE CallOffload(s) \/ SubmitTx(s) \/ SubmitRx(s)
  BY <1>1, <1>2, <1>5 DEF CallOffload, OffloadInstalls, OffloadRefuses, OffloadHalves, SubmitTx,
                          SubmitRx, Goto, told
<1>6. CASE Eof(s) \/ Die(s) \/ Close(s) \/ Rejects(s)
  BY <1>1, <1>2, <1>6 DEF Eof, Die, Close, Rejects, Goto, told
<1>7. CASE SendData(s) \/ SendKeyUpdate(s) \/ SendClose(s)
  BY <1>1, <1>2, <1>7 DEF SendData, SendKeyUpdate, SendClose, Seal, Goto, told
<1>8. CASE TurnTx(s) \/ TurnRx(s)
  <2>1. /\ pc[s] # "closed" /\ UNCHANGED <<stream, ended>>
        /\ \E q \in {"live", "closed"} : pc' = [pc EXCEPT ![s] = q]
    BY <1>8 DEF TurnTx, TurnRx, Turn, Goto, told
  <2> QED BY <1>1, <1>2, <2>1
<1>9. CASE Receive(s)
  BY <1>1, <1>2, <1>9 DEF Receive, Goto
<1> QED BY <1>3, <1>4, <1>5, <1>6, <1>7, <1>8, <1>9 DEF Progress

(* A cut is told at the end of the socket only: of a peer that closed, and *)
(* that has said no close_notify if it would only have said it to a        *)
(* kernel, which would have told its end.                                  *)
LEMMA CutKept ==
  ASSUME "eager" \notin Habits, HandoverInv, PipeInv, CutInv, NEW s \in Side,
         Progress(s) \/ SubmitTx(s) \/ CallStepFails(s) \/ CallRelease(s)
           \/ Die(s) \/ SendData(s) \/ SendKeyUpdate(s) \/ SendClose(s)
  PROVE  CutInv'
<1> DEFINE t == Peer(s)
<1>1. t \in Side /\ t # s /\ Peer(t) = s /\ Side = {s, t}
  BY Sides
<1>2. /\ pc[s] # "closed" /\ stream'[t] = stream[t] /\ pc'[t] = pc[t] /\ ended'[t] = ended[t]
      /\ Eof(s) \/ (ended'[s] = "cut" => ended[s] = "cut")
  BY OnlyOpenMove
<1>3. ended'[t] # "cut"
  BY <1>1, <1>2 DEF CutInv
<1>4. ASSUME ended'[s] = "cut"
      PROVE  pc[t] = "closed" /\ ~Shut(t)
  <2>1. CASE ended[s] = "cut"
    BY <1>1, <2>1 DEF CutInv
  <2>2. CASE ended[s] # "cut"
    <3>1. Eof(s) /\ pc[t] = "closed"
      BY <1>2, <1>4, <2>2 DEF Eof
    <3>2. ended[s] = "open"
      BY <1>4, <2>2, <3>1 DEF Eof, HandoverInv, Types
    <3>3. ~Shutting(stream[t]) \/ x[s].fed >= U * Len(stream[t])
      BY <3>1, <3>2, CutIs
    <3>4. Shutting(stream[t]) => x[s].fed < U * Len(stream[t])
      <4>1. Told(x[s], pc[s], read[s], krx[s], ended[s], stream[t])
        BY Reads
      <4> QED BY <4>1 DEF Told
    <3>5. x[s].fed \in Nat /\ Len(stream[t]) \in Nat
      BY Reads
    <3>6. ~Shutting(stream[t])
      BY <3>3, <3>4, <3>5 DEF U
    <3> QED BY <3>1, <3>6, ShutIs
  <2> QED BY <2>1, <2>2
<1>5. ended'[s] = "cut" => pc'[t] = "closed" /\ ~Shut(t)'
  BY <1>2, <1>4 DEF Shut
<1> QED BY <1>1, <1>3, <1>5 DEF CutInv

(* Where no end says close_notify before its peer has handed over, and a   *)
(* failed ktls_next_key ends the connection, a finished stream is never    *)
(* taken for a truncated one, whichever other habits the callers have and  *)
(* whatever fails: the record that says it is read by a kernel, which      *)
(* tells an alert from data, and never by ktls_exchange_backlog.           *)
THEOREM EndsAlwaysTold ==
  ASSUME "unchecked" \notin Habits, "eager" \notin Habits
  PROVE  Spec => []EndToldFromCut
<1>1. Init => HandoverInv /\ PipeInv /\ CutInv
  <2>1. Init => CutInv
    BY DEF Init, CutInv
  <2> QED BY <2>1, InitHolds, PipeInit
<1>2. HandoverInv /\ PipeInv /\ CutInv /\ [Next]_vars => (HandoverInv /\ PipeInv /\ CutInv)'
  <2> SUFFICES ASSUME HandoverInv, PipeInv, CutInv, [Next]_vars
               PROVE  (HandoverInv /\ PipeInv /\ CutInv)'
    OBVIOUS
  <2>1. HandoverInv' /\ PipeInv'
    BY NextKeeps, PipeNext
  <2>2. CASE UNCHANGED vars
    <3>1. UNCHANGED <<pc, stream, ended>>
      BY <2>2 DEF vars, told
    <3>2. CutInv'
      BY <3>1 DEF CutInv, Shut
    <3> QED BY <2>1, <3>2
  <2>3. CASE Next
    BY <2>1, <2>3, CutKept DEF Next
  <2> QED BY <2>2, <2>3
<1>3. CutInv => EndToldFromCut
  BY DEF CutInv, EndToldFromCut
<1> QED BY <1>1, <1>2, <1>3, PTL DEF Spec

=============================================================================
