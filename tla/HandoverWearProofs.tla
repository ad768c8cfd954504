------------------------- MODULE HandoverWearProofs -------------------------
(***************************************************************************)
(* A caller that turns its key at ktls_record_limit, counting only its own *)
(* sends since the handover, never seals more than a key may: for every    *)
(* limit, every number of tickets that fits in the half kept back, and     *)
(* every number of messages and key changes.                               *)
(***************************************************************************)
EXTENDS HandoverRxProofs

(* README.md's count, of a stream: the messages sealed under key k.        *)
Spent(st, k) == Cardinality({i \in 1 .. Len(st) : st[i].kind = "data" /\ st[i].key = k})

(* A kernel's count runs ahead of the caller's by the tickets at most, and *)
(* a key that is yet to come has sealed nothing.                           *)
Sends == {"submit", "live", "turn_rx"}
Wearing(st, p, kt) ==
  /\ \A i \in 1 .. Len(st) : st[i].seq < Wear
  /\ p \in Sends \union {"turn_tx"} => \A i \in 1 .. Len(st) : st[i].key <= kt.key
  /\ p \in Sends /\ ~Shutting(st) =>
       /\ Spent(st, kt.key) <= RecordLimit
       /\ kt.seq <= Tickets + Spent(st, kt.key)

WearInv == Wear > 0 => \A s \in Side : Wearing(stream[s], pc[s], ktx[s])

-----------------------------------------------------------------------------
(* The count is a number.                                                  *)
LEMMA SpentType ==
  ASSUME NEW st, NEW k, Len(st) \in Nat
  PROVE  /\ IsFiniteSet({i \in 1 .. Len(st) : st[i].kind = "data" /\ st[i].key = k})
         /\ Spent(st, k) \in Nat
<1> DEFINE S == {i \in 1 .. Len(st) : st[i].kind = "data" /\ st[i].key = k}
<1>1. IsFiniteSet(1 .. Len(st))
  BY FS_Interval
<1>2. IsFiniteSet(S)
  BY <1>1, FS_Subset
<1> QED BY <1>2, FS_CardinalityType DEF Spent

(* A key no message was sealed under has none.                             *)
LEMMA SpentNothing ==
  ASSUME NEW st, NEW k, \A i \in 1 .. Len(st) : ~(st[i].kind = "data" /\ st[i].key = k)
  PROVE  Spent(st, k) = 0
<1>1. {i \in 1 .. Len(st) : st[i].kind = "data" /\ st[i].key = k} = {}
  OBVIOUS
<1> QED BY <1>1, FS_EmptySet DEF Spent

(* One message more.                                                       *)
LEMMA SpentOne ==
  ASSUME NEW st \in Seq(Record), NEW r \in Record, NEW k, r.kind = "data", r.key = k
  PROVE  Spent(Append(st, r), k) = Spent(st, k) + 1
<1> DEFINE n == Len(st)
           new == Append(st, r)
           S == {i \in 1 .. n : st[i].kind = "data" /\ st[i].key = k}
<1>1. n \in Nat /\ Len(new) = n + 1 /\ new[n + 1] = r /\ \A i \in 1 .. n : new[i] = st[i]
  OBVIOUS
<1> HIDE DEF new
<1>2. {i \in 1 .. Len(new) : new[i].kind = "data" /\ new[i].key = k} = S \union {n + 1}
  <2>1. \A i \in 1 .. n + 1 : i \in 1 .. n \/ i = n + 1
    BY <1>1
  <2>2. (\A i \in 1 .. n : i \in 1 .. n + 1) /\ n + 1 \in 1 .. n + 1
    BY <1>1
  <2> QED BY <1>1, <2>1, <2>2
<1>3. IsFiniteSet(S) /\ n + 1 \notin S
  <2>1. IsFiniteSet(S)
    BY <1>1, SpentType
  <2>2. n + 1 \notin S
    BY <1>1
  <2> QED BY <2>1, <2>2
<1>4. Cardinality(S \union {n + 1}) = Cardinality(S) + 1
  BY <1>3, FS_AddElement
<1> QED BY <1>2, <1>4 DEF Spent, new

(* README.md's count is this one.                                          *)
LEMMA RecordsAre ==
  ASSUME HandoverInv, NEW s \in Side
  PROVE  Records(s) = Spent(stream[s], ktx[s].key)
<1>1. DOMAIN stream[s] = 1 .. Len(stream[s])
  BY Here
<1> QED BY <1>1 DEF Records, Spent

(* Half of what a key may seal, and room for the tickets and KeyUpdate.    *)
LEMMA Half ==
  ASSUME Wear > 0, Wear # 1
  PROVE  /\ Wear \in Nat /\ Tickets \in Nat /\ RecordLimit \in Nat /\ RecordLimit # 0
         /\ Tickets + RecordLimit < Wear
<1>1. Wear \in Nat /\ Tickets \in Nat /\ Tickets + 1 <= Wear - Wear \div 2
  BY ExchangeAssumption
<1> QED BY <1>1 DEF RecordLimit

-----------------------------------------------------------------------------
(* One side moves, and only what it sends with is looked at.               *)
LEMMA OneWears ==
  ASSUME HandoverInv, WearInv, Wear > 0, NEW s \in Side, Moves(s),
         Wearing(stream'[s], pc'[s], ktx'[s])
  PROVE  WearInv'
<1>1. \A q \in Side : q # s => stream'[q] = stream[q] /\ pc'[q] = pc[q] /\ ktx'[q] = ktx[q]
  BY DEF Moves, HandoverInv, Types
<1>2. \A q \in Side : Wearing(stream'[q], pc'[q], ktx'[q])
  BY <1>1 DEF WearInv
<1> QED BY <1>2 DEF WearInv

(* A step that neither sends nor turns the sending key.                    *)
LEMMA StillWears ==
  ASSUME HandoverInv, WearInv, Wear > 0, NEW s \in Side, NEW q, pc' = [pc EXCEPT ![s] = q],
         q \notin Sends \union {"turn_tx"} \/ (pc[s] \in Sends /\ q # "turn_tx"),
         UNCHANGED <<stream, ktx>>
  PROVE  WearInv'
<1>1. /\ pc'[s] = q /\ \A p \in Side : p # s => pc'[p] = pc[p]
  BY DEF HandoverInv, Types
<1>2. Wearing(stream[s], pc[s], ktx[s])
  BY DEF WearInv
<1>3. Wearing(stream[s], q, ktx[s])
  BY <1>2 DEF Wearing
<1>4. \A p \in Side : Wearing(stream'[p], pc'[p], ktx'[p])
  BY <1>1, <1>3 DEF WearInv
<1> QED BY <1>4 DEF WearInv

(* Every step that neither writes nor gives the kernel a sending key.      *)
LEMMA QuietWears ==
  ASSUME "unchecked" \notin Habits, HandoverInv, WearInv, Wear > 0, NEW s \in Side,
         \/ CallTake(s) \/ CallFeed(s) \/ CallBacklog(s) \/ CallRelease(s)
         \/ Eof(s) \/ Die(s) \/ Close(s) \/ Rejects(s)
         \/ SubmitRx(s) \/ Receive(s) \/ TurnRx(s)
         \/ (CallOffload(s) /\ OffloadRefuses(s))
  PROVE  WearInv'
<1>1. CASE CallTake(s)
  BY <1>1, StillWears DEF CallTake, Take, Goto, kernel, Sends
<1>2. CASE CallFeed(s)
  <2>1. PICK q \in {"step", "drain"} : pc' = [pc EXCEPT ![s] = q]
    BY <1>2 DEF CallFeed, Goto
  <2>2. UNCHANGED <<stream, ktx>>
    BY <1>2 DEF CallFeed, Feed, kernel
  <2> QED BY <2>1, <2>2, StillWears DEF Sends
<1>3. CASE CallBacklog(s)
  <2>1. PICK q \in {"drain", "offload"} : pc' = [pc EXCEPT ![s] = q]
    BY <1>3 DEF CallBacklog, Goto
  <2>2. UNCHANGED <<stream, ktx>>
    BY <1>3 DEF CallBacklog, BacklogReads, BacklogEmpty, kernel
  <2> QED BY <2>1, <2>2, StillWears DEF Sends
<1>4. CASE CallRelease(s)
  <2>1. pc[s] = "live" /\ UNCHANGED <<pc, stream, ktx>>
    BY <1>4 DEF CallRelease, Release, kernel
  <2> QED BY <2>1 DEF WearInv
<1>5. CASE Eof(s) \/ Die(s) \/ Close(s) \/ Rejects(s)
  <2>1. pc' = [pc EXCEPT ![s] = "closed"] /\ UNCHANGED <<stream, ktx>>
    BY <1>5 DEF Eof, Die, Close, Rejects, Goto, kernel
  <2> QED BY <2>1, StillWears DEF Sends
<1>6. CASE SubmitRx(s)
  <2>1. pc[s] = "submit" /\ pc' = [pc EXCEPT ![s] = "live"] /\ UNCHANGED <<stream, ktx>>
    BY <1>6 DEF SubmitRx, Goto
  <2> QED BY <2>1, StillWears DEF Sends
<1>7. CASE Receive(s)
  <2>1. PICK q \in {"live", "turn_rx"} : pc' = [pc EXCEPT ![s] = q]
    BY <1>7 DEF Receive, Goto
  <2>2. pc[s] = "live" /\ UNCHANGED <<stream, ktx>>
    BY <1>7 DEF Receive
  <2> QED BY <2>1, <2>2, StillWears DEF Sends
<1>8. CASE TurnRx(s)
  <2>1. PICK q \in {"live", "closed"} : pc' = [pc EXCEPT ![s] = q]
    BY <1>8 DEF TurnRx, Turn, Goto
  <2>2. pc[s] = "turn_rx" /\ UNCHANGED <<stream, ktx>>
    BY <1>8 DEF TurnRx, Turn
  <2> QED BY <2>1, <2>2, StillWears DEF Sends
<1>9. CASE CallOffload(s) /\ OffloadRefuses(s)
  <2>1. pc' = [pc EXCEPT ![s] = "closed"] /\ UNCHANGED <<stream, ktx>>
    BY <1>9 DEF CallOffload, OffloadRefuses, Goto, kernel
  <2> QED BY <2>1, StillWears DEF Sends
<1> QED BY <1>1, <1>2, <1>3, <1>4, <1>5, <1>6, <1>7, <1>8, <1>9

-----------------------------------------------------------------------------
(* OpenSSL's own records use up no more than the tickets' sequences.       *)
LEMMA WritesWear ==
  ASSUME Wear > 0, Wear # 1, NEW s \in Side, NEW stage \in {"hello", "finish"}
  PROVE  \A i \in 1 .. Len(Writes(s, stage)) : Writes(s, stage)[i].seq < Wear
<1> DEFINE ws == Writes(s, stage)
<1> USE Half
<1>1. Handshake("hs").seq = 0 /\ Handshake("fin").seq = 0
  BY DEF Handshake
<1>2. CASE s = "client"
  BY <1>1, <1>2 DEF Writes
<1>3. CASE s = "server" /\ stage = "hello"
  <2>1. ws = [i \in 1 .. Flight |-> Handshake(IF i = Flight THEN "fin" ELSE "hs")]
    BY <1>3 DEF Writes
  <2>2. Len(ws) = Flight
    BY <2>1, ExchangeAssumption
  <2>3. \A i \in 1 .. Flight : ws[i] = Handshake("hs") \/ ws[i] = Handshake("fin")
    BY <2>1
  <2> QED BY <1>1, <2>2, <2>3
<1>4. CASE s = "server" /\ stage = "finish"
  <2>1. ws = [i \in 1 .. Tickets |->
                [kind |-> "nst", type |-> 22, key |-> 1, seq |-> i - 1]]
    BY <1>4 DEF Writes
  <2>2. Len(ws) = Tickets
    BY <2>1
  <2> SUFFICES ASSUME NEW i \in 1 .. Tickets
               PROVE  ws[i].seq < Wear
    BY <2>2
  <2>3. ws[i].seq = i - 1
    BY <2>1
  <2> QED BY <2>3
<1> QED BY <1>2, <1>3, <1>4 DEF Side

(* The handshake's steps: its tickets fit in the half kept back.           *)
LEMMA StepWears ==
  ASSUME HandoverInv, WearInv, Wear > 0, Wear # 1, NEW s \in Side, CallStep(s) \/ CallStepFails(s)
  PROVE  WearInv'
<1> DEFINE st == stream[s]
           new == stream'[s]
<1>1. /\ Moves(s) /\ pc'[s] \in {"step", "take", "read", "drain", "closed"}
      /\ new = st \/ new = st \o Writes(s, "hello") \/ new = st \o Writes(s, "finish")
  BY StepShape
<1>2. st \in Seq(Record) /\ \A i \in 1 .. Len(st) : st[i].seq < Wear
  BY Here DEF WearInv, Wearing
<1>3. ASSUME NEW ws \in Seq(Record), \A i \in 1 .. Len(ws) : ws[i].seq < Wear
      PROVE  \A i \in 1 .. Len(st \o ws) : (st \o ws)[i].seq < Wear
  <2>1. /\ Len(st) \in Nat /\ Len(ws) \in Nat /\ Len(st \o ws) = Len(st) + Len(ws)
        /\ \A i \in 1 .. Len(st) + Len(ws) :
             (st \o ws)[i] = IF i <= Len(st) THEN st[i] ELSE ws[i - Len(st)]
    BY <1>2, <1>3
  <2>2. \A i \in 1 .. Len(st) + Len(ws) :
          i \in 1 .. Len(st) \/ (~(i <= Len(st)) /\ i - Len(st) \in 1 .. Len(ws))
    BY <2>1
  <2>3. \A i \in 1 .. Len(st) : i <= Len(st)
    BY <2>1
  <2> QED BY <1>2, <1>3, <2>1, <2>2, <2>3
<1>4. \A i \in 1 .. Len(new) : new[i].seq < Wear
  <2>1. /\ Writes(s, "hello") \in Seq(Record) /\ Writes(s, "finish") \in Seq(Record)
        /\ \A i \in 1 .. Len(Writes(s, "hello")) : Writes(s, "hello")[i].seq < Wear
        /\ \A i \in 1 .. Len(Writes(s, "finish")) : Writes(s, "finish")[i].seq < Wear
    BY WritesIs, WritesWear
  <2>2. CASE new = st
    BY <1>2, <2>2
  <2>3. CASE new = st \o Writes(s, "hello")
    BY <1>3, <2>1, <2>3
  <2>4. CASE new = st \o Writes(s, "finish")
    BY <1>3, <2>1, <2>4
  <2> QED BY <1>1, <2>2, <2>3, <2>4
<1>5. Wearing(new, pc'[s], ktx'[s])
  BY <1>1, <1>4 DEF Wearing, Sends
<1> QED BY <1>1, <1>5, OneWears

(* The kernel starts where the tickets left off, and has sealed nothing.   *)
LEMMA FirstBlobWears ==
  ASSUME HandoverInv, WearInv, Wear > 0, Wear # 1, NEW s \in Side, pc[s] = "offload",
         HandsOver(x[s]), NEW q, q # "turn_tx"
  PROVE  Wearing(stream[s], q, CryptoInfo(x[s], s, "tx"))
<1> DEFINE e == x[s]
           st == stream[s]
           n == Len(st)
           kt == CryptoInfo(e, s, "tx")
<1> USE Half
<1>1. /\ kt = NonceAfter(st, n) /\ kt.key = 1
  BY TxBlob
<1>2. /\ ktx[s] = NoKey /\ OnlyTickets(s, st) /\ e.made = U * n /\ e.done /\ n \in Nat
      /\ Sealed(s, st) /\ Pace(s, e)
  BY InOffered, Here DEF Offered
<1>3. Own(s) \in Nat /\ Written(s, "complete") \in Nat /\ Written(s, "complete") <= Own(s) + Tickets
      /\ Written(s, "complete") >= Own(s) /\ Own(s) # 0
  BY ExchangeAssumption DEF Own, Written
<1>4. e.made = U * Written(s, "complete")
  BY <1>2 DEF Pace
<1> HIDE DEF kt, n
<1>5. n <= Own(s) + Tickets /\ n >= Own(s)
  BY <1>2, <1>3, <1>4 DEF U
<1>6. kt.seq <= Tickets
  <2>1. CASE n = Own(s)
    <3>1. st[n].key = 0
      BY <1>2, <1>3, <2>1 DEF Sealed, n
    <3>2. NonceAfter(st, n).seq = 0
      BY <3>1 DEF NonceAfter
    <3> QED BY <1>1, <3>2
  <2>2. CASE n > Own(s)
    <3>1. n \in Own(s) + 1 .. Len(st) /\ n \in 1 .. Len(st) /\ n # 0
      BY <1>2, <1>3, <2>2 DEF n
    <3>2. st[n].kind = "nst" /\ st[n].key = 1
      BY <1>2, <3>1 DEF OnlyTickets
    <3>3. st[n].seq = n - Own(s) - 1
      BY <1>2, <2>2, <3>1, <3>2 DEF Sealed
    <3>4. NonceAfter(st, n).seq = st[n].seq + 1
      BY <3>1, <3>2 DEF NonceAfter
    <3> QED BY <1>1, <1>2, <1>3, <1>5, <3>3, <3>4
  <2> QED BY <1>2, <1>3, <1>5, <2>1, <2>2
<1>7. \A i \in 1 .. Len(st) : st[i].kind # "data" /\ st[i].key <= 1
  <2>1. \A i \in 1 .. Len(st) : st[i].kind \in {"hs", "fin", "nst"}
    BY <1>2, OpenSSLKinds
  <2>2. \A i \in 1 .. Len(st) : st[i].key <= 1
    <3> SUFFICES ASSUME NEW i \in 1 .. Len(st)
                 PROVE  st[i].key <= 1
      OBVIOUS
    <3>1. CASE i <= Own(s)
      BY <1>2, <3>1 DEF Sealed
    <3>2. CASE i > Own(s)
      <4>1. i \in Own(s) + 1 .. Len(st)
        BY <1>2, <1>3, <3>2 DEF n
      <4> QED BY <1>2, <4>1 DEF OnlyTickets
    <3> QED BY <1>2, <1>3, <3>1, <3>2
  <2> QED BY <2>1, <2>2
<1>8. Spent(st, kt.key) = 0
  BY <1>7, SpentNothing
<1>9. \A i \in 1 .. Len(st) : st[i].seq < Wear
  BY DEF WearInv, Wearing
<1>10. kt.seq <= Tickets + Spent(st, kt.key) /\ Spent(st, kt.key) <= RecordLimit
  BY <1>6, <1>8
<1>11. Wearing(st, q, kt)
  BY <1>1, <1>7, <1>9, <1>10 DEF Wearing
<1> QED BY <1>11 DEF kt

(* The kernel begins where the tickets ended, and the caller at 0.         *)
LEMMA OffloadWears ==
  ASSUME HandoverInv, WearInv, Wear > 0, Wear # 1, NEW s \in Side,
         (CallOffload(s) /\ ~OffloadRefuses(s)) \/ SubmitTx(s)
  PROVE  WearInv'
<1> DEFINE kt == CryptoInfo(x[s], s, "tx")
<1>1. /\ pc[s] = "offload" /\ HandsOver(x[s]) /\ stream' = stream
      /\ ktx' = [ktx EXCEPT ![s] = kt]
  BY DEF CallOffload, OffloadInstalls, OffloadHalves, SubmitTx
<1>2. PICK q \in {"live", "closed", "submit"} : pc' = [pc EXCEPT ![s] = q]
  BY DEF CallOffload, OffloadInstalls, OffloadHalves, SubmitTx, Goto
<1>3. Wearing(stream[s], q, kt)
  BY <1>1, FirstBlobWears
<1> HIDE DEF kt
<1>4. /\ pc'[s] = q /\ ktx'[s] = kt /\ stream'[s] = stream[s]
      /\ \A p \in Side : p # s => pc'[p] = pc[p] /\ ktx'[p] = ktx[p]
  BY <1>1, <1>2 DEF HandoverInv, Types
<1>5. \A p \in Side : Wearing(stream'[p], pc'[p], ktx'[p])
  BY <1>1, <1>3, <1>4 DEF WearInv
<1> QED BY <1>5 DEF WearInv

(* A record more: within the limit a message, and after the last of them   *)
(* the KeyUpdate or close_notify that the other half has room for.         *)
LEMMA SealWears ==
  ASSUME HandoverInv, WearInv, Wear > 0, Wear # 1, NEW s \in Side, pc[s] \in {"live", "submit"},
         ~Shut(s), NEW record, record \in {"DATA", "HANDSHAKE", "ALERT"},
         NEW kind, kind \in {"data", "ku", "close"}, Seal(s, record, kind), Moves(s),
         \/ kind = "data" /\ pc'[s] = pc[s] /\ Records(s) < RecordLimit
         \/ kind = "ku" /\ pc'[s] = "turn_tx"
         \/ kind = "close" /\ pc'[s] = pc[s]
  PROVE  WearInv'
<1> DEFINE st == stream[s]
           kt == ktx[s]
           n == Len(st)
           r == [kind |-> kind, type |-> TypeOf(record), key |-> kt.key, seq |-> kt.seq]
           new == Append(st, r)
           k2 == [kt EXCEPT !.seq = kt.seq + 1]
<1> USE Half
<1>1. stream'[s] = new /\ ktx'[s] = k2
  BY DEF Seal, HandoverInv, Types
<1>2. st \in Seq(Record) /\ n \in Nat /\ kt \in Nonce /\ kt.key \in Nat /\ kt.seq \in Nat
  BY Here DEF Nonce
<1>3. r \in Record /\ r.kind = kind /\ r.key = kt.key /\ r.seq = kt.seq
  BY <1>2 DEF Record, TypeOf
<1>4. k2.key = kt.key /\ k2.seq = kt.seq + 1
  BY <1>2 DEF Nonce
<1> HIDE DEF r, k2
<1>5. /\ \A i \in 1 .. n : st[i].seq < Wear /\ st[i].key <= kt.key
      /\ Spent(st, kt.key) <= RecordLimit /\ kt.seq <= Tickets + Spent(st, kt.key)
      /\ Spent(st, kt.key) \in Nat
  <2>1. Wearing(st, pc[s], kt) /\ ~Shutting(st)
    BY ShutIs DEF WearInv
  <2> QED BY <1>2, <2>1, SpentType DEF Wearing, Sends
<1>6. r.seq < Wear
  BY <1>2, <1>3, <1>5
<1>7. /\ Len(new) = n + 1 /\ new[n + 1] = r /\ \A i \in 1 .. n : new[i] = st[i]
  BY <1>2, <1>3
<1>8. kind = "data" => Spent(new, kt.key) = Spent(st, kt.key) + 1
  BY <1>2, <1>3, SpentOne
<1> HIDE DEF new
<1>9. \A i \in 1 .. Len(new) : new[i].seq < Wear /\ new[i].key <= k2.key
  <2> SUFFICES ASSUME NEW i \in 1 .. Len(new)
               PROVE  new[i].seq < Wear /\ new[i].key <= k2.key
    OBVIOUS
  <2>1. CASE i \in 1 .. n
    BY <1>4, <1>5, <1>7, <2>1
  <2>2. CASE i = n + 1
    BY <1>2, <1>3, <1>4, <1>6, <1>7, <2>2
  <2> QED BY <1>2, <1>7, <2>1, <2>2
<1>10. Wearing(new, pc'[s], k2)
  <2>1. CASE kind = "data"
    <3>1. Spent(st, kt.key) < RecordLimit
      BY <2>1, RecordsAre
    <3>2. /\ Spent(new, k2.key) <= RecordLimit
          /\ k2.seq <= Tickets + Spent(new, k2.key)
      BY <1>2, <1>4, <1>5, <1>8, <2>1, <3>1
    <3> QED BY <1>9, <3>2 DEF Wearing
  <2>2. CASE kind = "ku"
    BY <1>9, <2>2 DEF Wearing, Sends
  <2>3. CASE kind = "close"
    <3>1. new # <<>> /\ new[Len(new)].kind = "close"
      BY <1>2, <1>3, <1>7, <2>3
    <3>2. Shutting(new)
      BY <3>1 DEF Shutting
    <3> QED BY <1>9, <3>2 DEF Wearing
  <2> QED BY <2>1, <2>2, <2>3
<1> QED BY <1>1, <1>10, OneWears

(* Sending: below the limit there is room for the message, at it for the   *)
(* KeyUpdate and the close_notify.                                         *)
LEMMA SendWears ==
  ASSUME "unchecked" \notin Habits, HandoverInv, WearInv, Wear > 0, Wear # 1, NEW s \in Side,
         SendData(s) \/ SendKeyUpdate(s) \/ SendClose(s)
  PROVE  WearInv'
<1>1. Moves(s)
  BY GoneIs
<1>2. CASE SendData(s)
  <2>1. RecordLimit # 0
    BY Half
  <2>2. /\ pc[s] \in {"live", "submit"} /\ ~Shut(s) /\ Seal(s, "DATA", "data") /\ pc'[s] = pc[s]
        /\ Records(s) < RecordLimit
    BY <1>2, <2>1 DEF SendData
  <2> QED BY <1>1, <2>2, SealWears
<1>3. CASE SendKeyUpdate(s)
  <2>1. /\ pc[s] \in {"live", "submit"} /\ ~Shut(s) /\ Seal(s, "HANDSHAKE", "ku")
        /\ pc'[s] = "turn_tx"
    BY <1>3 DEF SendKeyUpdate, Goto, HandoverInv, Types
  <2> QED BY <1>1, <2>1, SealWears
<1>4. CASE SendClose(s)
  <2>1. /\ pc[s] \in {"live", "submit"} /\ ~Shut(s) /\ Seal(s, "ALERT", "close") /\ pc'[s] = pc[s]
    BY <1>4 DEF SendClose
  <2> QED BY <1>1, <2>1, SealWears
<1> QED BY <1>2, <1>3, <1>4

(* A turned key starts at zero and has sealed nothing.                     *)
LEMMA TurnTxWears ==
  ASSUME "unchecked" \notin Habits, HandoverInv, WearInv, Wear > 0, Wear # 1, NEW s \in Side,
         TurnTx(s)
  PROVE  WearInv'
<1> DEFINE st == stream[s]
           kt == ktx[s]
<1> USE Half
<1>1. Moves(s) /\ stream' = stream /\ pc'[s] \in {"live", "closed"} /\ pc[s] = "turn_tx"
  BY TurnShape DEF TurnTx
<1>2. Wearing(st, "turn_tx", kt) /\ kt.key \in Nat
  BY <1>1, Here DEF WearInv, Nonce
<1>3. NonceAfter(st, Len(st)) = [key |-> kt.key + 1, seq |-> 0]
  <2>1. Sending(s, x[s], st, "turn_tx", wrote[s], kt)
    BY <1>1, Here
  <2> QED BY <2>1 DEF Sending
<1>4. CASE pc'[s] = "closed"
  BY <1>1, <1>2, <1>4, OneWears DEF Wearing, Sends
<1>5. CASE pc'[s] = "live"
  <2>1. HandoverInv'
    BY TurnsKeep
  <2>2. Sending(s, x'[s], stream'[s], pc'[s], wrote'[s], ktx'[s])
    BY <2>1 DEF HandoverInv, Local
  <2>3. ktx'[s] = [key |-> kt.key + 1, seq |-> 0]
    BY <1>1, <1>3, <1>5, <2>2 DEF Sending
  <2>4. ktx'[s].key = kt.key + 1 /\ ktx'[s].seq = 0
    BY <2>3
  <2>5. st \in Seq(Record)
    BY Here
  <2>6. \A i \in 1 .. Len(st) : st[i].key \in Nat /\ st[i].key <= kt.key /\ st[i].seq < Wear
    <3>1. \A i \in 1 .. Len(st) : st[i] \in Record
      BY <2>5
    <3> QED BY <1>2, <3>1 DEF Wearing, Record
  <2>7. \A i \in 1 .. Len(st) : st[i].key # kt.key + 1 /\ st[i].key <= kt.key + 1
    BY <1>2, <2>6
  <2>8. Spent(st, ktx'[s].key) = 0
    BY <2>4, <2>7, SpentNothing
  <2>9. Wearing(st, "live", ktx'[s])
    BY <2>4, <2>6, <2>7, <2>8 DEF Wearing
  <2> QED BY <1>1, <1>5, <2>9, OneWears
<1> QED BY <1>1, <1>4, <1>5

-----------------------------------------------------------------------------
(* Nothing was sealed yet.                                                 *)
LEMMA WearInit ==
  Init => WearInv
<1> SUFFICES ASSUME Init, NEW s \in Side
             PROVE  Wearing(stream[s], pc[s], ktx[s])
  BY DEF WearInv
<1>1. pc[s] = "step" /\ stream[s] = <<>>
  BY DEF Init, ExchangeInit
<1>2. 1 .. Len(stream[s]) = {}
  BY <1>1
<1> QED BY <1>1, <1>2 DEF Wearing, Sends

(* Every step.                                                             *)
LEMMA WearKeeps ==
  ASSUME "unchecked" \notin Habits, Wear # 1, HandoverInv, WearInv, [Next]_vars
  PROVE  WearInv'
<1>1. CASE ~(Wear > 0)
  BY <1>1 DEF WearInv
<1>2. CASE UNCHANGED vars
  BY <1>2 DEF vars, kernel, WearInv
<1>3. ASSUME Wear > 0, NEW s \in Side,
             Progress(s) \/ SubmitTx(s) \/ CallStepFails(s) \/ CallRelease(s)
               \/ Die(s) \/ SendData(s) \/ SendKeyUpdate(s) \/ SendClose(s)
      PROVE  WearInv'
  <2>1. CASE CallStep(s) \/ CallStepFails(s) BY <1>3, <2>1, StepWears
  <2>2. CASE \/ CallTake(s) \/ CallFeed(s) \/ CallBacklog(s) \/ CallRelease(s)
             \/ Eof(s) \/ Die(s) \/ Close(s) \/ Rejects(s)
             \/ SubmitRx(s) \/ Receive(s) \/ TurnRx(s)
             \/ (CallOffload(s) /\ OffloadRefuses(s))
    BY <1>3, <2>2, QuietWears
  <2>3. CASE (CallOffload(s) /\ ~OffloadRefuses(s)) \/ SubmitTx(s)
    BY <1>3, <2>3, OffloadWears
  <2>4. CASE SendData(s) \/ SendKeyUpdate(s) \/ SendClose(s) BY <1>3, <2>4, SendWears
  <2>5. CASE TurnTx(s) BY <1>3, <2>5, TurnTxWears
  <2> QED BY <1>3, <2>1, <2>2, <2>3, <2>4, <2>5 DEF Progress
<1> QED BY <1>1, <1>2, <1>3 DEF Next

(* No key seals more records than it may, for a caller that turns it once  *)
(* its own count reaches ktls_record_limit.  A limit of one record, which  *)
(* no cipher has, would halve to 0, and 0 means there is none.             *)
THEOREM KeysLast ==
  ASSUME "unchecked" \notin Habits, Wear # 1
  PROVE  Spec => []KeyNotWornOut
<1>1. Init => HandoverInv /\ WearInv
  BY InitHolds, WearInit
<1>2. HandoverInv /\ WearInv /\ [Next]_vars => (HandoverInv /\ WearInv)'
  BY NextKeeps, WearKeeps
<1>3. HandoverInv /\ WearInv => KeyNotWornOut
  <2> SUFFICES ASSUME HandoverInv, WearInv, Wear > 0, NEW s \in Side, NEW i \in DOMAIN stream[s]
               PROVE  stream[s][i].seq < Wear
    BY DEF KeyNotWornOut
  <2>1. DOMAIN stream[s] = 1 .. Len(stream[s])
    BY Here
  <2> QED BY <2>1 DEF WearInv, Wearing
<1> QED BY <1>1, <1>2, <1>3, PTL DEF Spec

=============================================================================
