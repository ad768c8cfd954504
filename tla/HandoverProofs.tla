--------------------------- MODULE HandoverProofs ---------------------------
(***************************************************************************)
(* What the handover keeps for every flight, every number of tickets,      *)
(* messages and key changes, every size of the table, and every way the    *)
(* callers may behave.                                                     *)
(***************************************************************************)
EXTENDS Handover, FiniteSetTheorems, SequenceTheorems, TLAPS

(* The records a side writes under its handshake keys, its Finished the    *)
(* last of them, and how many records OpenSSL has written by each stage.   *)
Own(s) == IF s = "client" THEN 2 ELSE Flight
Written(s, stage) ==
  IF stage = "hello" THEN 0
  ELSE IF s = "client" THEN IF stage = "finish" THEN 1 ELSE 2
  ELSE IF stage = "finish" THEN Flight ELSE Flight + Tickets

Record ==
  [kind : {"hs", "fin", "nst", "data", "ku", "close"}, type : Int, key : Nat, seq : Nat]
Nonce == [key : Nat, seq : Nat]
Stages == {"hello", "finish", "complete"}
ExchangeType ==
  [ssl : BOOLEAN, done : BOOLEAN, stage : Stages,
   fed : Nat, eaten : Nat, made : Nat, taken : Nat,
   tx_at_done : Nat, rx_at_done : Nat,
   secret : [Side -> Nat], info : [Side -> Nat], rekeyed : [Side -> BOOLEAN]]

Before == {"step", "take", "read"}
Offered == {"drain", "offload"}
Kernels == {"live", "turn_tx", "turn_rx"}

Types ==
  /\ x \in [Side -> ExchangeType] /\ stream \in [Side -> Seq(Record)]
  /\ pc \in [Side -> Before \union Offered \union {"submit", "closed"} \union Kernels]
  /\ wrote \in [Side -> Nat] /\ read \in [Side -> Nat]
  /\ ktx \in [Side -> Nonce] /\ krx \in [Side -> Nonce]
  /\ got \in [Side -> Seq(Nat)] /\ ended \in [Side -> {"open", "clean", "cut"}]

(* How far OpenSSL and the caller are, and where the application records   *)
(* of either direction begin once the handshake is done.                   *)
Pace(s, e) ==
  /\ e.made = U * Written(s, e.stage)
  /\ e.taken <= e.made /\ e.eaten <= e.fed
  /\ e.stage = "complete" => e.fed >= U * Own(Peer(s))
  /\ e.stage = "complete" /\ ~e.done /\ s = "server" => e.taken = U * Own(s)
  /\ e.done => /\ e.stage = "complete"
               /\ e.tx_at_done = U * Own(s) /\ e.rx_at_done = U * Own(Peer(s))
               /\ e.eaten >= U * Own(Peer(s))

(* Which keys the exchange holds until it turns one.                       *)
Fresh(e) ==
  \A w \in Side : ~e.rekeyed[w] /\ (e.stage = "complete" => e.secret[w] = 1)
                                /\ (e.done => e.info[w] = 1)

(* A stream is a handshake part and then records under application keys,   *)
(* each with the nonce after its predecessor's.                            *)
Sealed(s, st) ==
  \A i \in 1 .. Len(st) :
    /\ i <= Own(s) => st[i].key = 0 /\ st[i].kind \in {"hs", "fin"}
    /\ i > Own(s) => /\ st[i].key >= 1 /\ st[i].kind \in {"nst", "data", "ku", "close"}
                     /\ st[i].key = NonceAfter(st, i - 1).key
                     /\ st[i].seq = NonceAfter(st, i - 1).seq
                     /\ st[i].key <= MaxKey
                     /\ st[i].key = 1 => st[i].seq = i - Own(s) - 1

(* All that OpenSSL ever writes after the handshake.                       *)
OnlyTickets(s, st) ==
  \A i \in Own(s) + 1 .. Len(st) : st[i].kind = "nst" /\ st[i].key = 1

(* Before the kernel has a sending key the wire holds what was taken, from *)
(* then on every record; and which key the kernel then has.                *)
Sending(s, e, st, p, w, kt) ==
  /\ kt = NoKey => e.made = U * Len(st) /\ w = e.taken /\ OnlyTickets(s, st)
  /\ kt # NoKey => /\ e.done /\ e.taken = e.made /\ e.made <= U * Len(st)
                   /\ w = U * Len(st) /\ kt.key \in 1 .. MaxKey
  /\ p \in Before \union Offered => kt = NoKey
  /\ p \in {"submit"} \union Kernels =>
       kt # NoKey /\ e.secret[s] = kt.key /\ e.info[s] = kt.key
  /\ p \in {"submit", "live", "turn_rx"} => kt = NonceAfter(st, Len(st))
  /\ p = "turn_tx" => /\ NonceAfter(st, Len(st)) = [key |-> kt.key + 1, seq |-> 0]
                      /\ kt.key < MaxKey

Calling(s, e, p, r, kt, kr) ==
  /\ p \in Before \union Offered \union {"submit"} => e.ssl /\ kr = NoKey
  /\ p \in Offered \union {"submit"} \union Kernels => e.done
  /\ p \in Kernels => kr # NoKey /\ kr.key = e.secret[Peer(s)] /\ kr.key = e.info[Peer(s)]
  /\ p = "turn_rx" => kr.key <= MaxKey
  /\ kr # NoKey => e.done /\ kr.key \in 1 .. MaxKey + 1
  /\ kr = NoKey => Fresh(e) /\ r = e.fed
  /\ e.fed <= r
  /\ e.stage = "complete" /\ ~e.done =>
       /\ p \in {"step", "closed"}
       /\ p = "step" => e.eaten = U * Own(Peer(s))

Local(s, e, st, p, w, r, kt, kr) ==
  /\ Pace(s, e) /\ Sealed(s, st)
  /\ Sending(s, e, st, p, w, kt) /\ Calling(s, e, p, r, kt, kr)

HandoverInv ==
  /\ Types
  /\ \A s \in Side :
       /\ Local(s, x[s], stream[s], pc[s], wrote[s], read[s], ktx[s], krx[s])
       /\ read[s] <= wrote[Peer(s)]

-----------------------------------------------------------------------------
(* One side moves: only its own part of the state changes.                 *)
Moves(s) ==
  /\ x' = [x EXCEPT ![s] = x'[s]] /\ stream' = [stream EXCEPT ![s] = stream'[s]]
  /\ pc' = [pc EXCEPT ![s] = pc'[s]]
  /\ wrote' = [wrote EXCEPT ![s] = wrote'[s]] /\ read' = [read EXCEPT ![s] = read'[s]]
  /\ ktx' = [ktx EXCEPT ![s] = ktx'[s]] /\ krx' = [krx EXCEPT ![s] = krx'[s]]
  /\ got' = [got EXCEPT ![s] = got'[s]] /\ ended' = [ended EXCEPT ![s] = ended'[s]]

(* The two ends, and each the other's peer.                                *)
LEMMA Sides ==
  ASSUME NEW s \in Side
  PROVE  Peer(s) \in Side /\ Peer(s) # s /\ Peer(Peer(s)) = s /\ Side = {s, Peer(s)}
  BY DEF Side, Peer

(* One side moves: the invariant is kept if that side is still well typed  *)
(* and consistent with itself and neither end has read more than was       *)
(* written.                                                                *)
LEMMA OneMoves ==
  ASSUME HandoverInv, NEW s \in Side, Moves(s),
         x'[s] \in ExchangeType, stream'[s] \in Seq(Record),
         pc'[s] \in Before \union Offered \union {"submit", "closed"} \union Kernels,
         wrote'[s] \in Nat, read'[s] \in Nat, ktx'[s] \in Nonce, krx'[s] \in Nonce,
         got'[s] \in Seq(Nat), ended'[s] \in {"open", "clean", "cut"},
         Local(s, x'[s], stream'[s], pc'[s], wrote'[s], read'[s], ktx'[s], krx'[s]),
         read'[s] <= wrote[Peer(s)], wrote[s] <= wrote'[s]
  PROVE  HandoverInv'
<1> DEFINE t == Peer(s)
<1>1. t \in Side /\ t # s /\ Peer(t) = s /\ Side = {s, t}
  BY Sides
<1>2. Types'
  BY DEF Types, HandoverInv, Moves
<1>3. /\ x'[t] = x[t] /\ stream'[t] = stream[t] /\ pc'[t] = pc[t] /\ wrote'[t] = wrote[t]
      /\ read'[t] = read[t] /\ ktx'[t] = ktx[t] /\ krx'[t] = krx[t]
  BY <1>1 DEF Types, HandoverInv, Moves
<1>4. Local(t, x'[t], stream'[t], pc'[t], wrote'[t], read'[t], ktx'[t], krx'[t])
  BY <1>1, <1>3 DEF HandoverInv
<1>5. read'[t] <= wrote'[s]
  <2>1. read[t] <= wrote[s] /\ read[t] \in Nat /\ wrote[s] \in Nat
    BY <1>1 DEF HandoverInv, Types
  <2> QED BY <2>1, <1>3
<1>6. read'[s] <= wrote'[t]
  BY <1>3
<1>7. \A q \in Side :
       /\ Local(q, x'[q], stream'[q], pc'[q], wrote'[q], read'[q], ktx'[q], krx'[q])
       /\ read'[q] <= wrote'[Peer(q)]
  BY <1>1, <1>4, <1>5, <1>6
<1> QED BY <1>2, <1>7 DEF HandoverInv

-----------------------------------------------------------------------------
(* What OpenSSL writes as it leaves a stage: records under the handshake   *)
(* key, and after the server's Finished tickets under the first            *)
(* application key.                                                        *)
LEMMA WritesIs ==
  ASSUME NEW s \in Side, NEW stage \in {"hello", "finish"}
  PROVE  /\ Writes(s, stage) \in Seq(Record)
         /\ stage = "hello" => Len(Writes(s, stage)) = Written(s, "finish")
         /\ stage = "finish" =>
              Len(Writes(s, stage)) = Written(s, "complete") - Written(s, "finish")
         /\ \A i \in 1 .. Len(Writes(s, stage)) :
              IF s = "server" /\ stage = "finish"
                THEN Writes(s, stage)[i] = [kind |-> "nst", type |-> 22, key |-> 1, seq |-> i - 1]
                ELSE Writes(s, stage)[i].key = 0 /\ Writes(s, stage)[i].kind \in {"hs", "fin"}
                     /\ Writes(s, stage)[i].type = 22
<1> USE ExchangeAssumption
<1>1. Handshake("hs") \in Record /\ Handshake("fin") \in Record
  BY DEF Handshake, Record
<1>2. CASE s = "client"
  BY <1>1, <1>2 DEF Writes, Written, Handshake
<1>3. CASE s = "server" /\ stage = "hello"
  <2>1. Writes(s, stage) = [i \in 1 .. Flight |-> Handshake(IF i = Flight THEN "fin" ELSE "hs")]
    BY <1>3 DEF Writes
  <2>2. \A i \in 1 .. Flight : Handshake(IF i = Flight THEN "fin" ELSE "hs") \in Record
    BY <1>1
  <2>3. Writes(s, stage) \in Seq(Record) /\ Len(Writes(s, stage)) = Flight
    BY <2>1, <2>2
  <2>4. \A k \in {"hs", "fin"} :
          Handshake(k).key = 0 /\ Handshake(k).kind = k /\ Handshake(k).type = 22
    BY DEF Handshake
  <2>5. \A i \in 1 .. Flight : \E k \in {"hs", "fin"} : Writes(s, stage)[i] = Handshake(k)
    BY <2>1
  <2>6. Written(s, "finish") = Flight
    BY <1>3 DEF Written
  <2> QED BY <2>3, <2>4, <2>5, <2>6, <1>3
<1>4. CASE s = "server" /\ stage = "finish"
  <2>1. Writes(s, stage) = [i \in 1 .. Tickets |->
          [kind |-> "nst", type |-> 22, key |-> 1, seq |-> i - 1]]
    BY <1>4 DEF Writes
  <2>2. \A i \in 1 .. Tickets :
          [kind |-> "nst", type |-> 22, key |-> 1, seq |-> i - 1] \in Record
    BY DEF Record
  <2>3. Writes(s, stage) \in Seq(Record) /\ Len(Writes(s, stage)) = Tickets
    BY <2>1, <2>2
  <2> QED BY <2>1, <2>3, <1>4 DEF Written
<1> QED BY <1>2, <1>3, <1>4 DEF Side

(* What a step that advances the handshake makes of an exchange.           *)
LEMMA AdvancedIs ==
  ASSUME NEW s \in Side, NEW e \in ExchangeType, e.stage # "complete"
  PROVE  LET a == Advanced(e, s)
         IN  /\ a \in ExchangeType
             /\ a.stage = IF e.stage = "hello" THEN "finish" ELSE "complete"
             /\ a.eaten = IF e.stage = "hello" THEN e.fed ELSE Need(s, e.stage)
             /\ a.made = e.made + U * Len(Writes(s, e.stage))
             /\ a.secret = Logged(e, s)
             /\ a.ssl = e.ssl /\ a.done = e.done /\ a.fed = e.fed /\ a.taken = e.taken
             /\ a.tx_at_done = e.tx_at_done /\ a.rx_at_done = e.rx_at_done
             /\ a.info = e.info /\ a.rekeyed = e.rekeyed
<1>1. Writes(s, e.stage) \in Seq(Record) /\ Len(Writes(s, e.stage)) \in Nat
  BY WritesIs DEF ExchangeType, Stages
<1>2. Need(s, e.stage) \in Nat
  BY ExchangeAssumption DEF Need, U
<1>3. Logged(e, s) \in [Side -> Nat]
  BY DEF Logged, ExchangeType
<1>4. e.made + U * Len(Writes(s, e.stage)) \in Nat
  BY <1>1 DEF ExchangeType, U
<1>5. Advanced(e, s) =
        [e EXCEPT !.stage = IF e.stage = "hello" THEN "finish" ELSE "complete",
                  !.eaten = IF e.stage = "hello" THEN e.fed ELSE Need(s, e.stage),
                  !.made = e.made + U * Len(Writes(s, e.stage)),
                  !.secret = Logged(e, s)]
  BY DEF Advanced
<1> QED BY <1>2, <1>3, <1>4, <1>5 DEF ExchangeType, Stages

-----------------------------------------------------------------------------
(* The state of one side under the invariant.                              *)
LEMMA Here ==
  ASSUME HandoverInv, NEW s \in Side
  PROVE  /\ x[s] \in ExchangeType /\ stream[s] \in Seq(Record) /\ Len(stream[s]) \in Nat
         /\ pc[s] \in Before \union Offered \union {"submit", "closed"} \union Kernels
         /\ wrote[s] \in Nat /\ read[s] \in Nat
         /\ ktx[s] \in Nonce /\ krx[s] \in Nonce
         /\ got[s] \in Seq(Nat) /\ ended[s] \in {"open", "clean", "cut"}
         /\ Pace(s, x[s]) /\ Sealed(s, stream[s])
         /\ Sending(s, x[s], stream[s], pc[s], wrote[s], ktx[s])
         /\ Calling(s, x[s], pc[s], read[s], ktx[s], krx[s])
         /\ read[s] <= wrote[Peer(s)] /\ wrote[Peer(s)] \in Nat
<1>1. Local(s, x[s], stream[s], pc[s], wrote[s], read[s], ktx[s], krx[s])
  BY DEF HandoverInv
<1>2. stream[s] \in Seq(Record)
  BY DEF HandoverInv, Types
<1> QED BY <1>1, <1>2, Sides DEF HandoverInv, Types, Local

(* Before KTLS_DONE and after it, until the kernel has a key.              *)
LEMMA InBefore ==
  ASSUME HandoverInv, NEW s \in Side, pc[s] \in Before
  PROVE  /\ x[s].ssl /\ krx[s] = NoKey /\ Fresh(x[s]) /\ read[s] = x[s].fed
         /\ x[s].stage = "complete" /\ ~x[s].done =>
              pc[s] = "step" /\ x[s].eaten = U * Own(Peer(s))
         /\ ktx[s] = NoKey /\ x[s].made = U * Len(stream[s]) /\ wrote[s] = x[s].taken
         /\ OnlyTickets(s, stream[s])
<1>1. Calling(s, x[s], pc[s], read[s], ktx[s], krx[s])
  BY Here
<1>2. Sending(s, x[s], stream[s], pc[s], wrote[s], ktx[s])
  BY Here
<1>3. /\ x[s].ssl /\ krx[s] = NoKey /\ Fresh(x[s]) /\ read[s] = x[s].fed
      /\ x[s].stage = "complete" /\ ~x[s].done =>
           pc[s] = "step" /\ x[s].eaten = U * Own(Peer(s))
  BY <1>1 DEF Calling, Before
<1> QED BY <1>2, <1>3 DEF Sending, Before

(* A caller whose handshake is done and who has not handed over: nothing   *)
(* was turned, nothing was sent but what OpenSSL wrote, nothing read but   *)
(* what was fed.                                                           *)
LEMMA InOffered ==
  ASSUME HandoverInv, NEW s \in Side, pc[s] \in Offered
  PROVE  /\ x[s].ssl /\ x[s].done /\ krx[s] = NoKey /\ Fresh(x[s]) /\ read[s] = x[s].fed
         /\ ktx[s] = NoKey /\ x[s].made = U * Len(stream[s]) /\ wrote[s] = x[s].taken
         /\ OnlyTickets(s, stream[s])
<1>1. Calling(s, x[s], pc[s], read[s], ktx[s], krx[s])
  BY Here
<1>2. Sending(s, x[s], stream[s], pc[s], wrote[s], ktx[s])
  BY Here
<1>3. /\ x[s].ssl /\ x[s].done /\ krx[s] = NoKey /\ Fresh(x[s]) /\ read[s] = x[s].fed
  BY <1>1 DEF Calling, Offered
<1> QED BY <1>2, <1>3 DEF Sending, Offered

(* A caller that closes leaves all that holds of its side as it is.        *)
LEMMA ClosedKeeps ==
  ASSUME HandoverInv, NEW s \in Side, pc' = [pc EXCEPT ![s] = "closed"],
         UNCHANGED <<x, stream, wrote, read, kernel, got>>,
         \/ UNCHANGED ended
         \/ \E how \in {"open", "clean", "cut"} : ended' = [ended EXCEPT ![s] = how]
  PROVE  HandoverInv'
<1>1. /\ pc'[s] = "closed" /\ Moves(s) /\ ended'[s] \in {"open", "clean", "cut"}
      /\ UNCHANGED <<x, stream, wrote, read, ktx, krx, got>>
  BY Here DEF Moves, HandoverInv, Types, kernel
<1>2. Sending(s, x[s], stream[s], "closed", wrote[s], ktx[s])
  <2>1. Sending(s, x[s], stream[s], pc[s], wrote[s], ktx[s])
    BY Here
  <2> QED BY <2>1 DEF Sending, Before, Offered, Kernels
<1>3. Calling(s, x[s], "closed", read[s], ktx[s], krx[s])
  <2>1. Calling(s, x[s], pc[s], read[s], ktx[s], krx[s])
    BY Here
  <2> QED BY <2>1 DEF Calling, Before, Offered, Kernels
<1>4. Local(s, x[s], stream[s], "closed", wrote[s], read[s], ktx[s], krx[s])
  BY <1>2, <1>3, Here DEF Local
<1>5. wrote[s] <= wrote[s] /\ read[s] <= wrote[Peer(s)]
  BY Here
<1> QED BY <1>1, <1>4, <1>5, Here, OneMoves

(* The steps after which a side is closed.                                 *)
LEMMA CloserKeeps ==
  ASSUME HandoverInv, NEW s \in Side, Eof(s) \/ Die(s) \/ Close(s) \/ Rejects(s)
  PROVE  HandoverInv'
<1>1. CASE Eof(s)
  <2>1. \E how \in {"open", "clean", "cut"} : ended' = [ended EXCEPT ![s] = how]
    BY <1>1, Here DEF Eof
  <2> QED BY <1>1, <2>1, ClosedKeeps DEF Eof, Goto
<1>2. CASE Die(s) \/ Close(s) \/ Rejects(s)
  BY <1>2, ClosedKeeps DEF Die, Close, Rejects, Goto, told
<1> QED BY <1>1, <1>2

(* ktls_exchange_release.                                                  *)
LEMMA ReleaseKeeps ==
  ASSUME HandoverInv, NEW s \in Side, CallRelease(s)
  PROVE  HandoverInv'
<1> DEFINE e == x[s]
<1>1. /\ pc[s] = "live" /\ x' = [x EXCEPT ![s] = [e EXCEPT !.ssl = FALSE]]
      /\ UNCHANGED <<stream, pc, wrote, read, ktx, krx, got, ended>>
  BY DEF CallRelease, Release, kernel, told
<1>2. x'[s] = [e EXCEPT !.ssl = FALSE] /\ Moves(s)
  BY <1>1 DEF Moves, HandoverInv, Types
<1>3. e \in ExchangeType
  BY Here
<1>4. x'[s] \in ExchangeType
  BY <1>2, <1>3 DEF ExchangeType
<1>5. /\ x'[s].done = e.done /\ x'[s].stage = e.stage /\ x'[s].fed = e.fed
      /\ x'[s].eaten = e.eaten /\ x'[s].made = e.made /\ x'[s].taken = e.taken
      /\ x'[s].tx_at_done = e.tx_at_done /\ x'[s].rx_at_done = e.rx_at_done
      /\ x'[s].secret = e.secret /\ x'[s].info = e.info /\ x'[s].rekeyed = e.rekeyed
  BY <1>2, <1>3 DEF ExchangeType
<1>6. Pace(s, x'[s])
  <2>1. Pace(s, e)
    BY Here
  <2> QED BY <1>5, <2>1 DEF Pace
<1>7. Sending(s, x'[s], stream[s], "live", wrote[s], ktx[s])
  <2>1. Sending(s, e, stream[s], "live", wrote[s], ktx[s])
    BY <1>1, Here
  <2> QED BY <1>5, <2>1 DEF Sending
<1>8. Calling(s, x'[s], "live", read[s], ktx[s], krx[s])
  <2>1. Calling(s, e, "live", read[s], ktx[s], krx[s])
    BY <1>1, Here
  <2>2. krx[s] # NoKey
    BY <2>1 DEF Calling, Kernels
  <2> QED BY <1>5, <2>1, <2>2 DEF Calling, Before, Offered, Kernels
<1>9. Local(s, x'[s], stream[s], pc[s], wrote[s], read[s], ktx[s], krx[s])
  BY <1>1, <1>6, <1>7, <1>8, Here DEF Local
<1>10. wrote[s] <= wrote[s] /\ read[s] <= wrote[Peer(s)]
  BY Here
<1> QED BY <1>1, <1>2, <1>4, <1>9, <1>10, Here, OneMoves

(* ktls_exchange_feed, in the handshake and after it.                      *)
LEMMA FeedKeeps ==
  ASSUME HandoverInv, NEW s \in Side, CallFeed(s)
  PROVE  HandoverInv'
<1> DEFINE e == x[s]
           q == IF pc[s] = "read" THEN "step" ELSE "drain"
<1>1. PICK n \in 1 .. Unread(s) :
        /\ x' = [x EXCEPT ![s] = [e EXCEPT !.fed = e.fed + n]]
        /\ read' = [read EXCEPT ![s] = read[s] + n]
  BY DEF CallFeed, Feed
<1>2. /\ pc[s] \in {"read", "drain"} /\ pc' = [pc EXCEPT ![s] = q]
      /\ UNCHANGED <<stream, wrote, ktx, krx, got, ended>>
  BY DEF CallFeed, Feed, Goto, kernel, told
<1>3. n \in Nat /\ read[s] + n \in Nat /\ read[s] + n <= wrote[Peer(s)]
  BY <1>1, Here DEF Unread
<1>4. /\ x'[s] = [e EXCEPT !.fed = e.fed + n] /\ read'[s] = read[s] + n
      /\ pc'[s] = q /\ Moves(s)
  BY <1>1, <1>2 DEF Moves, HandoverInv, Types
<1>5. e \in ExchangeType
  BY Here
<1>6. x'[s] \in ExchangeType
  BY <1>3, <1>4, <1>5 DEF ExchangeType
<1>7. /\ x'[s].ssl = e.ssl
      /\ x'[s].done = e.done /\ x'[s].stage = e.stage /\ x'[s].fed = e.fed + n
      /\ x'[s].eaten = e.eaten /\ x'[s].made = e.made /\ x'[s].taken = e.taken
      /\ x'[s].tx_at_done = e.tx_at_done /\ x'[s].rx_at_done = e.rx_at_done
      /\ x'[s].secret = e.secret /\ x'[s].info = e.info /\ x'[s].rekeyed = e.rekeyed
  BY <1>4, <1>5 DEF ExchangeType
<1>8. /\ e.ssl /\ krx[s] = NoKey /\ Fresh(e) /\ read[s] = e.fed
      /\ ktx[s] = NoKey /\ e.made = U * Len(stream[s]) /\ wrote[s] = e.taken
      /\ OnlyTickets(s, stream[s])
      /\ q = "drain" => e.done
      /\ ~(e.stage = "complete" /\ ~e.done)
  BY <1>2, InBefore, InOffered DEF Before, Offered
<1>9. Pace(s, x'[s])
  <2>1. Pace(s, e)
    BY Here
  <2>2. e.fed \in Nat /\ e.eaten \in Nat /\ U * Own(Peer(s)) \in Nat
    BY <1>5, ExchangeAssumption DEF ExchangeType, U, Own
  <2> QED BY <1>3, <1>7, <2>1, <2>2 DEF Pace
<1>10. Sending(s, x'[s], stream[s], q, wrote[s], ktx[s])
  BY <1>7, <1>8 DEF Sending, Before, Offered, Kernels
<1>11. Calling(s, x'[s], q, read[s] + n, ktx[s], krx[s])
  <2>1. Fresh(x'[s])
    BY <1>7, <1>8 DEF Fresh
  <2>2. e.fed + n <= read[s] + n
    BY <1>3, <1>8, Here
  <2> QED BY <1>7, <1>8, <2>1, <2>2 DEF Calling, Before, Offered, Kernels
<1>12. Local(s, x'[s], stream[s], q, wrote[s], read[s] + n, ktx[s], krx[s])
  BY <1>9, <1>10, <1>11, Here DEF Local
<1>13. q \in Before \union Offered
  BY DEF Before, Offered
<1>14. wrote[s] <= wrote[s]
  BY Here
<1> QED BY <1>2, <1>3, <1>4, <1>6, <1>12, <1>13, <1>14, Here, OneMoves

(* ktls_exchange_take.                                                     *)
LEMMA TakeKeeps ==
  ASSUME HandoverInv, NEW s \in Side, CallTake(s)
  PROVE  HandoverInv'
<1> DEFINE e == x[s]
<1>1. PICK n \in 1 .. OutPending(e) :
        /\ x' = [x EXCEPT ![s] = [e EXCEPT !.taken = e.taken + n]]
        /\ wrote' = [wrote EXCEPT ![s] = wrote[s] + n]
        /\ e.ssl
  BY DEF CallTake, Take
<1>2. /\ pc[s] = "take" /\ pc' = [pc EXCEPT ![s] = "step"]
      /\ UNCHANGED <<stream, read, ktx, krx, got, ended>>
  BY DEF CallTake, Take, Goto, kernel, told
<1>3. e.taken + n \in Nat /\ e.taken + n <= e.made /\ n \in Nat
  BY <1>1, Here DEF OutPending, ExchangeType
<1>4. /\ x'[s] = [e EXCEPT !.taken = e.taken + n] /\ wrote'[s] = wrote[s] + n
      /\ pc'[s] = "step" /\ Moves(s)
  BY <1>1, <1>2, Here DEF Moves, HandoverInv, Types
<1>5. x'[s] \in ExchangeType
  BY <1>3, <1>4, Here DEF ExchangeType
<1>6. Local(s, x'[s], stream[s], "step", wrote[s] + n, read[s], ktx[s], krx[s])
  <2>1. /\ ktx[s] = NoKey /\ e.made = U * Len(stream[s]) /\ wrote[s] = e.taken
        /\ OnlyTickets(s, stream[s])
        /\ e.ssl /\ krx[s] = NoKey /\ Fresh(e) /\ read[s] = e.fed
        /\ ~(e.stage = "complete" /\ ~e.done)
    BY <1>2, InBefore DEF Before
  <2>2. e \in ExchangeType
    BY Here
  <2>3. Pace(s, x'[s])
    BY <1>3, <1>4, <2>1, Here DEF Pace, ExchangeType
  <2>4. Sending(s, x'[s], stream[s], "step", wrote[s] + n, ktx[s])
    <3>1. x'[s].made = e.made /\ x'[s].taken = e.taken + n
      BY <1>4, Here DEF ExchangeType
    <3> QED BY <3>1, <2>1 DEF Sending, Before, Offered, Kernels
  <2>5. Fresh(x'[s])
    BY <1>4, <2>1, Here DEF Fresh, ExchangeType
  <2>6. Calling(s, x'[s], "step", read[s], ktx[s], krx[s])
    <3>1. /\ x'[s].ssl /\ x'[s].fed = e.fed /\ x'[s].fed \in Nat
          /\ x'[s].stage = e.stage /\ x'[s].done = e.done
      BY <1>4, <2>1, <2>2 DEF ExchangeType
    <3> QED BY <3>1, <2>1, <2>5 DEF Calling, Before, Offered, Kernels
  <2> QED BY <2>3, <2>4, <2>6, Here DEF Local
<1> QED BY <1>2, <1>3, <1>4, <1>5, <1>6, Here, OneMoves DEF Before, Offered, Kernels

(* A message's number is a number.                                         *)
LEMMA NumberType ==
  ASSUME NEW p, NEW i \in Int
  PROVE  Number(p, i) \in Nat
<1> DEFINE S == {j \in 1 .. i : stream[p][j].kind = "data"}
<1>1. IsFiniteSet(1 .. i)
  BY FS_Interval
<1>2. IsFiniteSet(S)
  BY <1>1, FS_Subset
<1> QED BY <1>2, FS_CardinalityType DEF Number

(* OpenSSL reading on changes nothing else of an exchange.                 *)
LEMMA EatenType ==
  ASSUME NEW e \in ExchangeType, NEW c \in Nat
  PROVE  LET y == [e EXCEPT !.eaten = c]
         IN  /\ y \in ExchangeType
             /\ y.ssl = e.ssl
             /\ y.done = e.done /\ y.stage = e.stage /\ y.fed = e.fed
             /\ y.eaten = c /\ y.made = e.made /\ y.taken = e.taken
             /\ y.tx_at_done = e.tx_at_done /\ y.rx_at_done = e.rx_at_done
             /\ y.secret = e.secret /\ y.info = e.info /\ y.rekeyed = e.rekeyed
  BY DEF ExchangeType

(* Only how far SSL_read got changes, between the handshake and the rest.  *)
LEMMA EatenKeeps ==
  ASSUME HandoverInv, NEW s \in Side, NEW q \in Offered \union {"closed"},
         NEW c, c \in Nat, pc[s] \in Offered, x[s].eaten <= c, c <= x[s].fed,
         x' = [x EXCEPT ![s] = [x[s] EXCEPT !.eaten = c]],
         pc' = [pc EXCEPT ![s] = q],
         UNCHANGED <<stream, wrote, read, ktx, krx, ended>>,
         got' = [got EXCEPT ![s] = got'[s]], got'[s] \in Seq(Nat)
  PROVE  HandoverInv'
<1> DEFINE e == x[s]
<1>1. e \in ExchangeType
  BY Here
<1>2. x'[s] = [e EXCEPT !.eaten = c] /\ pc'[s] = q /\ Moves(s)
  BY DEF Moves, HandoverInv, Types
<1>3. x'[s] \in ExchangeType
  BY <1>1, <1>2, EatenType
<1>4. /\ x'[s].ssl = e.ssl
      /\ x'[s].done = e.done /\ x'[s].stage = e.stage /\ x'[s].fed = e.fed
      /\ x'[s].eaten = c /\ x'[s].made = e.made /\ x'[s].taken = e.taken
      /\ x'[s].tx_at_done = e.tx_at_done /\ x'[s].rx_at_done = e.rx_at_done
      /\ x'[s].secret = e.secret /\ x'[s].info = e.info /\ x'[s].rekeyed = e.rekeyed
  BY <1>1, <1>2 DEF ExchangeType
<1>5. /\ e.ssl /\ e.done /\ krx[s] = NoKey /\ Fresh(e) /\ read[s] = e.fed
      /\ ktx[s] = NoKey /\ e.made = U * Len(stream[s]) /\ wrote[s] = e.taken
      /\ OnlyTickets(s, stream[s])
  BY InOffered
<1>6. Pace(s, x'[s])
  <2>1. Pace(s, e)
    BY Here
  <2>2. e.fed \in Nat /\ e.eaten \in Nat /\ U * Own(Peer(s)) \in Nat
    BY <1>1, ExchangeAssumption DEF ExchangeType, U, Own
  <2> QED BY <1>4, <1>5, <2>1, <2>2 DEF Pace
<1>7. Sending(s, x'[s], stream[s], q, wrote[s], ktx[s])
  BY <1>4, <1>5 DEF Sending, Before, Offered, Kernels
<1>8. Calling(s, x'[s], q, read[s], ktx[s], krx[s])
  <2>1. Fresh(x'[s])
    BY <1>4, <1>5 DEF Fresh
  <2>2. e.fed <= read[s]
    BY <1>5, Here
  <2> QED BY <1>4, <1>5, <2>1, <2>2 DEF Calling, Before, Offered, Kernels
<1>9. Local(s, x'[s], stream[s], q, wrote[s], read[s], ktx[s], krx[s])
  BY <1>6, <1>7, <1>8, Here DEF Local
<1>10. wrote[s] <= wrote[s] /\ read[s] <= wrote[Peer(s)]
  BY Here
<1>11. ended'[s] \in {"open", "clean", "cut"}
  BY Here
<1> QED BY <1>2, <1>3, <1>9, <1>10, <1>11, Here, OneMoves

(* ktls_exchange_backlog.                                                  *)
LEMMA BacklogKeeps ==
  ASSUME HandoverInv, NEW s \in Side, CallBacklog(s)
  PROVE  HandoverInv'
<1>1. /\ pc[s] = "drain" /\ pc[s] \in Offered
      /\ UNCHANGED <<stream, wrote, read, ktx, krx, ended>>
  BY DEF CallBacklog, BacklogReads, BacklogEmpty, Offered, kernel
<1>2. x[s] \in ExchangeType /\ x[s].fed \in Nat /\ x[s].eaten \in Nat /\ x[s].eaten <= x[s].fed
  BY Here DEF ExchangeType, Pace
<1>3. ASSUME NEW i \in DataWaiting(s), BacklogReads(s, i),
             got' = [got EXCEPT ![s] = Append(@, Number(Peer(s), i))],
             Goto(s, IF "drains" \in Habits THEN "drain" ELSE "offload")
      PROVE  HandoverInv'
  <2>1. i \in Nat /\ i \in x[s].eaten \div U + 1 .. x[s].fed \div U
    BY <1>2 DEF DataWaiting, U
  <2>2. i * U \in Nat /\ x[s].eaten <= i * U /\ i * U <= x[s].fed
    BY <1>2, <2>1 DEF U
  <2>3. PICK q \in Offered : pc' = [pc EXCEPT ![s] = q]
    BY <1>3 DEF Goto, Offered
  <2>4. x' = [x EXCEPT ![s] = [x[s] EXCEPT !.eaten = i * U]]
    BY <1>3 DEF BacklogReads
  <2>5. Append(got[s], Number(Peer(s), i)) \in Seq(Nat)
    BY <2>1, NumberType, Here
  <2>6. got'[s] = Append(got[s], Number(Peer(s), i))
    BY <1>3 DEF HandoverInv, Types
  <2> QED BY <1>1, <1>3, <2>2, <2>3, <2>4, <2>5, <2>6, EatenKeeps
<1>4. ASSUME BacklogEmpty(s), Goto(s, "offload"), UNCHANGED got
      PROVE  HandoverInv'
  <2>1. x' = [x EXCEPT ![s] = [x[s] EXCEPT !.eaten = x[s].fed]]
    BY <1>4 DEF BacklogEmpty, Pulled
  <2>2. got' = [got EXCEPT ![s] = got'[s]] /\ got'[s] \in Seq(Nat)
    BY <1>4, Here DEF HandoverInv, Types
  <2>3. pc' = [pc EXCEPT ![s] = "offload"] /\ "offload" \in Offered
    BY <1>4 DEF Goto, Offered
  <2>4. x[s].fed <= x[s].fed
    BY <1>2
  <2> QED BY <1>1, <1>2, <2>1, <2>2, <2>3, <2>4, EatenKeeps
<1> QED BY <1>3, <1>4 DEF CallBacklog

(* Leaving a stage, OpenSSL appends records that carry on the stream.      *)
LEMMA WritesSealed ==
  ASSUME NEW s \in Side, NEW stage \in {"hello", "finish"}, NEW st \in Seq(Record),
         Sealed(s, st), Len(st) = Written(s, stage)
  PROVE  LET new == st \o Writes(s, stage)
             next == IF stage = "hello" THEN "finish" ELSE "complete"
         IN  /\ new \in Seq(Record) /\ Len(new) = Len(st) + Len(Writes(s, stage))
             /\ Len(new) = Written(s, next) /\ Len(Writes(s, stage)) \in Nat
             /\ Sealed(s, new) /\ OnlyTickets(s, new)
<1> DEFINE ws == Writes(s, stage)
           new == st \o ws
           next == IF stage = "hello" THEN "finish" ELSE "complete"
<1> USE ExchangeAssumption, HandoverAssumption
<1>1. ws \in Seq(Record) /\ Len(ws) \in Nat /\ Len(st) \in Nat
  BY WritesIs
<1>2. new \in Seq(Record) /\ Len(new) = Len(st) + Len(ws)
  BY <1>1
<1>3. Len(new) = Written(s, next)
  <2>1. Len(ws) = Written(s, next) - Written(s, stage)
    <3>1. CASE stage = "hello"
      <4>1. Len(ws) = Written(s, "finish") /\ Written(s, stage) = 0
        BY <3>1, WritesIs DEF Written
      <4> QED BY <1>1, <3>1, <4>1
    <3>2. CASE stage = "finish"
      BY <3>2, WritesIs
    <3> QED BY <3>1, <3>2
  <2>2. Written(s, next) \in Int
    BY DEF Written
  <2> QED BY <1>1, <1>2, <2>1, <2>2
<1>4. \A i \in 1 .. Len(new) : new[i] = IF i <= Len(st) THEN st[i] ELSE ws[i - Len(st)]
  BY <1>1, <1>2
<1>5. CASE ~(s = "server" /\ stage = "finish")
  <2>1. Len(new) <= Own(s) /\ Own(s) \in Nat
    BY <1>3, <1>5 DEF Written, Own, Side
  <2>2. \A i \in 1 .. Len(ws) : ws[i].key = 0 /\ ws[i].kind \in {"hs", "fin"}
    BY <1>5, WritesIs
  <2>3. \A i \in 1 .. Len(st) : st[i].key = 0 /\ st[i].kind \in {"hs", "fin"}
    BY <1>1, <1>2, <2>1 DEF Sealed
  <2>4. \A i \in 1 .. Len(new) : new[i].key = 0 /\ new[i].kind \in {"hs", "fin"}
    BY <1>1, <1>2, <1>4, <2>2, <2>3
  <2>5. \A i \in 1 .. Len(new) : ~(i > Own(s))
    BY <1>1, <1>2, <2>1
  <2>6. Sealed(s, new)
    BY <2>4, <2>5 DEF Sealed
  <2>7. OnlyTickets(s, new)
    BY <1>1, <1>2, <2>1 DEF OnlyTickets
  <2> QED BY <1>1, <1>2, <1>3, <2>6, <2>7
<1>6. CASE s = "server" /\ stage = "finish"
  <2>1. Len(st) = Flight /\ Own(s) = Flight
    BY <1>6 DEF Written, Own
  <2>2. \A i \in 1 .. Len(ws) : ws[i] = [kind |-> "nst", type |-> 22, key |-> 1, seq |-> i - 1]
    <3>1. ws = [i \in 1 .. Tickets |->
                  [kind |-> "nst", type |-> 22, key |-> 1, seq |-> i - 1]]
      BY <1>6 DEF Writes
    <3>2. Len(ws) = Tickets
      BY <3>1
    <3> QED BY <3>1, <3>2
  <2>3. \A i \in 1 .. Len(ws) : ws[i].key = 1 /\ ws[i].kind = "nst" /\ ws[i].seq = i - 1
    <3> TAKE i \in 1 .. Len(ws)
    <3> HIDE DEF ws
    <3>1. ws[i] = [kind |-> "nst", type |-> 22, key |-> 1, seq |-> i - 1]
      BY <2>2
    <3> QED BY <3>1
  <2>4. \A i \in Flight + 1 .. Len(new) :
          new[i].key = 1 /\ new[i].kind = "nst" /\ new[i].seq = i - Flight - 1
    <3> TAKE i \in Flight + 1 .. Len(new)
    <3>1. i - Flight \in 1 .. Len(ws) /\ new[i] = ws[i - Flight]
      BY <1>1, <1>2, <1>4, <2>1
    <3> QED BY <2>3, <3>1
  <2>5. \A i \in 1 .. Flight : new[i].key = 0 /\ new[i].kind \in {"hs", "fin"}
    BY <1>1, <1>2, <1>4, <2>1 DEF Sealed
  <2>6. OnlyTickets(s, new)
    BY <2>1, <2>4 DEF OnlyTickets
  <2>7. Sealed(s, new)
    <3> SUFFICES ASSUME NEW i \in 1 .. Len(new), i > Flight
                 PROVE  /\ new[i].key >= 1 /\ new[i].kind \in {"nst", "data", "ku", "close"}
                        /\ new[i].key = NonceAfter(new, i - 1).key
                        /\ new[i].seq = NonceAfter(new, i - 1).seq
                        /\ new[i].key <= MaxKey
                        /\ new[i].key = 1 => new[i].seq = i - Flight - 1
      BY <1>1, <1>2, <2>1, <2>5 DEF Sealed
    <3>1. new[i].key = 1 /\ new[i].kind = "nst" /\ new[i].seq = i - Flight - 1
      BY <1>1, <1>2, <2>4
    <3>2. CASE i = Flight + 1
      <4>1. i - 1 = Flight /\ new[i - 1].key = 0
        BY <2>5, <3>2
      <4> QED BY <3>1, <3>2, <4>1 DEF NonceAfter
    <3>3. CASE i > Flight + 1
      <4>1. /\ i - 1 \in Flight + 1 .. Len(new) /\ i - 1 # 0
            /\ new[i - 1].key = 1 /\ new[i - 1].kind = "nst"
            /\ new[i - 1].seq = i - Flight - 2
        <5>1. i - 1 \in Flight + 1 .. Len(new) /\ i - 1 # 0
          BY <1>1, <1>2, <3>3
        <5>2. new[i - 1].key = 1 /\ new[i - 1].kind = "nst" /\ new[i - 1].seq = (i - 1) - Flight - 1
          BY <2>4, <5>1
        <5> QED BY <5>1, <5>2
      <4>2. NonceAfter(new, i - 1) = [key |-> 1, seq |-> i - Flight - 1]
        BY <4>1 DEF NonceAfter
      <4> QED BY <3>1, <4>2
    <3> QED BY <3>2, <3>3, <1>1, <1>2
  <2> QED BY <1>1, <1>2, <1>3, <2>6, <2>7
<1> QED BY <1>5, <1>6

(* What every step of the handshake loop has in common.                    *)
LEMMA StepKeeps ==
  ASSUME HandoverInv, NEW s \in Side, pc[s] = "step",
         NEW q \in {"step", "take", "read", "drain", "closed"},
         x' = [x EXCEPT ![s] = x'[s]], stream' = [stream EXCEPT ![s] = stream'[s]],
         pc' = [pc EXCEPT ![s] = q], UNCHANGED <<wrote, read, ktx, krx, got, ended>>,
         x'[s] \in ExchangeType, stream'[s] \in Seq(Record),
         Sealed(s, stream'[s]), OnlyTickets(s, stream'[s]),
         Pace(s, x'[s]), Fresh(x'[s]), x'[s].made = U * Len(stream'[s]),
         x'[s].ssl = x[s].ssl, x'[s].taken = x[s].taken, x'[s].fed = x[s].fed,
         q = "drain" => x'[s].done,
         x'[s].stage = "complete" /\ ~x'[s].done =>
           q \in {"step", "closed"} /\ (q = "step" => x'[s].eaten = U * Own(Peer(s)))
  PROVE  HandoverInv'
<1>1. pc'[s] = q /\ Moves(s)
  BY DEF Moves, HandoverInv, Types
<1>2. /\ x[s].ssl /\ krx[s] = NoKey /\ Fresh(x[s]) /\ read[s] = x[s].fed
      /\ ktx[s] = NoKey /\ wrote[s] = x[s].taken
  BY InBefore DEF Before
<1>3. Sending(s, x'[s], stream'[s], q, wrote[s], ktx[s])
  BY <1>2 DEF Sending, Before, Offered, Kernels
<1>4. Calling(s, x'[s], q, read[s], ktx[s], krx[s])
  <2>1. x'[s].fed <= read[s]
    BY <1>2, Here
  <2> QED BY <1>2, <2>1 DEF Calling, Before, Offered, Kernels
<1>5. Local(s, x'[s], stream'[s], q, wrote[s], read[s], ktx[s], krx[s])
  BY <1>3, <1>4 DEF Local
<1>6. q \in Before \union Offered \union {"submit", "closed"} \union Kernels
  BY DEF Before, Offered
<1>7. /\ wrote[s] <= wrote[s] /\ read[s] <= wrote[Peer(s)]
      /\ wrote'[s] = wrote[s] /\ read'[s] = read[s] /\ ktx'[s] = ktx[s] /\ krx'[s] = krx[s]
      /\ got'[s] = got[s] /\ ended'[s] = ended[s]
  BY Here
<1> QED BY <1>1, <1>5, <1>6, <1>7, Here, OneMoves

(* A step that waits for more, or is refused, has emptied the in-BIO and   *)
(* no more.                                                                *)
LEMMA PullsKeep ==
  ASSUME HandoverInv, NEW s \in Side, pc[s] = "step", ~x[s].done,
         NEW q \in {"take", "read", "closed"}, q # "closed" => x[s].stage # "complete",
         x' = [x EXCEPT ![s] = Pulled(x[s])], pc' = [pc EXCEPT ![s] = q],
         UNCHANGED <<stream, wrote, read, ktx, krx, got, ended>>
  PROVE  HandoverInv'
<1> DEFINE e == x[s]
           y == [e EXCEPT !.eaten = e.fed]
<1>1. e \in ExchangeType /\ e.fed \in Nat /\ e.eaten \in Nat
  BY Here DEF ExchangeType
<1>2. y \in ExchangeType
  BY <1>1, EatenType
<1>3. /\ y.ssl = e.ssl /\ y.done = e.done /\ y.stage = e.stage /\ y.fed = e.fed
      /\ y.eaten = e.fed /\ y.made = e.made /\ y.taken = e.taken
      /\ y.tx_at_done = e.tx_at_done /\ y.rx_at_done = e.rx_at_done
      /\ y.secret = e.secret /\ y.info = e.info /\ y.rekeyed = e.rekeyed
  BY <1>1 DEF ExchangeType
<1> HIDE DEF y
<1>4. x'[s] = y /\ x' = [x EXCEPT ![s] = x'[s]] /\ stream' = [stream EXCEPT ![s] = stream'[s]]
  BY DEF HandoverInv, Types, Pulled, y
<1>5. Fresh(e) /\ e.made = U * Len(stream[s]) /\ OnlyTickets(s, stream[s])
  BY InBefore DEF Before
<1>6. Pace(s, y)
  <2>1. Pace(s, e)
    BY Here
  <2> QED BY <1>1, <1>3, <2>1 DEF Pace
<1>7. Fresh(y)
  BY <1>3, <1>5 DEF Fresh
<1>8. stream'[s] = stream[s] /\ Sealed(s, stream[s]) /\ stream[s] \in Seq(Record)
  BY Here
<1> QED BY <1>2, <1>3, <1>4, <1>5, <1>6, <1>7, <1>8, StepKeeps

(* A step that advances the handshake: the flight it writes continues the  *)
(* stream.                                                                 *)
LEMMA AdvanceKeeps ==
  ASSUME HandoverInv, NEW s \in Side, pc[s] = "step", StepAdvances(s),
         NEW q \in {"take", "read"}, pc' = [pc EXCEPT ![s] = q],
         UNCHANGED <<wrote, read, ktx, krx, got, ended>>
  PROVE  HandoverInv'
<1> DEFINE e == x[s]
           y == Advanced(e, s)
           new == stream[s] \o Writes(s, "hello")
<1>1. /\ e \in ExchangeType /\ e.ssl /\ ~e.done /\ e.stage = "hello"
      /\ x' = [x EXCEPT ![s] = y] /\ stream' = [stream EXCEPT ![s] = new]
  BY Here DEF StepAdvances
<1>2. /\ Fresh(e) /\ e.made = U * Len(stream[s]) /\ OnlyTickets(s, stream[s])
  BY InBefore DEF Before
<1>3. /\ y \in ExchangeType /\ y.stage = "finish" /\ y.eaten = e.fed
      /\ y.made = e.made + U * Len(Writes(s, "hello"))
      /\ y.ssl = e.ssl /\ y.done = e.done /\ y.fed = e.fed /\ y.taken = e.taken
      /\ y.rekeyed = e.rekeyed
  <2>1. e.stage # "complete"
    BY <1>1
  <2>2. /\ y \in ExchangeType
        /\ y.stage = IF e.stage = "hello" THEN "finish" ELSE "complete"
        /\ y.eaten = IF e.stage = "hello" THEN e.fed ELSE Need(s, e.stage)
        /\ y.made = e.made + U * Len(Writes(s, e.stage))
        /\ y.ssl = e.ssl /\ y.done = e.done /\ y.fed = e.fed /\ y.taken = e.taken
        /\ y.rekeyed = e.rekeyed
    BY <1>1, <2>1, AdvancedIs
  <2> HIDE DEF y
  <2> QED BY <1>1, <2>2
<1> HIDE DEF y
<1>4. /\ stream[s] \in Seq(Record) /\ Sealed(s, stream[s]) /\ Pace(s, e)
      /\ Len(stream[s]) \in Nat /\ e.made \in Nat /\ e.taken \in Nat /\ e.fed \in Nat
  BY Here DEF ExchangeType
<1>5. Len(stream[s]) = Written(s, "hello")
  BY <1>1, <1>2, <1>4 DEF Pace, U, Written
<1>6. /\ new \in Seq(Record) /\ Len(new) = Len(stream[s]) + Len(Writes(s, "hello"))
      /\ Len(Writes(s, "hello")) \in Nat
      /\ Len(new) = Written(s, "finish") /\ Sealed(s, new) /\ OnlyTickets(s, new)
  BY <1>4, <1>5, WritesSealed
<1> HIDE DEF new
<1>7. y.made = U * Len(new) /\ e.made <= y.made
  <2> DEFINE a == Len(stream[s])
             b == Len(Writes(s, "hello"))
             c == Len(new)
  <2>1. a \in Nat /\ b \in Nat /\ c = a + b
    BY <1>4, <1>6
  <2>2. e.made = U * a /\ y.made = e.made + U * b
    BY <1>2, <1>3
  <2> HIDE DEF a, b, c
  <2>3. y.made = U * c /\ e.made <= y.made
    BY <2>1, <2>2 DEF U
  <2> QED BY <2>3 DEF c
<1>8. Pace(s, y)
  <2>1. e.taken <= e.made /\ y.made \in Nat /\ y.eaten <= y.fed
    BY <1>3, <1>4 DEF Pace, ExchangeType
  <2>2. y.taken <= y.made
    BY <1>3, <1>4, <1>7, <2>1
  <2> QED BY <1>1, <1>3, <1>6, <1>7, <2>1, <2>2 DEF Pace
<1>9. Fresh(y)
  BY <1>1, <1>2, <1>3 DEF Fresh
<1>10. /\ x'[s] = y /\ stream'[s] = new
       /\ x' = [x EXCEPT ![s] = x'[s]] /\ stream' = [stream EXCEPT ![s] = stream'[s]]
  BY <1>1 DEF HandoverInv, Types
<1> QED BY <1>3, <1>6, <1>7, <1>8, <1>9, <1>10, StepKeeps

(* A server that has read the client's Finished has sent all of its        *)
(* flight: the client answered it.                                         *)
LEMMA FlightWasTaken ==
  ASSUME HandoverInv, pc["server"] = "step", x["server"].stage = "finish",
         x["server"].fed >= U * 2
  PROVE  x["server"].taken = U * Flight
<1> DEFINE c == x["client"]
           v == x["server"]
<1> USE ExchangeAssumption
<1>1. "client" \in Side /\ "server" \in Side /\ Peer("client") = "server" /\ Peer("server") = "client"
  BY DEF Side, Peer
<1>2. /\ v \in ExchangeType /\ v.fed <= read["server"] /\ read["server"] <= wrote["client"]
      /\ read["server"] \in Nat /\ wrote["client"] \in Nat /\ v.fed \in Nat
  <2>1. Calling("server", v, pc["server"], read["server"], ktx["server"], krx["server"])
    BY <1>1, Here
  <2> QED BY <1>1, <2>1, Here DEF Calling, ExchangeType
<1>3. /\ c \in ExchangeType /\ c.fed <= read["client"] /\ read["client"] <= wrote["server"]
      /\ read["client"] \in Nat /\ wrote["server"] \in Nat /\ c.fed \in Nat
  <2>1. Calling("client", c, pc["client"], read["client"], ktx["client"], krx["client"])
    BY <1>1, Here
  <2> QED BY <1>1, <2>1, Here DEF Calling, ExchangeType
<1>4. c.stage = "complete"
  <2>1. Pace("client", c) /\ c.made \in Nat /\ c.taken \in Nat /\ c.stage \in Stages
    BY <1>1, <1>3, Here DEF ExchangeType
  <2>2. /\ ktx["client"] = NoKey => wrote["client"] = c.taken
        /\ ktx["client"] # NoKey => c.done
    <3>1. Sending("client", c, stream["client"], pc["client"], wrote["client"], ktx["client"])
      BY <1>1, Here
    <3> QED BY <3>1 DEF Sending
  <2>3. CASE ktx["client"] = NoKey
    <3>1. c.made >= U * 2 /\ c.made = U * Written("client", c.stage)
      BY <1>2, <2>1, <2>2, <2>3 DEF Pace, U
    <3> QED BY <2>1, <3>1 DEF Written, U, Stages
  <2>4. CASE ktx["client"] # NoKey
    BY <2>1, <2>2, <2>4 DEF Pace
  <2> QED BY <2>3, <2>4
<1>5. c.fed >= U * Flight
  <2>1. Pace("client", c)
    BY <1>1, Here
  <2> QED BY <1>1, <1>4, <2>1 DEF Pace, Own
<1>6. wrote["server"] = v.taken /\ v.taken <= U * Flight /\ v.taken \in Nat
  <2>1. Pace("server", v)
    BY <1>1, Here
  <2>2. wrote["server"] = v.taken
    BY <1>1, InBefore DEF Before
  <2> QED BY <1>2, <2>1, <2>2 DEF Pace, Written, ExchangeType
<1> QED BY <1>3, <1>5, <1>6 DEF U

(* The exchange whose handshake has just ended, its keys not yet derived.  *)
LEMMA EndedIs ==
  ASSUME HandoverInv, NEW s \in Side, pc[s] = "step", ~x[s].done, Complete(x[s], s)
  PROVE  LET y == Ended(x[s], s)
             new == stream[s] \o LastWrites(x[s], s)
         IN  /\ y \in ExchangeType /\ y.ssl /\ ~y.done /\ y.stage = "complete"
             /\ y.fed = x[s].fed /\ y.taken = x[s].taken
             /\ y.eaten = U * Own(Peer(s)) /\ y.eaten <= y.fed
             /\ y.made = U * Written(s, "complete") /\ y.taken <= y.made
             /\ s = "server" => y.taken = U * Own(s)
             /\ \A w \in Side : y.secret[w] = 1 /\ ~y.rekeyed[w]
             /\ new \in Seq(Record) /\ y.made = U * Len(new)
             /\ Sealed(s, new) /\ OnlyTickets(s, new)
<1> DEFINE e == x[s]
           y == Ended(e, s)
           new == stream[s] \o LastWrites(e, s)
<1> USE ExchangeAssumption
<1>1. /\ e \in ExchangeType /\ e.ssl /\ Fresh(e) /\ e.made = U * Len(stream[s])
      /\ OnlyTickets(s, stream[s])
      /\ e.stage = "complete" => e.eaten = U * Own(Peer(s))
  BY Here, InBefore DEF Before
<1>2. /\ stream[s] \in Seq(Record) /\ Sealed(s, stream[s]) /\ Pace(s, e)
      /\ Len(stream[s]) \in Nat /\ e.made \in Nat /\ e.taken \in Nat /\ e.fed \in Nat
  BY <1>1, Here DEF ExchangeType
<1>3. CASE e.stage = "complete"
  <2>1. y = e /\ LastWrites(e, s) = <<>>
    BY <1>3 DEF Ended, LastWrites
  <2>2. new = stream[s]
    BY <1>2, <2>1
  <2>3. /\ e.eaten <= e.fed /\ e.made = U * Written(s, "complete") /\ e.taken <= e.made
        /\ s = "server" => e.taken = U * Own(s)
    BY <1>2, <1>3 DEF Pace
  <2>4. \A w \in Side : e.secret[w] = 1 /\ ~e.rekeyed[w]
    BY <1>1, <1>3 DEF Fresh
  <2> QED BY <1>1, <1>2, <1>3, <2>1, <2>2, <2>3, <2>4
<1>4. CASE e.stage = "finish" /\ e.fed >= Need(s, "finish")
  <2>1. y = Advanced(e, s) /\ LastWrites(e, s) = Writes(s, "finish")
    BY <1>4 DEF Ended, LastWrites
  <2>2. /\ y \in ExchangeType /\ y.stage = "complete" /\ y.eaten = Need(s, "finish")
        /\ y.made = e.made + U * Len(Writes(s, "finish"))
        /\ y.secret = Logged(e, s)
        /\ y.ssl = e.ssl /\ y.done = e.done /\ y.fed = e.fed /\ y.taken = e.taken
        /\ y.rekeyed = e.rekeyed
    <3>1. e.stage # "complete"
      BY <1>4
    <3>2. /\ y \in ExchangeType
          /\ y.stage = IF e.stage = "hello" THEN "finish" ELSE "complete"
          /\ y.eaten = IF e.stage = "hello" THEN e.fed ELSE Need(s, e.stage)
          /\ y.made = e.made + U * Len(Writes(s, e.stage))
          /\ y.secret = Logged(e, s)
          /\ y.ssl = e.ssl /\ y.done = e.done /\ y.fed = e.fed /\ y.taken = e.taken
          /\ y.rekeyed = e.rekeyed
      <4>1. e \in ExchangeType
        BY <1>1
      <4> HIDE DEF e, y
      <4> QED BY <2>1, <3>1, <4>1, AdvancedIs
    <3> HIDE DEF y
    <3> QED BY <1>4, <3>2
  <2> HIDE DEF y
  <2>3. Need(s, "finish") = U * Own(Peer(s)) /\ U * Own(Peer(s)) \in Nat
    BY DEF Need, Own, Peer, U, Side
  <2>4. Len(stream[s]) = Written(s, "finish")
    BY <1>1, <1>2, <1>4 DEF Pace, U, Written
  <2>5. /\ new \in Seq(Record) /\ Len(new) = Len(stream[s]) + Len(Writes(s, "finish"))
        /\ Len(Writes(s, "finish")) \in Nat
        /\ Len(new) = Written(s, "complete") /\ Sealed(s, new) /\ OnlyTickets(s, new)
    <3>1. new = stream[s] \o Writes(s, "finish")
      BY <2>1
    <3> HIDE DEF new
    <3> QED BY <1>2, <2>4, <3>1, WritesSealed
  <2> HIDE DEF new
  <2>6. y.made = U * Len(new) /\ e.made <= y.made
    <3> DEFINE a == Len(stream[s])
               b == Len(Writes(s, "finish"))
               c == Len(new)
    <3>1. a \in Nat /\ b \in Nat /\ c = a + b
      BY <1>2, <2>5
    <3>2. e.made = U * a /\ y.made = e.made + U * b
      BY <1>1, <2>2
    <3> HIDE DEF a, b, c
    <3>3. y.made = U * c /\ e.made <= y.made
      BY <3>1, <3>2 DEF U
    <3> QED BY <3>3 DEF c
  <2>7. y.taken <= y.made
    <3>1. e.taken <= e.made /\ y.made \in Nat
      BY <1>2, <2>2 DEF Pace, ExchangeType
    <3> QED BY <1>2, <2>2, <2>6, <3>1
  <2>8. s = "server" => y.taken = U * Own(s)
    <3> SUFFICES ASSUME s = "server"
                 PROVE  e.taken = U * Flight
      BY <2>2 DEF Own
    <3>1. e.fed >= U * 2
      BY <1>4 DEF Need, U
    <3> QED BY <1>4, <3>1, FlightWasTaken
  <2>9. \A w \in Side : y.secret[w] = 1 /\ ~y.rekeyed[w]
    <3>1. Logged(e, s) = [w \in Side |-> 1]
      BY <1>4 DEF Logged
    <3> QED BY <1>1, <2>2, <3>1 DEF Fresh
  <2>10. y.eaten = U * Own(Peer(s)) /\ y.eaten <= y.fed
    BY <1>2, <1>4, <2>2, <2>3
  <2>11. y.made = U * Written(s, "complete")
    BY <2>5, <2>6
  <2>12. y.ssl /\ ~y.done
    BY <1>1, <2>2
  <2>13. y \in ExchangeType /\ y.stage = "complete" /\ y.fed = e.fed /\ y.taken = e.taken
    BY <2>2
  <2> QED BY <2>5, <2>6, <2>7, <2>8, <2>9, <2>10, <2>11, <2>12, <2>13 DEF y, new
<1> QED BY <1>3, <1>4 DEF Complete

(* Which fields ktls_fill and the end of ktls_exchange_step set.           *)
LEMMA FillIs ==
  ASSUME NEW e \in ExchangeType, NEW w \in Side
  PROVE  LET f == Fill(e, w)
         IN  /\ f \in ExchangeType
             /\ f.info[w] = e.secret[w] /\ \A v \in Side : v # w => f.info[v] = e.info[v]
             /\ f.ssl = e.ssl /\ f.done = e.done /\ f.stage = e.stage
             /\ f.fed = e.fed /\ f.eaten = e.eaten /\ f.made = e.made /\ f.taken = e.taken
             /\ f.tx_at_done = e.tx_at_done /\ f.rx_at_done = e.rx_at_done
             /\ f.secret = e.secret /\ f.rekeyed = e.rekeyed
<1> DEFINE j == [e.info EXCEPT ![w] = e.secret[w]]
<1>1. j \in [Side -> Nat] /\ j[w] = e.secret[w] /\ \A v \in Side : v # w => j[v] = e.info[v]
  BY DEF ExchangeType
<1>2. Fill(e, w) = [e EXCEPT !.info = j]
  BY DEF Fill, ExchangeType
<1> HIDE DEF j
<1> QED BY <1>1, <1>2 DEF ExchangeType

(* What KTLS_DONE writes down: both directions begin where the handshake's *)
(* own records end.                                                        *)
LEMMA FinishedIs ==
  ASSUME NEW s \in Side, NEW y \in ExchangeType, y.ssl,
         s = "server" => y.taken = U * Own(s), y.made = U * Written(s, "complete")
  PROVE  LET z == Finished(DeriveBoth(y, s), s)
         IN  /\ z \in ExchangeType /\ z.ssl /\ z.done /\ z.stage = y.stage
             /\ z.fed = y.fed /\ z.eaten = y.eaten /\ z.made = y.made /\ z.taken = y.taken
             /\ z.tx_at_done = U * Own(s) /\ z.rx_at_done = y.eaten
             /\ z.secret = y.secret /\ z.rekeyed = y.rekeyed
             /\ \A w \in Side : z.info[w] = y.secret[w]
<1> DEFINE f == Fill(y, s)
           g == Fill(f, Peer(s))
           z == Finished(g, s)
<1>1. Peer(s) \in Side /\ Peer(s) # s /\ Side = {s, Peer(s)}
  BY Sides
<1>2. /\ f \in ExchangeType /\ f.info[s] = y.secret[s]
      /\ f.ssl = y.ssl /\ f.done = y.done /\ f.stage = y.stage
      /\ f.fed = y.fed /\ f.eaten = y.eaten /\ f.made = y.made /\ f.taken = y.taken
      /\ f.secret = y.secret /\ f.rekeyed = y.rekeyed
  BY FillIs
<1> HIDE DEF f
<1>3. /\ g \in ExchangeType /\ \A w \in Side : g.info[w] = y.secret[w]
      /\ g.ssl = y.ssl /\ g.done = y.done /\ g.stage = y.stage
      /\ g.fed = y.fed /\ g.eaten = y.eaten /\ g.made = y.made /\ g.taken = y.taken
      /\ g.secret = y.secret /\ g.rekeyed = y.rekeyed
  <2>1. /\ g \in ExchangeType /\ g.info[Peer(s)] = f.secret[Peer(s)]
        /\ \A v \in Side : v # Peer(s) => g.info[v] = f.info[v]
        /\ g.ssl = f.ssl /\ g.done = f.done /\ g.stage = f.stage
        /\ g.fed = f.fed /\ g.eaten = f.eaten /\ g.made = f.made /\ g.taken = f.taken
        /\ g.secret = f.secret /\ g.rekeyed = f.rekeyed
    BY <1>1, <1>2, FillIs
  <2> HIDE DEF g
  <2> QED BY <1>1, <1>2, <2>1
<1> HIDE DEF g
<1>4. TxAtDone(g, s) = U * Own(s)
  <2>1. g.ssl /\ g.made \in Nat /\ g.taken \in Nat /\ g.taken = y.taken /\ g.made = y.made
    BY <1>3 DEF ExchangeType
  <2>2. CASE s = "client"
    <3>1. TxAtDone(g, s) = g.taken + (g.made - g.taken)
      BY <2>1, <2>2 DEF TxAtDone, OutPending
    <3>2. y.made = U * Own(s)
      BY <2>2 DEF Written, Own
    <3> QED BY <2>1, <3>1, <3>2
  <2>3. CASE s = "server"
    BY <2>1, <2>3 DEF TxAtDone
  <2> QED BY <2>2, <2>3 DEF Side
<1>5. RxAtDone(g) = y.eaten
  <2>1. g.ssl /\ g.fed \in Nat /\ g.eaten \in Nat /\ g.eaten = y.eaten
    BY <1>3 DEF ExchangeType
  <2> QED BY <2>1 DEF RxAtDone, InPending
<1>6. U * Own(s) \in Nat /\ y.eaten \in Nat
  BY ExchangeAssumption DEF U, Own, ExchangeType
<1>7. z = [g EXCEPT !.tx_at_done = U * Own(s), !.rx_at_done = y.eaten, !.done = TRUE]
  BY <1>4, <1>5 DEF Finished
<1>8. /\ z \in ExchangeType /\ z.done /\ z.stage = g.stage /\ z.ssl = g.ssl
      /\ z.fed = g.fed /\ z.eaten = g.eaten /\ z.made = g.made /\ z.taken = g.taken
      /\ z.tx_at_done = U * Own(s) /\ z.rx_at_done = y.eaten
      /\ z.secret = g.secret /\ z.rekeyed = g.rekeyed /\ z.info = g.info
  <2> HIDE DEF z
  <2> QED BY <1>3, <1>6, <1>7 DEF ExchangeType
<1>9. Finished(DeriveBoth(y, s), s) = z
  BY DEF DeriveBoth, f, g
<1> HIDE DEF z
<1> QED BY <1>3, <1>8, <1>9

(* The step that completes the handshake.                                  *)
LEMMA CompletionKeeps ==
  ASSUME HandoverInv, NEW s \in Side, pc[s] = "step", StepCompletes(s),
         NEW q \in {"take", "drain"}, pc' = [pc EXCEPT ![s] = q],
         UNCHANGED <<wrote, read, ktx, krx, got, ended>>
  PROVE  HandoverInv'
<1> DEFINE e == x[s]
           y == Ended(e, s)
           z == Finished(DeriveBoth(y, s), s)
           new == stream[s] \o LastWrites(e, s)
<1>1. /\ e.ssl /\ ~e.done /\ Complete(e, s)
      /\ x' = [x EXCEPT ![s] = z] /\ stream' = [stream EXCEPT ![s] = new]
  BY DEF StepCompletes
<1>2. /\ y \in ExchangeType /\ y.ssl /\ ~y.done /\ y.stage = "complete"
      /\ y.fed = e.fed /\ y.taken = e.taken
      /\ y.eaten = U * Own(Peer(s)) /\ y.eaten <= y.fed
      /\ y.made = U * Written(s, "complete") /\ y.taken <= y.made
      /\ s = "server" => y.taken = U * Own(s)
      /\ \A w \in Side : y.secret[w] = 1 /\ ~y.rekeyed[w]
      /\ new \in Seq(Record) /\ y.made = U * Len(new)
      /\ Sealed(s, new) /\ OnlyTickets(s, new)
  BY <1>1, EndedIs
<1> HIDE DEF y, new
<1>3. /\ z \in ExchangeType /\ z.ssl /\ z.done /\ z.stage = y.stage
      /\ z.fed = y.fed /\ z.eaten = y.eaten /\ z.made = y.made /\ z.taken = y.taken
      /\ z.tx_at_done = U * Own(s) /\ z.rx_at_done = y.eaten
      /\ z.secret = y.secret /\ z.rekeyed = y.rekeyed
      /\ \A w \in Side : z.info[w] = y.secret[w]
  BY <1>2, FinishedIs
<1> HIDE DEF z
<1>4. /\ x'[s] = z /\ stream'[s] = new
      /\ x' = [x EXCEPT ![s] = x'[s]] /\ stream' = [stream EXCEPT ![s] = stream'[s]]
  BY <1>1 DEF HandoverInv, Types
<1>5. Pace(s, z)
  <2>1. y.eaten \in Nat /\ y.fed \in Nat
    BY <1>2 DEF ExchangeType
  <2> QED BY <1>2, <1>3, <2>1 DEF Pace
<1>6. Fresh(z)
  BY <1>2, <1>3 DEF Fresh
<1>7. /\ z \in ExchangeType /\ z.ssl = e.ssl /\ z.taken = e.taken /\ z.fed = e.fed /\ z.done
      /\ z.made = U * Len(new)
  BY <1>1, <1>2, <1>3
<1>8. new \in Seq(Record) /\ Sealed(s, new) /\ OnlyTickets(s, new)
  BY <1>2
<1>9. q \in {"step", "take", "read", "drain", "closed"}
  OBVIOUS
<1> QED BY <1>4, <1>5, <1>6, <1>7, <1>8, <1>9, StepKeeps

(* The step that completes the handshake and fails to derive its keys:     *)
(* called again it finds what it left.                                     *)
LEMMA FailureKeeps ==
  ASSUME HandoverInv, NEW s \in Side, pc[s] = "step", StepFails(s),
         NEW q \in {"step", "closed"}, pc' = [pc EXCEPT ![s] = q],
         UNCHANGED <<wrote, read, ktx, krx, got, ended>>
  PROVE  HandoverInv'
<1> DEFINE e == x[s]
           y == Ended(e, s)
           new == stream[s] \o LastWrites(e, s)
<1>1. PICK z \in {y, Fill(y, s)} : x' = [x EXCEPT ![s] = z]
  BY DEF StepFails
<1>2. e.ssl /\ ~e.done /\ Complete(e, s) /\ stream' = [stream EXCEPT ![s] = new]
  BY DEF StepFails
<1>3. /\ y \in ExchangeType /\ y.ssl /\ ~y.done /\ y.stage = "complete"
      /\ y.fed = e.fed /\ y.taken = e.taken
      /\ y.eaten = U * Own(Peer(s)) /\ y.eaten <= y.fed
      /\ y.made = U * Written(s, "complete") /\ y.taken <= y.made
      /\ s = "server" => y.taken = U * Own(s)
      /\ \A w \in Side : y.secret[w] = 1 /\ ~y.rekeyed[w]
      /\ new \in Seq(Record) /\ y.made = U * Len(new)
      /\ Sealed(s, new) /\ OnlyTickets(s, new)
  BY <1>2, EndedIs
<1> HIDE DEF y, new
<1>4. /\ z \in ExchangeType /\ z.ssl = y.ssl /\ z.done = y.done /\ z.stage = y.stage
      /\ z.fed = y.fed /\ z.eaten = y.eaten /\ z.made = y.made /\ z.taken = y.taken
      /\ z.secret = y.secret /\ z.rekeyed = y.rekeyed
  <2>1. y \in ExchangeType
    BY <1>3
  <2>2. CASE z = y
    BY <2>1, <2>2
  <2>3. CASE z = Fill(y, s)
    BY <2>1, <2>3, FillIs
  <2> QED BY <1>1, <2>2, <2>3
<1>5. /\ x'[s] = z /\ stream'[s] = new
      /\ x' = [x EXCEPT ![s] = x'[s]] /\ stream' = [stream EXCEPT ![s] = stream'[s]]
  BY <1>1, <1>2 DEF HandoverInv, Types
<1>6. Pace(s, z)
  <2>1. y.eaten \in Nat /\ y.fed \in Nat
    BY <1>3 DEF ExchangeType
  <2> QED BY <1>3, <1>4, <2>1 DEF Pace
<1>7. Fresh(z)
  BY <1>3, <1>4 DEF Fresh
<1> QED BY <1>2, <1>3, <1>4, <1>5, <1>6, <1>7, StepKeeps

(* ktls_exchange_step in the caller's loop.                                *)
LEMMA CallStepKeeps ==
  ASSUME HandoverInv, NEW s \in Side, CallStep(s)
  PROVE  HandoverInv'
<1>1. pc[s] = "step" /\ UNCHANGED <<wrote, read, ktx, krx, got, ended>>
  BY DEF CallStep, kernel, told
<1>2. PICK q \in {"take", "read", "drain"} :
        /\ pc' = [pc EXCEPT ![s] = q]
        /\ ~x'[s].done => q # "drain"
        /\ x'[s].done => q # "read"
  <2> DEFINE q == CASE StepAnswer(x'[s]) = "writing" -> "take"
                    [] StepAnswer(x'[s]) = "reading" -> "read"
                    [] OTHER -> "drain"
  <2>1. pc' = [pc EXCEPT ![s] = q]
    BY DEF CallStep, Goto
  <2>2. /\ q \in {"take", "read", "drain"}
        /\ ~x'[s].done => q # "drain"
        /\ x'[s].done => q # "read"
    BY DEF StepAnswer
  <2> HIDE DEF q
  <2> QED BY <2>1, <2>2
<1>3. x \in [Side -> ExchangeType]
  BY DEF HandoverInv, Types
<1>4. CASE StepWaits(s)
  <2>1. ~x[s].done /\ x[s].stage # "complete" /\ x' = [x EXCEPT ![s] = Pulled(x[s])] /\ UNCHANGED stream
    BY <1>4 DEF StepWaits
  <2>2. ~x'[s].done
    BY <1>3, <2>1 DEF Pulled, ExchangeType
  <2>3. q \in {"take", "read", "closed"}
    BY <1>2, <2>2
  <2> QED BY <1>1, <1>2, <2>1, <2>3, PullsKeep
<1>5. CASE StepAdvances(s)
  <2>1. ~x[s].done /\ x[s].stage = "hello" /\ x' = [x EXCEPT ![s] = Advanced(x[s], s)]
    BY <1>5 DEF StepAdvances
  <2>2. ~x'[s].done
    BY <1>3, <2>1, AdvancedIs
  <2>3. q \in {"take", "read"}
    BY <1>2, <2>2
  <2> QED BY <1>1, <1>2, <1>5, <2>3, AdvanceKeeps
<1>6. CASE StepCompletes(s)
  <2>1. ~x[s].done /\ Complete(x[s], s)
        /\ x' = [x EXCEPT ![s] = Finished(DeriveBoth(Ended(x[s], s), s), s)]
    BY <1>6 DEF StepCompletes
  <2>2. x'[s].done
    <3>1. /\ Ended(x[s], s) \in ExchangeType /\ Ended(x[s], s).ssl
          /\ s = "server" => Ended(x[s], s).taken = U * Own(s)
          /\ Ended(x[s], s).made = U * Written(s, "complete")
      BY <1>1, <2>1, EndedIs
    <3>2. Finished(DeriveBoth(Ended(x[s], s), s), s).done
      BY <3>1, FinishedIs
    <3> QED BY <1>3, <2>1, <3>2
  <2>3. q \in {"take", "drain"}
    BY <1>2, <2>2
  <2> QED BY <1>1, <1>2, <1>6, <2>3, CompletionKeeps
<1>7. CASE StepAgain(s)
  <2>1. x[s].done /\ x' = x /\ stream' = stream
    BY <1>7 DEF StepAgain
  <2>2. q \in {"take", "drain"}
    BY <1>2, <2>1
  <2>3. /\ x' = [x EXCEPT ![s] = x'[s]] /\ stream' = [stream EXCEPT ![s] = stream'[s]]
    BY <2>1 DEF HandoverInv, Types
  <2>4. Fresh(x[s]) /\ x[s].made = U * Len(stream[s]) /\ OnlyTickets(s, stream[s])
    BY <1>1, InBefore DEF Before
  <2> QED BY <1>1, <1>2, <2>1, <2>2, <2>3, <2>4, Here, StepKeeps
<1> QED BY <1>4, <1>5, <1>6, <1>7 DEF CallStep

(* ktls_exchange_step answering KTLS_ERROR.                                *)
LEMMA CallStepFailsKeeps ==
  ASSUME HandoverInv, NEW s \in Side, CallStepFails(s)
  PROVE  HandoverInv'
<1>1. pc[s] = "step" /\ UNCHANGED <<wrote, read, ktx, krx, got, ended>>
  BY DEF CallStepFails, kernel, told
<1>2. CASE StepFails(s) /\ Goto(s, IF "retries" \in Habits /\ x[s].stage = "finish" THEN "step" ELSE "closed")
  <2>1. PICK q \in {"step", "closed"} : pc' = [pc EXCEPT ![s] = q]
    BY <1>2 DEF Goto
  <2> QED BY <1>1, <1>2, <2>1, FailureKeeps
<1>3. CASE StepRefuses(s) /\ Goto(s, "closed")
  BY <1>1, <1>3, PullsKeep DEF StepRefuses, Goto
<1> QED BY <1>2, <1>3 DEF CallStepFails

-----------------------------------------------------------------------------
(* ktls_records_between counts an interval of records as long as the table *)
(* has room for all that has gone past.                                    *)
LEMMA BetweenCounts ==
  ASSUME NEW offset, NEW a, NEW upto, offset \in Nat, a \in Nat, upto \in Nat,
         upto <= offset, ~Overflowed(offset)
  PROVE  /\ RecordsBetween(offset, U * a, upto) = Cardinality(a + 1 .. upto \div U)
         /\ RecordsBetween(offset, U * a, upto) \in Nat
<1> DEFINE S == {i \in Known(offset) : U * a < i * U /\ i * U <= upto}
<1> USE ExchangeAssumption
<1>1. S = a + 1 .. upto \div U
  <2>1. ASSUME NEW i \in S
        PROVE  i \in a + 1 .. upto \div U
    BY <2>1 DEF Known, U
  <2>2. ASSUME NEW i \in a + 1 .. upto \div U
        PROVE  i \in S
    <3>1. i \in Nat /\ i >= 1 /\ i * 2 <= upto /\ 2 * a < i * 2
      BY <2>2 DEF U
    <3>2. i <= TableSize
      BY <3>1 DEF Overflowed, U
    <3> QED BY <3>1, <3>2 DEF Known, U
  <2> QED BY <2>1, <2>2
<1>2. IsFiniteSet(a + 1 .. upto \div U) /\ Cardinality(a + 1 .. upto \div U) \in Nat
  <2>1. a + 1 \in Int /\ upto \div U \in Int
    BY DEF U
  <2> QED BY <2>1, FS_Interval, FS_CardinalityType
<1> QED BY <1>1, <1>2 DEF RecordsBetween

(* Both blobs of an exchange that hands over (ktls_crypto_info), and that  *)
(* the sending one carries on the stream.                                  *)
LEMMA TxBlob ==
  ASSUME HandoverInv, NEW s \in Side, pc[s] = "offload", HandsOver(x[s])
  PROVE  /\ CryptoInfo(x[s], s, "tx") = NonceAfter(stream[s], Len(stream[s]))
         /\ CryptoInfo(x[s], s, "tx") \in Nonce /\ CryptoInfo(x[s], s, "tx").key = 1
         /\ x[s].taken = x[s].made
<1> DEFINE e == x[s]
           st == stream[s]
           n == Len(st)
<1> USE ExchangeAssumption
<1>1. /\ e \in ExchangeType /\ e.ssl /\ e.done /\ Fresh(e) /\ e.made = U * n /\ OnlyTickets(s, st)
      /\ Pace(s, e) /\ Sealed(s, st) /\ n \in Nat
  BY Here, InOffered DEF Offered
<1>2. e.taken = e.made /\ e.taken \in Nat /\ e.made \in Nat
  BY <1>1 DEF HandsOver, Owes, OutPending, Pace, ExchangeType
<1>3. e.tx_at_done = U * Own(s) /\ e.stage = "complete" /\ Own(s) \in Nat \ {0}
  BY <1>1 DEF Pace, Own
<1>4. n = Written(s, "complete") /\ n >= Own(s)
  <2>1. Written(s, "complete") \in Nat /\ Written(s, "complete") >= Own(s)
    BY DEF Written, Own
  <2>2. U * n = U * Written(s, "complete")
    BY <1>1, <1>3 DEF Pace
  <2> QED BY <1>1, <2>1, <2>2 DEF U
<1>5. e.info[s] = 1 /\ ~e.rekeyed[s]
  BY <1>1 DEF Fresh
<1>6. RecordSequence(e, s, "tx") = n - Own(s)
  <2>1. RecordSequence(e, s, "tx") = RecordsBetween(e.taken, U * Own(s), e.taken)
    BY <1>1, <1>3, <1>5 DEF RecordSequence, Which
  <2>2. RecordsBetween(e.taken, U * Own(s), e.taken) = Cardinality(Own(s) + 1 .. e.taken \div U)
    <3>1. ~Overflowed(e.taken) /\ e.taken <= e.taken
      BY <1>2 DEF HandsOver
    <3> QED BY <1>2, <1>3, <3>1, BetweenCounts
  <2>3. e.taken \div U = n
    <3>1. e.taken = U * n /\ n \in Nat
      BY <1>1, <1>2
    <3> HIDE DEF n
    <3> QED BY <3>1 DEF U
  <2>4. Cardinality(Own(s) + 1 .. n) = n - Own(s)
    <3>1. Own(s) + 1 \in Int /\ n \in Int
      BY <1>1, <1>3
    <3>2. Cardinality(Own(s) + 1 .. n) = IF Own(s) + 1 > n THEN 0 ELSE n - (Own(s) + 1) + 1
      BY <3>1, FS_Interval
    <3> QED BY <1>1, <1>3, <1>4, <3>2
  <2> QED BY <2>1, <2>2, <2>3, <2>4
<1>7. NonceAfter(st, n) = [key |-> 1, seq |-> n - Own(s)]
  <2>1. CASE n = Own(s)
    <3>1. n \in 1 .. Len(st) /\ st[n].key = 0
      BY <1>1, <1>3, <2>1 DEF Sealed
    <3>2. n - Own(s) = 0
      BY <1>1, <2>1
    <3> QED BY <3>1, <3>2 DEF NonceAfter
  <2>2. CASE n > Own(s)
    <3>1. n \in Own(s) + 1 .. Len(st) /\ n \in 1 .. Len(st) /\ n # 0
      BY <1>1, <1>3, <2>2
    <3>2. st[n].key = 1 /\ st[n].kind = "nst"
      BY <1>1, <3>1 DEF OnlyTickets
    <3>3. st[n].seq = n - Own(s) - 1
      BY <1>1, <2>2, <3>1, <3>2 DEF Sealed
    <3>4. st[n].seq + 1 = n - Own(s)
      BY <1>1, <1>3, <3>3
    <3> HIDE DEF n
    <3> QED BY <3>1, <3>2, <3>4 DEF NonceAfter
  <2> QED BY <1>1, <1>3, <1>4, <2>1, <2>2
<1>8. CryptoInfo(e, s, "tx") = [key |-> 1, seq |-> n - Own(s)]
  BY <1>5, <1>6 DEF CryptoInfo, Which
<1>9. n - Own(s) \in Nat
  BY <1>1, <1>3, <1>4
<1> QED BY <1>2, <1>7, <1>8, <1>9 DEF Nonce

(* Whatever it is asked, ktls_records_between answers a number.            *)
LEMMA BetweenType ==
  ASSUME NEW offset, NEW after, NEW upto
  PROVE  RecordsBetween(offset, after, upto) \in Nat
<1> DEFINE S == {i \in Known(offset) : after < i * U /\ i * U <= upto}
<1>1. IsFiniteSet(1 .. TableSize)
  BY ExchangeAssumption, FS_Interval
<1>2. S \subseteq 1 .. TableSize
  BY DEF Known
<1>3. IsFiniteSet(S)
  BY <1>1, <1>2, FS_Subset
<1> QED BY <1>3, FS_CardinalityType DEF RecordsBetween

(* The blob the kernel is first given to read with: the first key, and     *)
(* some sequence.                                                          *)
LEMMA RxBlob ==
  ASSUME HandoverInv, NEW s \in Side, x[s].done, Fresh(x[s])
  PROVE  /\ CryptoInfo(x[s], s, "rx") \in Nonce /\ CryptoInfo(x[s], s, "rx").key = 1
         /\ \A w \in Side : x[s].secret[w] = 1 /\ x[s].info[w] = 1
<1>1. Peer(s) \in Side
  BY Sides
<1>2. x[s].stage = "complete"
  <2>1. Pace(s, x[s])
    BY Here
  <2> QED BY <2>1 DEF Pace
<1>3. \A w \in Side : x[s].secret[w] = 1 /\ x[s].info[w] = 1
  BY <1>2 DEF Fresh
<1>4. RecordSequence(x[s], s, "rx") \in Nat
  BY BetweenType DEF RecordSequence
<1>5. CryptoInfo(x[s], s, "rx") = [key |-> 1, seq |-> RecordSequence(x[s], s, "rx")]
  BY <1>1, <1>3 DEF CryptoInfo, Which
<1> QED BY <1>3, <1>4, <1>5 DEF Nonce

(* Only the kernel and the place of its caller change.                     *)
LEMMA KernelKeeps ==
  ASSUME HandoverInv, NEW s \in Side, NEW q \in Before \union Offered \union {"submit", "closed"} \union Kernels,
         NEW kt \in Nonce, NEW kr \in Nonce,
         pc' = [pc EXCEPT ![s] = q], ktx' = [ktx EXCEPT ![s] = kt], krx' = [krx EXCEPT ![s] = kr],
         UNCHANGED <<x, stream, wrote, read, got, ended>>,
         Sending(s, x[s], stream[s], q, wrote[s], kt), Calling(s, x[s], q, read[s], kt, kr)
  PROVE  HandoverInv'
<1>1. pc'[s] = q /\ ktx'[s] = kt /\ krx'[s] = kr /\ Moves(s)
  BY DEF Moves, HandoverInv, Types
<1>2. Local(s, x[s], stream[s], q, wrote[s], read[s], kt, kr)
  BY Here DEF Local
<1>3. wrote[s] <= wrote[s] /\ read[s] <= wrote[Peer(s)]
  BY Here
<1> QED BY <1>1, <1>2, <1>3, Here, OneMoves

(* ktls_offload, whichever of its calls fails, and the reactor's first     *)
(* blob.                                                                   *)
LEMMA OffloadKeeps ==
  ASSUME HandoverInv, NEW s \in Side, CallOffload(s) \/ SubmitTx(s)
  PROVE  HandoverInv'
<1> DEFINE e == x[s]
           kt == CryptoInfo(e, s, "tx")
           kr == CryptoInfo(e, s, "rx")
<1> USE HandoverAssumption
<1>1. pc[s] = "offload" /\ UNCHANGED <<x, stream, wrote, read, got, ended>>
  BY DEF CallOffload, SubmitTx, told
<1>2. /\ e.ssl /\ e.done /\ krx[s] = NoKey /\ Fresh(e) /\ read[s] = e.fed
      /\ ktx[s] = NoKey /\ e.made = U * Len(stream[s]) /\ wrote[s] = e.taken
      /\ OnlyTickets(s, stream[s])
  BY <1>1, InOffered DEF Offered
<1>3. /\ kr \in Nonce /\ kr.key = 1 /\ e.secret[s] = 1 /\ e.info[s] = 1
      /\ e.secret[Peer(s)] = 1 /\ e.info[Peer(s)] = 1 /\ kr # NoKey
  BY <1>2, RxBlob, Sides DEF NoKey
<1>4. e.made \in Nat /\ e.fed <= read[s]
  BY <1>2, Here DEF ExchangeType
<1>5. ASSUME HandsOver(e)
      PROVE  /\ kt \in Nonce /\ kt # NoKey
             /\ \A q \in {"submit", "live", "closed"} : Sending(s, e, stream[s], q, wrote[s], kt)
             /\ \A q \in {"submit", "closed"} : Calling(s, e, q, read[s], kt, NoKey)
             /\ Calling(s, e, "live", read[s], kt, kr)
  <2>1. /\ kt = NonceAfter(stream[s], Len(stream[s])) /\ kt \in Nonce /\ kt.key = 1
        /\ e.taken = e.made /\ kt # NoKey
    BY <1>1, <1>5, TxBlob DEF NoKey
  <2> HIDE DEF kt, kr
  <2>2. \A q \in {"submit", "live", "closed"} : Sending(s, e, stream[s], q, wrote[s], kt)
    BY <1>2, <1>3, <1>4, <2>1 DEF Sending, Before, Offered, Kernels
  <2>3. \A q \in {"submit", "closed"} : Calling(s, e, q, read[s], kt, NoKey)
    BY <1>2, <1>4 DEF Calling, Before, Offered, Kernels
  <2>4. Calling(s, e, "live", read[s], kt, kr)
    BY <1>2, <1>3, <1>4 DEF Calling, Before, Offered, Kernels
  <2> QED BY <2>1, <2>2, <2>3, <2>4
<1> HIDE DEF kt, kr
<1>6. /\ "submit" \in Before \union Offered \union {"submit", "closed"} \union Kernels
      /\ "closed" \in Before \union Offered \union {"submit", "closed"} \union Kernels
      /\ "live" \in Before \union Offered \union {"submit", "closed"} \union Kernels
  BY DEF Kernels
<1>7. CASE UNCHANGED kernel /\ Goto(s, "closed")
  BY <1>1, <1>7, ClosedKeeps DEF Goto, kernel
<1>8. CASE HandsOver(e) /\ ktx' = [ktx EXCEPT ![s] = kt] /\ krx' = [krx EXCEPT ![s] = kr] /\ Goto(s, "live")
  BY <1>1, <1>3, <1>5, <1>6, <1>8, KernelKeeps DEF Goto
<1>9. ASSUME NEW q \in {"submit", "closed"}, HandsOver(e), ktx' = [ktx EXCEPT ![s] = kt],
             UNCHANGED krx, Goto(s, q)
      PROVE  HandoverInv'
  <2>1. krx' = [krx EXCEPT ![s] = NoKey] /\ NoKey \in Nonce
    BY <1>2, <1>9 DEF HandoverInv, Types, NoKey, Nonce
  <2> QED BY <1>1, <1>5, <1>6, <1>9, <2>1, KernelKeeps DEF Goto
<1> QED BY <1>7, <1>8, <1>9 DEF CallOffload, OffloadInstalls, OffloadRefuses, OffloadHalves, SubmitTx, kt, kr

(* The reactor's second blob.                                              *)
LEMMA SubmitRxKeeps ==
  ASSUME HandoverInv, NEW s \in Side, SubmitRx(s)
  PROVE  HandoverInv'
<1> DEFINE e == x[s]
           kr == CryptoInfo(e, s, "rx")
<1> USE HandoverAssumption
<1>1. /\ pc[s] = "submit" /\ UNCHANGED <<x, stream, wrote, read, ktx, got, ended>>
      /\ krx' = [krx EXCEPT ![s] = kr] /\ pc' = [pc EXCEPT ![s] = "live"]
  BY DEF SubmitRx, told, Goto
<1>2. e.done /\ krx[s] = NoKey /\ Fresh(e) /\ e.fed <= read[s]
  <2>1. Calling(s, e, "submit", read[s], ktx[s], krx[s])
    BY <1>1, Here
  <2> QED BY <2>1 DEF Calling
<1>3. /\ kr \in Nonce /\ kr.key = 1 /\ e.secret[Peer(s)] = 1 /\ e.info[Peer(s)] = 1 /\ kr # NoKey
  BY <1>2, RxBlob, Sides DEF NoKey
<1> HIDE DEF kr
<1>4. Sending(s, e, stream[s], "live", wrote[s], ktx[s])
  <2>1. Sending(s, e, stream[s], "submit", wrote[s], ktx[s])
    BY <1>1, Here
  <2> QED BY <2>1 DEF Sending, Before, Offered, Kernels
<1>5. Calling(s, e, "live", read[s], ktx[s], kr)
  BY <1>2, <1>3 DEF Calling, Before, Offered, Kernels
<1>6. ktx' = [ktx EXCEPT ![s] = ktx[s]] /\ ktx[s] \in Nonce /\ "live" \in Kernels
  BY <1>1 DEF HandoverInv, Types, Kernels
<1> QED BY <1>1, <1>3, <1>4, <1>5, <1>6, KernelKeeps

-----------------------------------------------------------------------------
(* A record under the nonce the stream calls for carries it on, and says   *)
(* which nonce comes next.                                                 *)
LEMMA AppendSealed ==
  ASSUME NEW s \in Side, NEW st \in Seq(Record), NEW kt \in Nonce, NEW r \in Record,
         Sealed(s, st), Len(st) >= Own(s), kt = NonceAfter(st, Len(st)), kt.key \in 1 .. MaxKey,
         r.key = kt.key, r.seq = kt.seq, r.kind \in {"data", "ku", "close"}
  PROVE  LET new == Append(st, r)
         IN  /\ new \in Seq(Record) /\ Len(new) = Len(st) + 1 /\ Sealed(s, new)
             /\ \A i \in 1 .. Len(st) : new[i] = st[i]
             /\ NonceAfter(new, Len(new)) =
                  IF r.kind = "ku" THEN [key |-> kt.key + 1, seq |-> 0]
                                   ELSE [key |-> kt.key, seq |-> kt.seq + 1]
<1> DEFINE new == Append(st, r)
           n == Len(st)
<1> USE ExchangeAssumption, HandoverAssumption
<1>1. /\ new \in Seq(Record) /\ Len(new) = n + 1 /\ new[n + 1] = r /\ n \in Nat
      /\ \A i \in 1 .. n : new[i] = st[i]
  OBVIOUS
<1> HIDE DEF new
<1>2. NonceAfter(new, n + 1) =
        IF r.kind = "ku" THEN [key |-> kt.key + 1, seq |-> 0]
                         ELSE [key |-> kt.key, seq |-> kt.seq + 1]
  <2>1. n + 1 # 0 /\ r.key # 0
    BY <1>1
  <2> QED BY <1>1, <2>1 DEF NonceAfter
<1>3. \A i \in 1 .. n + 1 : NonceAfter(new, i - 1) = NonceAfter(st, i - 1)
  <2> TAKE i \in 1 .. n + 1
  <2>1. i - 1 = 0 \/ (i - 1 \in 1 .. n /\ new[i - 1] = st[i - 1])
    BY <1>1
  <2> QED BY <2>1 DEF NonceAfter
<1>4. Own(s) \in Nat \ {0}
  BY DEF Own
<1>5. kt.key = 1 => kt.seq = n - Own(s)
  <2>1. n \in 1 .. n /\ n # 0
    BY <1>1, <1>4
  <2>2. CASE n = Own(s)
    <3>1. st[n].key = 0
      BY <2>1, <2>2 DEF Sealed
    <3>2. NonceAfter(st, n) = [key |-> 1, seq |-> 0]
      BY <3>1 DEF NonceAfter
    <3> QED BY <1>1, <1>4, <2>2, <3>2
  <2>3. CASE n > Own(s)
    <3>1. st[n].key >= 1 /\ (st[n].key = 1 => st[n].seq = n - Own(s) - 1) /\ st[n] \in Record
      BY <2>1, <2>3 DEF Sealed
    <3>2. st[n].key \in Nat /\ st[n].key # 0
      BY <3>1 DEF Record
    <3>3. CASE st[n].kind = "ku"
      BY <2>1, <3>2, <3>3 DEF NonceAfter
    <3>4. CASE st[n].kind # "ku"
      <4>1. kt.key = st[n].key /\ kt.seq = st[n].seq + 1
        BY <2>1, <3>2, <3>4 DEF NonceAfter
      <4> QED BY <1>1, <1>4, <3>1, <4>1
    <3> QED BY <3>3, <3>4
  <2> QED BY <1>1, <1>4, <2>2, <2>3
<1>6. Sealed(s, new)
  <2> SUFFICES ASSUME NEW i \in 1 .. n + 1
               PROVE  /\ i <= Own(s) => new[i].key = 0 /\ new[i].kind \in {"hs", "fin"}
                      /\ i > Own(s) =>
                           /\ new[i].key >= 1 /\ new[i].kind \in {"nst", "data", "ku", "close"}
                           /\ new[i].key = NonceAfter(new, i - 1).key
                           /\ new[i].seq = NonceAfter(new, i - 1).seq
                           /\ new[i].key <= MaxKey
                           /\ new[i].key = 1 => new[i].seq = i - Own(s) - 1
    BY <1>1 DEF Sealed
  <2>1. NonceAfter(new, i - 1) = NonceAfter(st, i - 1)
    BY <1>3
  <2>2. CASE i \in 1 .. n
    <3>1. new[i] = st[i]
      BY <1>1, <2>2
    <3> QED BY <2>1, <2>2, <3>1 DEF Sealed
  <2>3. CASE i = n + 1
    <3>1. new[i] = r /\ i - 1 = n /\ i > Own(s)
      BY <1>1, <1>4, <2>3
    <3>2. NonceAfter(new, i - 1) = kt
      BY <2>1, <3>1
    <3>3. kt.key = 1 => kt.seq = i - Own(s) - 1
      BY <1>1, <1>4, <1>5, <2>3
    <3> QED BY <1>4, <3>1, <3>2, <3>3
  <2> QED BY <1>1, <2>2, <2>3
<1> QED BY <1>1, <1>2, <1>6 DEF new

(* A kernel with a sending key has all of the handshake behind it.         *)
LEMMA HandshakeBehind ==
  ASSUME HandoverInv, NEW s \in Side, ktx[s] # NoKey
  PROVE  Len(stream[s]) >= Own(s) /\ x[s].done /\ wrote[s] = U * Len(stream[s])
<1> DEFINE e == x[s]
<1> USE ExchangeAssumption
<1>1. /\ e.done /\ e.made <= U * Len(stream[s]) /\ wrote[s] = U * Len(stream[s])
  <2>1. Sending(s, e, stream[s], pc[s], wrote[s], ktx[s])
    BY Here
  <2> QED BY <2>1 DEF Sending
<1>2. e.made = U * Written(s, "complete")
  <2>1. Pace(s, e)
    BY Here
  <2> QED BY <1>1, <2>1 DEF Pace
<1>3. Written(s, "complete") \in Nat /\ Written(s, "complete") >= Own(s) /\ Own(s) \in Nat
  BY DEF Written, Own
<1>4. Len(stream[s]) \in Nat
  BY Here
<1> QED BY <1>1, <1>2, <1>3, <1>4 DEF U

(* The bytes on the wire are whole records that were produced.             *)
LEMMA WroteRecords ==
  ASSUME HandoverInv, NEW s \in Side
  PROVE  wrote[s] <= U * Len(stream[s])
<1>1. Sending(s, x[s], stream[s], pc[s], wrote[s], ktx[s]) /\ Pace(s, x[s]) /\ x[s] \in ExchangeType
  BY Here
<1>2. wrote[s] \in Nat /\ Len(stream[s]) \in Nat
  BY Here
<1>3. CASE ktx[s] = NoKey
  BY <1>1, <1>3 DEF Sending, Pace
<1>4. CASE ktx[s] # NoKey
  BY <1>1, <1>2, <1>4 DEF Sending
<1> QED BY <1>3, <1>4

(* The kernel sealing one record: it gets the nonce after the last one's.  *)
LEMMA SealKeeps ==
  ASSUME HandoverInv, NEW s \in Side, pc[s] \in {"live", "submit"},
         NEW record \in {"DATA", "HANDSHAKE", "ALERT"}, NEW kind \in {"data", "ku", "close"},
         Seal(s, record, kind), UNCHANGED <<x, read, krx, got, ended>>,
         \/ kind # "ku" /\ UNCHANGED pc
         \/ /\ kind = "ku" /\ pc[s] = "live" /\ ktx[s].key < MaxKey
            /\ pc' = [pc EXCEPT ![s] = "turn_tx"]
  PROVE  HandoverInv'
<1> DEFINE e == x[s]
           st == stream[s]
           kt == ktx[s]
           r == [kind |-> kind, type |-> TypeOf(record), key |-> kt.key, seq |-> kt.seq]
           new == Append(st, r)
           k2 == [kt EXCEPT !.seq = kt.seq + 1]
           q == IF kind = "ku" THEN "turn_tx" ELSE pc[s]
<1>1. /\ stream' = [stream EXCEPT ![s] = new] /\ ktx' = [ktx EXCEPT ![s] = k2]
      /\ wrote' = [wrote EXCEPT ![s] = wrote[s] + U] /\ pc' = [pc EXCEPT ![s] = q]
  BY DEF Seal, HandoverInv, Types
<1>2. /\ st \in Seq(Record) /\ kt \in Nonce /\ Sealed(s, st) /\ wrote[s] \in Nat /\ Len(st) \in Nat
  BY Here
<1>3. /\ kt # NoKey /\ kt = NonceAfter(st, Len(st)) /\ kt.key \in 1 .. MaxKey
      /\ e.secret[s] = kt.key /\ e.info[s] = kt.key
      /\ e.done /\ e.taken = e.made /\ e.made <= U * Len(st) /\ wrote[s] = U * Len(st)
  <2>1. Sending(s, e, st, pc[s], wrote[s], kt)
    BY Here
  <2> QED BY <2>1 DEF Sending, Kernels
<1>4. Len(st) >= Own(s)
  BY <1>3, HandshakeBehind
<1>5. /\ r \in Record /\ r.key = kt.key /\ r.seq = kt.seq /\ r.kind = kind
  BY <1>2 DEF Record, TypeOf, Nonce
<1>6. /\ k2 \in Nonce /\ k2 = [key |-> kt.key, seq |-> kt.seq + 1] /\ k2.key = kt.key
      /\ k2 # NoKey
  BY <1>2, <1>3 DEF Nonce, NoKey
<1> HIDE DEF r
<1>7. /\ new \in Seq(Record) /\ Len(new) = Len(st) + 1 /\ Sealed(s, new)
      /\ NonceAfter(new, Len(new)) =
           IF kind = "ku" THEN [key |-> kt.key + 1, seq |-> 0]
                          ELSE [key |-> kt.key, seq |-> kt.seq + 1]
  BY <1>2, <1>3, <1>4, <1>5, AppendSealed
<1> HIDE DEF new, k2, q
<1>8. /\ stream'[s] = new /\ ktx'[s] = k2 /\ wrote'[s] = wrote[s] + U /\ pc'[s] = q /\ Moves(s)
  BY <1>1 DEF HandoverInv, Types, Moves
<1>9. wrote[s] + U = U * Len(new) /\ e.made <= U * Len(new) /\ wrote[s] + U \in Nat
      /\ wrote[s] <= wrote[s] + U
  <2> DEFINE n == Len(st)
             m == Len(new)
  <2>1. n \in Nat /\ m = n + 1 /\ wrote[s] = U * n /\ e.made <= U * n /\ e.made \in Nat
    BY <1>2, <1>3, <1>7, Here DEF ExchangeType
  <2> HIDE DEF n, m
  <2>2. wrote[s] + U = U * m /\ e.made <= U * m /\ wrote[s] + U \in Nat /\ wrote[s] <= wrote[s] + U
    BY <2>1 DEF U
  <2> QED BY <2>2 DEF m
<1>10. Sending(s, e, new, q, wrote[s] + U, k2)
  <2>1. CASE kind = "ku"
    <3>1. q = "turn_tx" /\ kt.key < MaxKey
      BY <2>1 DEF q
    <3> QED BY <1>3, <1>6, <1>7, <1>9, <2>1, <3>1 DEF Sending, Before, Offered, Kernels
  <2>2. CASE kind # "ku"
    <3>1. q \in {"live", "submit"}
      BY <2>2 DEF q
    <3> QED BY <1>3, <1>6, <1>7, <1>9, <2>2, <3>1 DEF Sending, Before, Offered, Kernels
  <2> QED BY <2>1, <2>2
<1>11. Calling(s, e, q, read[s], k2, krx[s])
  <2>1. Calling(s, e, pc[s], read[s], kt, krx[s])
    BY Here
  <2>2. q = pc[s] \/ (q = "turn_tx" /\ pc[s] = "live")
    BY DEF q
  <2> QED BY <2>1, <2>2 DEF Calling, Before, Offered, Kernels
<1>12. Local(s, e, new, q, wrote[s] + U, read[s], k2, krx[s])
  BY <1>7, <1>10, <1>11, Here DEF Local
<1>13. q \in Before \union Offered \union {"submit", "closed"} \union Kernels
  BY DEF q, Kernels
<1>14. read[s] <= wrote[Peer(s)]
  BY Here
<1> QED BY <1>6, <1>7, <1>8, <1>9, <1>12, <1>13, <1>14, Here, OneMoves

(* The caller's three ways of sending on the socket.                       *)
LEMMA SendsKeep ==
  ASSUME HandoverInv, NEW s \in Side, SendData(s) \/ SendKeyUpdate(s) \/ SendClose(s)
  PROVE  HandoverInv'
<1>1. CASE SendData(s)
  BY <1>1, SealKeeps DEF SendData, told
<1>2. CASE SendKeyUpdate(s)
  BY <1>2, SealKeeps DEF SendKeyUpdate, told, Goto
<1>3. CASE SendClose(s)
  BY <1>3, SealKeeps DEF SendClose, told
<1> QED BY <1>1, <1>2, <1>3

(* Reading a record from the socket.                                       *)
LEMMA ReceiveKeeps ==
  ASSUME HandoverInv, NEW s \in Side, Receive(s)
  PROVE  HandoverInv'
<1> DEFINE e == x[s]
           t == Peer(s)
           i == read[s] \div U + 1
           kr == krx[s]
           k2 == [kr EXCEPT !.seq = kr.seq + 1]
<1>1. /\ pc[s] = "live" /\ Unread(s) >= U
      /\ stream[t][i].key = kr.key
      /\ UNCHANGED <<x, stream, wrote, ktx>>
      /\ read' = [read EXCEPT ![s] = read[s] + U] /\ krx' = [krx EXCEPT ![s] = k2]
  BY DEF Receive, Opens
<1>2. PICK q \in {"live", "turn_rx"} : pc' = [pc EXCEPT ![s] = q]
  BY DEF Receive, Goto
<1>3. read[s] \in Nat /\ wrote[t] \in Nat /\ t \in Side /\ kr \in Nonce /\ e \in ExchangeType
  BY Here, Sides
<1>4. read[s] + U \in Nat /\ read[s] + U <= wrote[t] /\ i \in Nat \ {0}
  BY <1>1, <1>3 DEF Unread, U
<1>5. kr.key <= MaxKey
  <2>1. wrote[t] <= U * Len(stream[t]) /\ Len(stream[t]) \in Nat /\ Sealed(t, stream[t])
    BY <1>3, WroteRecords, Here
  <2>2. i \in 1 .. Len(stream[t])
    BY <1>3, <1>4, <2>1 DEF U
  <2>3. Own(t) \in Nat
    BY ExchangeAssumption DEF Own
  <2>4. stream[t][i].key = 0 \/ stream[t][i].key <= MaxKey
    BY <1>4, <2>1, <2>2, <2>3 DEF Sealed
  <2> QED BY <1>1, <2>4, HandoverAssumption
<1>6. k2 \in Nonce /\ k2.key = kr.key
  BY <1>3 DEF Nonce
<1>7. kr # NoKey /\ Calling(s, e, "live", read[s], ktx[s], kr)
  <2>1. Calling(s, e, "live", read[s], ktx[s], kr)
    BY <1>1, Here
  <2> QED BY <2>1 DEF Calling, Kernels
<1>8. k2 # NoKey
  BY <1>6, <1>7 DEF NoKey, Calling
<1> HIDE DEF k2
<1>9. e.fed <= read[s] + U
  <2>1. e.fed <= read[s] /\ e.fed \in Nat
    BY <1>3, <1>7 DEF Calling, ExchangeType
  <2> QED BY <1>3, <2>1 DEF U
<1>10. Calling(s, e, q, read[s] + U, ktx[s], k2)
  BY <1>5, <1>6, <1>7, <1>8, <1>9 DEF Calling, Before, Offered, Kernels
<1>11. Sending(s, e, stream[s], q, wrote[s], ktx[s])
  <2>1. Sending(s, e, stream[s], "live", wrote[s], ktx[s])
    BY <1>1, Here
  <2> QED BY <2>1 DEF Sending, Before, Offered, Kernels
<1>12. Local(s, e, stream[s], q, wrote[s], read[s] + U, ktx[s], k2)
  BY <1>10, <1>11, Here DEF Local
<1>13. /\ got' = [got EXCEPT ![s] = got'[s]] /\ got'[s] \in Seq(Nat)
  <2> DEFINE n == Number(t, i)
  <2>1. n \in Nat /\ got[s] \in Seq(Nat)
    BY <1>4, NumberType, Here
  <2>2. got'[s] \in {Append(got[s], n), got[s]} /\ got' = [got EXCEPT ![s] = got'[s]]
    BY DEF Receive, HandoverInv, Types
  <2> HIDE DEF n
  <2>3. Append(got[s], n) \in Seq(Nat)
    BY <2>1
  <2> QED BY <2>1, <2>2, <2>3
<1>14. ended' = [ended EXCEPT ![s] = ended'[s]] /\ ended'[s] \in {"open", "clean", "cut"}
  BY Here DEF Receive, HandoverInv, Types
<1>15. /\ read'[s] = read[s] + U /\ krx'[s] = k2 /\ pc'[s] = q /\ Moves(s)
  BY <1>1, <1>2, <1>13, <1>14 DEF HandoverInv, Types, Moves
<1>16. q \in Before \union Offered \union {"submit", "closed"} \union Kernels
  BY DEF Kernels
<1>17. wrote[s] <= wrote[s]
  BY Here
<1> QED BY <1>1, <1>4, <1>6, <1>12, <1>13, <1>14, <1>15, <1>16, <1>17, Here, OneMoves

(* ktls_next_key turns one secret; only when all of it went well does the  *)
(* blob follow.                                                            *)
LEMMA NextKeyIs ==
  ASSUME NEW e \in ExchangeType, NEW w \in Side, NEW outcome
  PROVE  LET f == NextKey(e, w, outcome)
         IN  /\ f \in ExchangeType
             /\ f.ssl = e.ssl /\ f.done = e.done /\ f.stage = e.stage
             /\ f.fed = e.fed /\ f.eaten = e.eaten /\ f.made = e.made /\ f.taken = e.taken
             /\ f.tx_at_done = e.tx_at_done /\ f.rx_at_done = e.rx_at_done
             /\ outcome = "ok" => /\ f.secret[w] = e.secret[w] + 1 /\ f.info[w] = e.secret[w] + 1
                                  /\ f.rekeyed[w]
             /\ \A v \in Side : v # w => f.secret[v] = e.secret[v] /\ f.info[v] = e.info[v]
<1> DEFINE a == [e.secret EXCEPT ![w] = e.secret[w] + 1]
           b == [e.rekeyed EXCEPT ![w] = TRUE]
           g == [e EXCEPT !.secret = a, !.rekeyed = b]
<1>1. /\ a \in [Side -> Nat] /\ b \in [Side -> BOOLEAN] /\ a[w] = e.secret[w] + 1 /\ b[w]
      /\ \A v \in Side : v # w => a[v] = e.secret[v] /\ b[v] = e.rekeyed[v]
  <2>1. e.secret \in [Side -> Nat] /\ e.rekeyed \in [Side -> BOOLEAN]
    BY DEF ExchangeType
  <2> QED BY <2>1
<1>2. g = [e EXCEPT !.secret[w] = @ + 1, !.rekeyed[w] = TRUE]
  BY DEF ExchangeType
<1> HIDE DEF a, b
<1>3. /\ g \in ExchangeType /\ g.secret = a /\ g.rekeyed = b /\ g.info = e.info
      /\ g.ssl = e.ssl /\ g.done = e.done /\ g.stage = e.stage
      /\ g.fed = e.fed /\ g.eaten = e.eaten /\ g.made = e.made /\ g.taken = e.taken
      /\ g.tx_at_done = e.tx_at_done /\ g.rx_at_done = e.rx_at_done
  BY <1>1 DEF ExchangeType
<1>4. NextKey(e, w, outcome) =
        IF outcome = "expand" THEN e ELSE IF outcome = "fill" THEN g ELSE Fill(g, w)
  BY <1>2 DEF NextKey
<1> HIDE DEF g
<1>5. CASE outcome = "expand"
  BY <1>4, <1>5
<1>6. CASE outcome = "fill"
  BY <1>1, <1>3, <1>4, <1>6
<1>7. CASE outcome \notin {"expand", "fill"}
  <2> DEFINE f == Fill(g, w)
  <2>1. /\ f \in ExchangeType
        /\ f.info[w] = g.secret[w] /\ \A v \in Side : v # w => f.info[v] = g.info[v]
        /\ f.ssl = g.ssl /\ f.done = g.done /\ f.stage = g.stage
        /\ f.fed = g.fed /\ f.eaten = g.eaten /\ f.made = g.made /\ f.taken = g.taken
        /\ f.tx_at_done = g.tx_at_done /\ f.rx_at_done = g.rx_at_done
        /\ f.secret = g.secret /\ f.rekeyed = g.rekeyed
    BY <1>3, FillIs
  <2>2. NextKey(e, w, outcome) = f
    BY <1>4, <1>7
  <2> HIDE DEF f
  <2> QED BY <1>1, <1>3, <2>1, <2>2
<1> QED BY <1>5, <1>6, <1>7

(* The two recipes for a new key, when the answer of ktls_next_key is      *)
(* checked.                                                                *)
LEMMA TurnsKeep ==
  ASSUME HandoverInv, "unchecked" \notin Habits, NEW s \in Side, TurnTx(s) \/ TurnRx(s)
  PROVE  HandoverInv'
<1>1. PICK dir \in {"tx", "rx"} : Turn(s, dir) /\ pc[s] = (IF dir = "tx" THEN "turn_tx" ELSE "turn_rx")
  BY DEF TurnTx, TurnRx
<1> DEFINE e == x[s]
           w == Which(s, dir)
           kt == ktx[s]
           kr == krx[s]
<1>2. PICK outcome \in {"ok", "expand", "fill"} :
        LET f == NextKey(e, w, outcome)
            installs == outcome = "ok" /\ HandsOver(f)
            blob == CryptoInfo(f, s, dir)
        IN  /\ x' = [x EXCEPT ![s] = f]
            /\ ktx' = IF installs /\ dir = "tx" THEN [ktx EXCEPT ![s] = blob] ELSE ktx
            /\ krx' = IF installs /\ dir = "rx" THEN [krx EXCEPT ![s] = blob] ELSE krx
            /\ pc' = [pc EXCEPT ![s] = IF installs THEN "live" ELSE "closed"]
  <2>1. {"ok"} \union (MayFail \intersect {"expand", "fill"}) \subseteq {"ok", "expand", "fill"}
    OBVIOUS
  <2> QED BY <1>1, <2>1 DEF Turn, Goto
<1> DEFINE f == NextKey(e, w, outcome)
           k2 == IF dir = "tx" /\ pc'[s] = "live" THEN [key |-> kt.key + 1, seq |-> 0] ELSE kt
           r2 == IF dir = "rx" /\ pc'[s] = "live" THEN [key |-> kr.key + 1, seq |-> 0] ELSE kr
<1>3. /\ w \in Side /\ e \in ExchangeType /\ Peer(s) \in Side /\ Peer(s) # s
      /\ kt \in Nonce /\ kr \in Nonce /\ Len(stream[s]) \in Nat
      /\ UNCHANGED <<stream, wrote, read, got, ended>>
  BY <1>1, Here, Sides DEF Which, Turn, told
<1>4. /\ f \in ExchangeType
      /\ f.ssl = e.ssl /\ f.done = e.done /\ f.stage = e.stage
      /\ f.fed = e.fed /\ f.eaten = e.eaten /\ f.made = e.made /\ f.taken = e.taken
      /\ f.tx_at_done = e.tx_at_done /\ f.rx_at_done = e.rx_at_done
      /\ outcome = "ok" => /\ f.secret[w] = e.secret[w] + 1 /\ f.info[w] = e.secret[w] + 1
                           /\ f.rekeyed[w]
      /\ \A v \in Side : v # w => f.secret[v] = e.secret[v] /\ f.info[v] = e.info[v]
  <2>1. e \in ExchangeType /\ w \in Side
    BY <1>3
  <2> HIDE DEF e, w
  <2> QED BY <2>1, NextKeyIs
<1>5. x' = [x EXCEPT ![s] = f]
  BY <1>2
<1> HIDE DEF f
<1>6. /\ kt # NoKey /\ e.secret[s] = kt.key /\ e.info[s] = kt.key
      /\ e.done /\ e.taken = e.made /\ e.made <= U * Len(stream[s]) /\ wrote[s] = U * Len(stream[s])
      /\ kt.key \in 1 .. MaxKey
      /\ dir = "tx" => /\ NonceAfter(stream[s], Len(stream[s])) = [key |-> kt.key + 1, seq |-> 0]
                       /\ kt.key < MaxKey
      /\ dir = "rx" => kt = NonceAfter(stream[s], Len(stream[s]))
  <2>1. Sending(s, e, stream[s], pc[s], wrote[s], kt)
    BY Here
  <2> QED BY <1>1, <2>1 DEF Sending, Kernels
<1>7. /\ kr # NoKey /\ kr.key = e.secret[Peer(s)] /\ kr.key = e.info[Peer(s)] /\ e.fed <= read[s]
      /\ kr.key \in 1 .. MaxKey + 1 /\ (dir = "rx" => kr.key <= MaxKey)
  <2>1. Calling(s, e, pc[s], read[s], kt, kr)
    BY Here
  <2> QED BY <1>1, <2>1 DEF Calling, Kernels
<1>8. /\ pc'[s] \in {"live", "closed"} /\ (pc'[s] = "live" => outcome = "ok")
      /\ ktx' = [ktx EXCEPT ![s] = k2] /\ krx' = [krx EXCEPT ![s] = r2]
      /\ pc' = [pc EXCEPT ![s] = pc'[s]]
  <2>1. ASSUME outcome = "ok"
        PROVE  CryptoInfo(f, s, dir) = [key |-> e.secret[w] + 1, seq |-> 0]
    BY <1>4, <2>1 DEF CryptoInfo, RecordSequence, Which
  <2>2. /\ pc \in [Side -> Before \union Offered \union {"submit", "closed"} \union Kernels]
        /\ ktx \in [Side -> Nonce] /\ krx \in [Side -> Nonce]
    BY DEF HandoverInv, Types
  <2>3. CASE outcome = "ok" /\ HandsOver(f)
    <3>1. pc'[s] = "live" /\ pc' = [pc EXCEPT ![s] = pc'[s]]
      BY <1>2, <2>2, <2>3 DEF f
    <3>2. CASE dir = "tx"
      <4>1. w = s
        BY <3>2 DEF Which
      <4>2. ktx' = [ktx EXCEPT ![s] = [key |-> kt.key + 1, seq |-> 0]] /\ krx' = krx
        BY <1>2, <1>6, <2>1, <2>3, <3>2, <4>1 DEF f
      <4> QED BY <2>2, <2>3, <3>1, <3>2, <4>2
    <3>3. CASE dir = "rx"
      <4>1. w = Peer(s)
        BY <3>3 DEF Which
      <4>2. krx' = [krx EXCEPT ![s] = [key |-> kr.key + 1, seq |-> 0]] /\ ktx' = ktx
        BY <1>2, <1>7, <2>1, <2>3, <3>3, <4>1 DEF f
      <4> QED BY <2>2, <2>3, <3>1, <3>3, <4>2
    <3> QED BY <3>2, <3>3
  <2>4. CASE ~(outcome = "ok" /\ HandsOver(f))
    BY <1>2, <2>2, <2>4 DEF f
  <2> QED BY <2>3, <2>4
<1>9. k2 \in Nonce /\ r2 \in Nonce /\ k2 # NoKey /\ r2 # NoKey
      /\ k2.key \in 1 .. MaxKey /\ r2.key \in 1 .. MaxKey + 1
  <2>1. /\ kt.key \in Nat /\ kr.key \in Nat /\ NoKey.key = 0
        /\ \A n \in Nat : LET m == [key |-> n + 1, seq |-> 0]
                          IN  m \in Nonce /\ m.key = n + 1
    BY <1>3 DEF Nonce, NoKey
  <2>2. k2 \in Nonce /\ k2.key \in 1 .. MaxKey
    <3>1. CASE dir = "tx" /\ pc'[s] = "live"
      <4>1. k2 = [key |-> kt.key + 1, seq |-> 0]
        BY <3>1
      <4> QED BY <1>6, <2>1, <3>1, <4>1, HandoverAssumption
    <3>2. CASE ~(dir = "tx" /\ pc'[s] = "live")
      BY <1>3, <1>6, <3>2
    <3> QED BY <3>1, <3>2
  <2>3. r2 \in Nonce /\ r2.key \in 1 .. MaxKey + 1
    <3>1. CASE dir = "rx" /\ pc'[s] = "live"
      <4>1. r2 = [key |-> kr.key + 1, seq |-> 0]
        BY <3>1
      <4> QED BY <1>7, <2>1, <3>1, <4>1, HandoverAssumption
    <3>2. CASE ~(dir = "rx" /\ pc'[s] = "live")
      BY <1>3, <1>7, <3>2
    <3> QED BY <3>1, <3>2
  <2> HIDE DEF k2, r2
  <2> QED BY <2>1, <2>2, <2>3, HandoverAssumption
<1>10. pc'[s] = "live" =>
         /\ f.secret[s] = k2.key /\ f.info[s] = k2.key
         /\ f.secret[Peer(s)] = r2.key /\ f.info[Peer(s)] = r2.key
         /\ k2 = NonceAfter(stream[s], Len(stream[s]))
  <2> SUFFICES ASSUME pc'[s] = "live"
               PROVE  /\ f.secret[s] = k2.key /\ f.info[s] = k2.key
                      /\ f.secret[Peer(s)] = r2.key /\ f.info[Peer(s)] = r2.key
                      /\ k2 = NonceAfter(stream[s], Len(stream[s]))
    OBVIOUS
  <2>1. CASE dir = "tx"
    <3>1. w = s /\ outcome = "ok" /\ k2 = [key |-> kt.key + 1, seq |-> 0] /\ r2 = kr
      BY <1>8, <2>1 DEF Which
    <3>2. f.secret[s] = kt.key + 1 /\ f.info[s] = kt.key + 1
      BY <1>4, <1>6, <3>1
    <3>3. f.secret[Peer(s)] = kr.key /\ f.info[Peer(s)] = kr.key
      BY <1>3, <1>4, <1>7, <3>1
    <3>4. k2 = NonceAfter(stream[s], Len(stream[s]))
      BY <1>6, <2>1, <3>1
    <3> QED BY <3>1, <3>2, <3>3, <3>4
  <2>2. CASE dir = "rx"
    <3>1. w = Peer(s) /\ outcome = "ok" /\ r2 = [key |-> kr.key + 1, seq |-> 0] /\ k2 = kt
      BY <1>8, <2>2 DEF Which
    <3>2. f.secret[Peer(s)] = kr.key + 1 /\ f.info[Peer(s)] = kr.key + 1
      BY <1>4, <1>7, <3>1
    <3>3. f.secret[s] = kt.key /\ f.info[s] = kt.key
      BY <1>3, <1>4, <1>6, <3>1
    <3>4. k2 = NonceAfter(stream[s], Len(stream[s]))
      BY <1>6, <2>2, <3>1
    <3> QED BY <3>1, <3>2, <3>3, <3>4
  <2> QED BY <2>1, <2>2
<1> HIDE DEF k2, r2
<1>11. Sending(s, f, stream[s], pc'[s], wrote[s], k2)
  BY <1>4, <1>6, <1>8, <1>9, <1>10 DEF Sending, Before, Offered, Kernels
<1>12. Calling(s, f, pc'[s], read[s], k2, r2)
  BY <1>4, <1>6, <1>7, <1>8, <1>9, <1>10 DEF Calling, Before, Offered, Kernels
<1>13. Pace(s, f)
  <2>1. Pace(s, e)
    BY Here
  <2> QED BY <1>4, <2>1 DEF Pace
<1>14. Local(s, f, stream[s], pc'[s], wrote[s], read[s], k2, r2)
  BY <1>11, <1>12, <1>13, Here DEF Local
<1>15. /\ x'[s] = f /\ ktx'[s] = k2 /\ krx'[s] = r2 /\ Moves(s)
  BY <1>3, <1>5, <1>8 DEF HandoverInv, Types, Moves
<1>16. pc'[s] \in Before \union Offered \union {"submit", "closed"} \union Kernels
  BY <1>8 DEF Kernels
<1>17. wrote[s] <= wrote[s] /\ read[s] <= wrote[Peer(s)]
  BY Here
<1> QED BY <1>3, <1>4, <1>9, <1>14, <1>15, <1>16, <1>17, Here, OneMoves

-----------------------------------------------------------------------------
(* Two exchanges just opened.                                              *)
LEMMA InitHolds ==
  Init => HandoverInv
<1> SUFFICES ASSUME Init PROVE HandoverInv
  OBVIOUS
<1> USE ExchangeAssumption, HandoverAssumption
<1>1. Opened \in ExchangeType
  BY DEF Opened, ExchangeType, Stages
<1>2. /\ x = [s \in Side |-> Opened] /\ stream = [s \in Side |-> <<>>]
      /\ pc = [s \in Side |-> "step"] /\ wrote = [s \in Side |-> 0] /\ read = [s \in Side |-> 0]
      /\ ktx = [s \in Side |-> NoKey] /\ krx = [s \in Side |-> NoKey]
      /\ got = [s \in Side |-> <<>>] /\ ended = [s \in Side |-> "open"]
  BY DEF Init, ExchangeInit
<1>3. NoKey \in Nonce /\ <<>> \in Seq(Record) /\ <<>> \in Seq(Nat) /\ "step" \in Before
  BY DEF NoKey, Nonce, Before
<1>4. Types
  BY <1>1, <1>2, <1>3 DEF Types
<1>5. ASSUME NEW s \in Side
      PROVE  Local(s, Opened, <<>>, "step", 0, 0, NoKey, NoKey)
  <2>1. /\ Opened.ssl /\ ~Opened.done /\ Opened.stage = "hello" /\ Opened.fed = 0
        /\ Opened.eaten = 0 /\ Opened.made = 0 /\ Opened.taken = 0
        /\ \A w \in Side : ~Opened.rekeyed[w]
    BY DEF Opened
  <2>2. Pace(s, Opened)
    BY <2>1 DEF Pace, Written, U
  <2>3. Sealed(s, <<>>) /\ OnlyTickets(s, <<>>)
    BY DEF Sealed, OnlyTickets, Own
  <2>4. Fresh(Opened)
    BY <2>1 DEF Fresh
  <2>5. Sending(s, Opened, <<>>, "step", 0, NoKey)
    BY <2>1, <2>3 DEF Sending, Before, Offered, Kernels, U
  <2>6. Calling(s, Opened, "step", 0, NoKey, NoKey)
    BY <2>1, <2>4 DEF Calling, Before, Offered, Kernels
  <2> QED BY <2>2, <2>3, <2>5, <2>6 DEF Local
<1>6. \A s \in Side :
       /\ Local(s, x[s], stream[s], pc[s], wrote[s], read[s], ktx[s], krx[s])
       /\ read[s] <= wrote[Peer(s)]
  BY <1>2, <1>5, Sides
<1> QED BY <1>4, <1>6 DEF HandoverInv

(* Every step of either end, or of the network between them.               *)
LEMMA NextKeeps ==
  ASSUME "unchecked" \notin Habits, HandoverInv, [Next]_vars
  PROVE  HandoverInv'
<1>1. CASE UNCHANGED vars
  <2>1. UNCHANGED <<x, stream, pc, wrote, read, ktx, krx, got, ended>>
    BY <1>1 DEF vars, kernel, told
  <2> QED BY <2>1 DEF HandoverInv, Types
<1>2. ASSUME NEW s \in Side, Progress(s) \/ SubmitTx(s) \/ CallStepFails(s) \/ CallRelease(s)
               \/ Die(s) \/ SendData(s) \/ SendKeyUpdate(s) \/ SendClose(s)
      PROVE  HandoverInv'
  <2>1. CASE CallStep(s) BY <2>1, CallStepKeeps
  <2>2. CASE CallTake(s) BY <2>2, TakeKeeps
  <2>3. CASE CallFeed(s) BY <2>3, FeedKeeps
  <2>4. CASE CallBacklog(s) BY <2>4, BacklogKeeps
  <2>5. CASE CallOffload(s) \/ SubmitTx(s) BY <2>5, OffloadKeeps
  <2>6. CASE SubmitRx(s) BY <2>6, SubmitRxKeeps
  <2>7. CASE Eof(s) \/ Die(s) \/ Close(s) \/ Rejects(s) BY <2>7, CloserKeeps
  <2>8. CASE TurnTx(s) \/ TurnRx(s) BY <2>8, TurnsKeep
  <2>9. CASE Receive(s) BY <2>9, ReceiveKeeps
  <2>10. CASE CallStepFails(s) BY <2>10, CallStepFailsKeeps
  <2>11. CASE CallRelease(s) BY <2>11, ReleaseKeeps
  <2>12. CASE SendData(s) \/ SendKeyUpdate(s) \/ SendClose(s) BY <2>12, SendsKeep
  <2> QED BY <1>2, <2>1, <2>2, <2>3, <2>4, <2>5, <2>6, <2>7, <2>8, <2>9, <2>10, <2>11, <2>12
             DEF Progress
<1> QED BY <1>1, <1>2 DEF Next

(* The invariant: a caller that minds the answer of ktls_next_key.         *)
THEOREM HandoverInvariant ==
  ASSUME "unchecked" \notin Habits
  PROVE  Spec => []HandoverInv
<1>1. HandoverInv /\ [Next]_vars => HandoverInv'
  BY NextKeeps
<1> QED BY <1>1, InitHolds, PTL DEF Spec

(* The counters of either end keep their order: nothing is read before it  *)
(* was fed, fed before the peer sent it, taken before OpenSSL wrote it,    *)
(* and no key is turned past its bound.                                    *)
THEOREM TypeCorrect ==
  ASSUME "unchecked" \notin Habits
  PROVE  Spec => []TypeOK
<1>1. HandoverInv => TypeOK
  <2> SUFFICES ASSUME HandoverInv PROVE TypeOK
    OBVIOUS
  <2>1. /\ pc \in [Side -> {"step", "take", "read", "drain", "offload", "submit", "live",
                      "turn_tx", "turn_rx", "closed"}]
        /\ wrote \in [Side -> Nat] /\ read \in [Side -> Nat]
    <3>1. Before \union Offered \union {"submit", "closed"} \union Kernels
            = {"step", "take", "read", "drain", "offload", "submit", "live",
               "turn_tx", "turn_rx", "closed"}
      BY DEF Before, Offered, Kernels
    <3> QED BY <3>1 DEF HandoverInv, Types
  <2>2. ASSUME NEW s \in Side
        PROVE  /\ x[s].eaten <= x[s].fed /\ x[s].fed <= wrote[Peer(s)]
               /\ x[s].taken <= x[s].made /\ x[s].taken <= wrote[s]
               /\ read[s] >= x[s].fed
               /\ ktx[s].key \in 0 .. MaxKey + 1 /\ krx[s].key \in 0 .. MaxKey + 1
    <3>1. /\ x[s] \in ExchangeType /\ read[s] \in Nat /\ wrote[s] \in Nat /\ wrote[Peer(s)] \in Nat
          /\ Pace(s, x[s]) /\ read[s] <= wrote[Peer(s)] /\ Len(stream[s]) \in Nat
      BY Here
    <3>2. x[s].fed \in Nat /\ x[s].taken \in Nat /\ x[s].made \in Nat
      BY <3>1 DEF ExchangeType
    <3>3. /\ x[s].eaten <= x[s].fed /\ x[s].taken <= x[s].made
      BY <3>1 DEF Pace
    <3>4. /\ krx[s].key \in 0 .. MaxKey + 1 /\ x[s].fed <= read[s]
      <4>1. Calling(s, x[s], pc[s], read[s], ktx[s], krx[s])
        BY Here
      <4> QED BY <4>1, HandoverAssumption DEF Calling, NoKey
    <3>5. /\ ktx[s].key \in 0 .. MaxKey + 1
          /\ ktx[s] = NoKey => wrote[s] = x[s].taken
          /\ ktx[s] # NoKey => x[s].taken <= U * Len(stream[s]) /\ wrote[s] = U * Len(stream[s])
      <4>1. Sending(s, x[s], stream[s], pc[s], wrote[s], ktx[s])
        BY Here
      <4> QED BY <4>1, HandoverAssumption DEF Sending, NoKey
    <3>6. x[s].taken <= wrote[s]
      BY <3>1, <3>2, <3>5
    <3> QED BY <3>1, <3>2, <3>3, <3>4, <3>5, <3>6
  <2> QED BY <2>1, <2>2 DEF TypeOK
<1> QED BY <1>1, HandoverInvariant, PTL

(* No sequence number is skipped or used twice across the handover and     *)
(* across every KeyUpdate, whichever of the habits the callers have but    *)
(* ignoring a failed ktls_next_key, and whatever of MayFail fails          *)
(* (ktls_crypto_info TX, ktls_next_key).  The callers send a KeyUpdate     *)
(* before they turn a key, and retry a failed step at once or not at all.  *)
THEOREM TxNeverSkips ==
  ASSUME "unchecked" \notin Habits
  PROVE  Spec => []TxContinues
<1>1. HandoverInv => TxContinues
  <2> SUFFICES ASSUME HandoverInv, NEW s \in Side, NEW i \in DOMAIN stream[s],
                      stream[s][i].key > 0
               PROVE  [key |-> stream[s][i].key, seq |-> stream[s][i].seq]
                        = NonceAfter(stream[s], i - 1)
    BY DEF TxContinues
  <2>1. /\ Sealed(s, stream[s]) /\ stream[s] \in Seq(Record) /\ i \in 1 .. Len(stream[s])
        /\ Len(stream[s]) \in Nat /\ Own(s) \in Nat
    BY Here, ExchangeAssumption DEF Own
  <2>2. /\ stream[s][i].key = NonceAfter(stream[s], i - 1).key
        /\ stream[s][i].seq = NonceAfter(stream[s], i - 1).seq
    BY <2>1 DEF Sealed
  <2>3. NonceAfter(stream[s], i - 1) =
          [key |-> NonceAfter(stream[s], i - 1).key, seq |-> NonceAfter(stream[s], i - 1).seq]
    BY DEF NonceAfter
  <2> QED BY <2>2, <2>3
<1> QED BY <1>1, HandoverInvariant, PTL

(* Neither counter of either end has seen more records than it can hold.   *)
NoneOverflowed ==
  \A s \in Side : ~Overflowed(x[s].taken) /\ ~Overflowed(x[s].fed)

(* The application records within the first cells of a stream are those    *)
(* after its handshake part.                                               *)
LEMMA AppRecordsAre ==
  ASSUME NEW s \in Side, NEW st, st \in Seq(Record), Sealed(s, st), NEW cells, cells \in Nat,
         cells <= U * Len(st)
  PROVE  AppRecords(st, cells) = Cardinality(Own(s) + 1 .. cells \div U)
<1> DEFINE S == {i \in 1 .. cells \div U : st[i].key > 0}
<1>1. Own(s) \in Nat \ {0} /\ Len(st) \in Nat
  BY ExchangeAssumption DEF Own
<1>2. cells \div U \in Nat /\ cells \div U <= Len(st)
  BY <1>1 DEF U
<1> DEFINE m == cells \div U
<1> HIDE DEF m
<1>3. m \in Nat /\ m <= Len(st)
  BY <1>2 DEF m
<1>4. S = Own(s) + 1 .. m
  <2>1. ASSUME NEW i \in 1 .. m
        PROVE  st[i].key > 0 <=> i > Own(s)
    <3>1. i \in 1 .. Len(st) /\ i \in Nat
      BY <1>1, <1>3
    <3>2. CASE i <= Own(s)
      <4>1. st[i].key = 0
        BY <3>1, <3>2 DEF Sealed
      <4> QED BY <1>1, <3>1, <3>2, <4>1
    <3>3. CASE i > Own(s)
      <4>1. st[i].key >= 1 /\ st[i] \in Record
        BY <3>1, <3>3 DEF Sealed
      <4> QED BY <3>3, <4>1 DEF Record
    <3> QED BY <1>1, <3>1, <3>2, <3>3
  <2>2. S = {i \in 1 .. m : st[i].key > 0}
    BY DEF m
  <2> QED BY <1>1, <1>3, <2>1, <2>2
<1> QED BY <1>4 DEF AppRecords, m

(* ktls_record_sequence counts exactly the application records taken, or   *)
(* read, as long as no counter has overflowed.                             *)
THEOREM SequenceCounts ==
  ASSUME "unchecked" \notin Habits
  PROVE  Spec => [](NoneOverflowed => SequenceTrue)
<1>1. HandoverInv => (NoneOverflowed => SequenceTrue)
  <2> SUFFICES ASSUME HandoverInv, NoneOverflowed, NEW s \in Side, x[s].done, x[s].ssl
               PROVE  /\ ~x[s].rekeyed[s] =>
                           RecordSequence(x[s], s, "tx") = AppRecords(stream[s], x[s].taken)
                      /\ ~x[s].rekeyed[Peer(s)] =>
                           RecordSequence(x[s], s, "rx") = AppRecords(stream[Peer(s)], x[s].eaten)
    BY DEF SequenceTrue
  <2> DEFINE e == x[s]
             t == Peer(s)
  <2>1. /\ e \in ExchangeType /\ t \in Side /\ stream[s] \in Seq(Record) /\ stream[t] \in Seq(Record)
        /\ Sealed(s, stream[s]) /\ Sealed(t, stream[t]) /\ Own(s) \in Nat /\ Own(t) \in Nat
    BY Sides, Here, ExchangeAssumption DEF Own
  <2>2. /\ e.taken \in Nat /\ e.eaten \in Nat /\ e.fed \in Nat /\ e.eaten <= e.fed
        /\ e.made \in Nat /\ e.taken <= e.made
        /\ e.tx_at_done = U * Own(s) /\ e.rx_at_done = U * Own(t)
    <3>1. Pace(s, e)
      BY Here
    <3> QED BY <2>1, <3>1 DEF Pace, ExchangeType
  <2>3. e.taken <= U * Len(stream[s]) /\ e.eaten <= U * Len(stream[t])
    <3>1. Calling(s, e, pc[s], read[s], ktx[s], krx[s])
      BY Here
    <3>2. e.fed <= read[s] /\ read[s] <= wrote[t] /\ wrote[t] <= U * Len(stream[t])
      BY <2>1, <3>1, Here, WroteRecords DEF Calling
    <3>3. e.made <= U * Len(stream[s])
      <4>1. Sending(s, e, stream[s], pc[s], wrote[s], ktx[s])
        BY Here
      <4>2. CASE ktx[s] = NoKey
        BY <2>2, <4>1, <4>2 DEF Sending
      <4>3. CASE ktx[s] # NoKey
        BY <4>1, <4>3 DEF Sending
      <4> QED BY <4>2, <4>3
    <3>4. read[s] \in Nat /\ wrote[t] \in Nat /\ Len(stream[s]) \in Nat /\ Len(stream[t]) \in Nat
      BY <2>1, Here
    <3> DEFINE m == U * Len(stream[s])
               n == U * Len(stream[t])
    <3>5. m \in Nat /\ n \in Nat /\ e.made <= m /\ wrote[t] <= n
      BY <3>2, <3>3, <3>4 DEF U
    <3> HIDE DEF m, n
    <3>6. e.taken <= m
      BY <2>2, <3>5
    <3>7. e.eaten <= n
      BY <2>2, <3>2, <3>4, <3>5
    <3> QED BY <3>6, <3>7 DEF m, n
  <2>4. ~Overflowed(e.taken) /\ ~Overflowed(e.fed)
    BY DEF NoneOverflowed
  <2>5. ASSUME ~e.rekeyed[s]
        PROVE  RecordSequence(e, s, "tx") = AppRecords(stream[s], e.taken)
    <3>1. RecordSequence(e, s, "tx") = RecordsBetween(e.taken, U * Own(s), e.taken)
      BY <2>2, <2>5 DEF RecordSequence, Which
    <3>2. RecordsBetween(e.taken, U * Own(s), e.taken) = Cardinality(Own(s) + 1 .. e.taken \div U)
      BY <2>1, <2>2, <2>4, BetweenCounts
    <3> QED BY <2>1, <2>2, <2>3, <3>1, <3>2, AppRecordsAre
  <2>6. ASSUME ~e.rekeyed[t]
        PROVE  RecordSequence(e, s, "rx") = AppRecords(stream[t], e.eaten)
    <3>1. Consumed(e) = e.eaten
      BY <2>2 DEF Consumed, InPending
    <3>2. RecordSequence(e, s, "rx") = RecordsBetween(e.fed, U * Own(t), e.eaten)
      BY <2>2, <2>6, <3>1 DEF RecordSequence, Which
    <3>3. RecordsBetween(e.fed, U * Own(t), e.eaten) = Cardinality(Own(t) + 1 .. e.eaten \div U)
      BY <2>1, <2>2, <2>4, BetweenCounts
    <3> QED BY <2>1, <2>2, <2>3, <3>2, <3>3, AppRecordsAre
  <2> QED BY <2>5, <2>6
<1> QED BY <1>1, HandoverInvariant, PTL
=============================================================================
