-------------------------- MODULE HandoverRxProofs --------------------------
(***************************************************************************)
(* The reading half of the handover, which rests on what the callers do:   *)
(* empty backlog() and stop on a record boundary before they hand over,    *)
(* turn no key before the peer has handed over, and answer a KeyUpdate,    *)
(* nothing else, with ktls_next_key.  Without any one of these habits TLC  *)
(* finds RxContinues violated.                                             *)
(***************************************************************************)
EXTENDS HandoverPipeProofs

Careful ==
  /\ {"drains", "aligns"} \subseteq Habits
  /\ Habits \intersect {"eager", "ticketturns", "unchecked"} = {}

(* Nothing that was fed is left in OpenSSL once a caller goes to hand over. *)
Gone == {"offload", "submit"} \union Kernels
Drained == \A s \in Side : pc[s] \in Gone => x[s].eaten = x[s].fed

(* What was fed ends on a record boundary; the kernel stands on one, and   *)
(* expects the record that is there, or will once its key is turned.       *)
Standing(e, p, r, kr, st) ==
  /\ p \in Gone => e.fed % U = 0
  /\ p \in {"live", "turn_tx"} => r % U = 0 /\ kr = NonceAfter(st, r \div U)
  /\ p = "turn_rx" => r % U = 0 /\ NonceAfter(st, r \div U) = [key |-> kr.key + 1, seq |-> 0]

(* A peer that has not handed over is sent nothing but the first key.      *)
FirstKey(s, kr, st) ==
  kr = NoKey => \A i \in Own(s) + 1 .. Len(st) : st[i].kind # "ku" /\ st[i].key = 1

RxInv ==
  \A s \in Side :
    /\ Standing(x[s], pc[s], read[s], krx[s], stream[Peer(s)])
    /\ FirstKey(Peer(s), krx[s], stream[Peer(s)])

-----------------------------------------------------------------------------
(* A caller still in its loop, or gone: it neither hands over nor touches  *)
(* what a kernel reads.                                                    *)
LEMMA AwayIs ==
  ASSUME HandoverInv, NEW s \in Side,
         CallTake(s) \/ CallFeed(s) \/ Eof(s) \/ Die(s) \/ Close(s) \/ Rejects(s)
  PROVE  Moves(s) /\ pc'[s] \notin Gone /\ UNCHANGED <<stream, krx>>
<1> DEFINE e == x[s]
<1>1. CASE CallTake(s)
  <2>1. PICK n : /\ x' = [x EXCEPT ![s] = [e EXCEPT !.taken = e.taken + n]]
                 /\ wrote' = [wrote EXCEPT ![s] = wrote[s] + n]
    BY <1>1 DEF CallTake, Take
  <2>2. pc' = [pc EXCEPT ![s] = "step"] /\ UNCHANGED <<stream, read, ktx, krx, got, ended>>
    BY <1>1 DEF CallTake, Take, Goto, kernel, told
  <2> QED BY <2>1, <2>2 DEF Moves, HandoverInv, Types, Gone, Kernels
<1>2. CASE CallFeed(s)
  <2>1. PICK n : /\ x' = [x EXCEPT ![s] = [e EXCEPT !.fed = e.fed + n]]
                 /\ read' = [read EXCEPT ![s] = read[s] + n]
    BY <1>2 DEF CallFeed, Feed
  <2>2. PICK q \in {"step", "drain"} : pc' = [pc EXCEPT ![s] = q]
    BY <1>2 DEF CallFeed, Goto
  <2>3. UNCHANGED <<stream, wrote, ktx, krx, got, ended>>
    BY <1>2 DEF CallFeed, Feed, kernel, told
  <2> QED BY <2>1, <2>2, <2>3 DEF Moves, HandoverInv, Types, Gone, Kernels
<1>3. CASE Eof(s)
  <2>1. PICK how : ended' = [ended EXCEPT ![s] = how]
    BY <1>3 DEF Eof
  <2>2. pc' = [pc EXCEPT ![s] = "closed"] /\ UNCHANGED <<x, stream, wrote, read, ktx, krx, got>>
    BY <1>3 DEF Eof, Goto, kernel
  <2> QED BY <2>1, <2>2 DEF Moves, HandoverInv, Types, Gone, Kernels
<1>4. CASE Die(s) \/ Close(s) \/ Rejects(s)
  <2>1. /\ pc' = [pc EXCEPT ![s] = "closed"]
        /\ UNCHANGED <<x, stream, wrote, read, ktx, krx, got, ended>>
    BY <1>4 DEF Die, Close, Rejects, Goto, kernel, told
  <2> QED BY <2>1 DEF Moves, HandoverInv, Types, Gone, Kernels
<1> QED BY <1>1, <1>2, <1>3, <1>4

(* backlog() goes on, or the caller has read all it was fed and goes to    *)
(* hand over; which it does at once if it is not one that drains.          *)
LEMMA BacklogIs ==
  ASSUME HandoverInv, "drains" \in Habits, NEW s \in Side, CallBacklog(s)
  PROVE  /\ Moves(s) /\ UNCHANGED <<stream, krx>> /\ pc[s] = "drain"
         /\ \/ pc'[s] = "drain"
            \/ /\ pc'[s] = "offload" /\ x'[s].eaten = x'[s].fed /\ x'[s].fed = x[s].fed
               /\ ~MustAlign(s)
<1> DEFINE e == x[s]
<1>1. /\ pc[s] = "drain" /\ ~MustAlign(s) /\ UNCHANGED <<stream, wrote, read, ktx, krx, ended>>
  BY DEF CallBacklog, BacklogReads, BacklogEmpty, kernel
<1>2. e \in ExchangeType
  BY Here
<1>3. ASSUME NEW i \in DataWaiting(s), BacklogReads(s, i),
             got' = [got EXCEPT ![s] = Append(@, Number(Peer(s), i))],
             Goto(s, IF "drains" \in Habits THEN "drain" ELSE "offload")
      PROVE  Moves(s) /\ pc'[s] = "drain"
  <2>1. x' = [x EXCEPT ![s] = [e EXCEPT !.eaten = i * U]] /\ pc' = [pc EXCEPT ![s] = "drain"]
    BY <1>3 DEF BacklogReads, Goto
  <2> QED BY <1>1, <1>3, <2>1 DEF Moves, HandoverInv, Types
<1>4. ASSUME BacklogEmpty(s), Goto(s, "offload"), UNCHANGED got
      PROVE  /\ Moves(s) /\ pc'[s] = "offload"
             /\ x'[s].eaten = x'[s].fed /\ x'[s].fed = e.fed
  <2>1. /\ x' = [x EXCEPT ![s] = [e EXCEPT !.eaten = e.fed]] /\ pc' = [pc EXCEPT ![s] = "offload"]
    BY <1>4 DEF BacklogEmpty, Pulled, Goto
  <2>2. x'[s] = [e EXCEPT !.eaten = e.fed] /\ pc'[s] = "offload" /\ Moves(s)
    BY <1>1, <1>4, <2>1 DEF Moves, HandoverInv, Types
  <2>3. x'[s].eaten = e.fed /\ x'[s].fed = e.fed
    BY <1>2, <2>2 DEF ExchangeType
  <2> QED BY <2>2, <2>3
<1> QED BY <1>1, <1>3, <1>4 DEF CallBacklog

(* From there on neither side of the exchange's own buffers moves.         *)
LEMMA GoneIs ==
  ASSUME HandoverInv, "unchecked" \notin Habits, NEW s \in Side,
         \/ CallOffload(s) \/ SubmitTx(s) \/ SubmitRx(s) \/ CallRelease(s)
         \/ SendData(s) \/ SendKeyUpdate(s) \/ SendClose(s)
         \/ Receive(s) \/ TurnTx(s) \/ TurnRx(s)
  PROVE  /\ Moves(s) /\ pc[s] \in Gone
         /\ x'[s].eaten = x[s].eaten /\ x'[s].fed = x[s].fed
<1> DEFINE e == x[s]
<1>1. CASE CallOffload(s) \/ SubmitTx(s) \/ SubmitRx(s)
  <2>1. pc[s] \in Gone /\ UNCHANGED <<x, stream, wrote, read, got, ended>>
    BY <1>1 DEF CallOffload, SubmitTx, SubmitRx, told, Gone
  <2>2. PICK q : pc' = [pc EXCEPT ![s] = q]
    BY <1>1 DEF CallOffload, OffloadInstalls, OffloadRefuses, OffloadHalves, SubmitTx, SubmitRx, Goto
  <2>3. ktx' = ktx \/ \E k : ktx' = [ktx EXCEPT ![s] = k]
    BY <1>1 DEF CallOffload, OffloadInstalls, OffloadRefuses, OffloadHalves, SubmitTx, SubmitRx, kernel
  <2>4. krx' = krx \/ \E k : krx' = [krx EXCEPT ![s] = k]
    BY <1>1 DEF CallOffload, OffloadInstalls, OffloadRefuses, OffloadHalves, SubmitTx, SubmitRx, kernel
  <2>5. ktx' = [ktx EXCEPT ![s] = ktx'[s]]
    BY <2>3 DEF HandoverInv, Types
  <2>6. krx' = [krx EXCEPT ![s] = krx'[s]]
    BY <2>4 DEF HandoverInv, Types
  <2> QED BY <2>1, <2>2, <2>5, <2>6 DEF Moves, HandoverInv, Types
<1>2. CASE CallRelease(s)
  <2>1. /\ pc[s] = "live" /\ x' = [x EXCEPT ![s] = [e EXCEPT !.ssl = FALSE]]
        /\ UNCHANGED <<stream, pc, wrote, read, ktx, krx, got, ended>>
    BY <1>2 DEF CallRelease, Release, kernel, told
  <2>2. Moves(s) /\ x'[s] = [e EXCEPT !.ssl = FALSE]
    BY <2>1 DEF Moves, HandoverInv, Types
  <2>3. e \in ExchangeType
    BY Here
  <2> QED BY <2>1, <2>2, <2>3 DEF ExchangeType, Gone, Kernels
<1>3. CASE SendData(s) \/ SendKeyUpdate(s) \/ SendClose(s)
  <2>1. pc[s] \in Gone /\ UNCHANGED <<x, read, krx, got, ended>>
    BY <1>3 DEF SendData, SendKeyUpdate, SendClose, told, Gone, Kernels
  <2>2. pc' = pc \/ \E q : pc' = [pc EXCEPT ![s] = q]
    BY <1>3 DEF SendData, SendKeyUpdate, SendClose, Goto
  <2>3. /\ stream' = [stream EXCEPT ![s] = stream'[s]] /\ ktx' = [ktx EXCEPT ![s] = ktx'[s]]
        /\ wrote' = [wrote EXCEPT ![s] = wrote'[s]]
    BY <1>3 DEF SendData, SendKeyUpdate, SendClose, Seal, HandoverInv, Types
  <2>4. pc' = [pc EXCEPT ![s] = pc'[s]]
    BY <2>2 DEF HandoverInv, Types
  <2> QED BY <2>1, <2>3, <2>4 DEF Moves, HandoverInv, Types
<1>4. CASE Receive(s)
  <2>1. /\ pc[s] \in Gone /\ UNCHANGED <<x, stream, wrote, ktx>>
    BY <1>4 DEF Receive, Gone, Kernels
  <2>2. /\ \E v : pc' = [pc EXCEPT ![s] = v]
        /\ \E v : got' = [got EXCEPT ![s] = v]
        /\ \E v : ended' = [ended EXCEPT ![s] = v]
        /\ \E v : read' = [read EXCEPT ![s] = v]
        /\ krx' = [krx EXCEPT ![s] = [krx[s] EXCEPT !.seq = krx[s].seq + 1]]
    BY <1>4 DEF Receive, Goto
  <2>3. /\ pc' = [pc EXCEPT ![s] = pc'[s]] /\ got' = [got EXCEPT ![s] = got'[s]]
        /\ ended' = [ended EXCEPT ![s] = ended'[s]] /\ read' = [read EXCEPT ![s] = read'[s]]
        /\ krx' = [krx EXCEPT ![s] = krx'[s]]
    BY <2>2 DEF HandoverInv, Types
  <2> QED BY <2>1, <2>3 DEF Moves, HandoverInv, Types
<1>5. CASE TurnTx(s) \/ TurnRx(s)
  <2>1. Moves(s) /\ pc[s] \in Gone
    BY <1>5, TurnShape DEF Gone, Kernels
  <2>2. PICK w \in Side, outcome \in {"ok", "expand", "fill"} : x' = [x EXCEPT ![s] = NextKey(e, w, outcome)]
    BY <1>5, Sides DEF TurnTx, TurnRx, Turn, Which
  <2>3. e \in ExchangeType /\ x'[s] = NextKey(e, w, outcome)
    BY <2>2, Here DEF HandoverInv, Types
  <2> HIDE DEF e
  <2>4. x'[s].eaten = e.eaten /\ x'[s].fed = e.fed
    BY <2>3, NextKeyIs
  <2> QED BY <2>1, <2>4 DEF e
<1> QED BY <1>1, <1>2, <1>3, <1>4, <1>5

(* A caller that loops on backlog() leaves it only when it is empty, and   *)
(* feeds nothing after.                                                    *)
LEMMA DrainedKeeps ==
  ASSUME "drains" \in Habits, "unchecked" \notin Habits, HandoverInv, Drained, [Next]_vars
  PROVE  Drained'
<1>1. CASE UNCHANGED vars
  BY <1>1 DEF vars, Drained
<1>2. ASSUME NEW s \in Side, Moves(s), pc'[s] \in Gone => x'[s].eaten = x'[s].fed
      PROVE  Drained'
  <2>1. \A q \in Side : q # s => pc'[q] = pc[q] /\ x'[q] = x[q]
    BY <1>2 DEF Moves, HandoverInv, Types
  <2> QED BY <1>2, <2>1 DEF Drained
<1>3. ASSUME NEW s \in Side, Progress(s) \/ SubmitTx(s) \/ CallStepFails(s) \/ CallRelease(s)
               \/ Die(s) \/ SendData(s) \/ SendKeyUpdate(s) \/ SendClose(s)
      PROVE  Drained'
  <2>1. CASE CallStep(s) \/ CallStepFails(s)
    <3>1. Moves(s) /\ pc'[s] \in {"step", "take", "read", "drain", "closed"}
      BY <2>1, StepShape
    <3> QED BY <1>2, <3>1 DEF Gone, Kernels
  <2>2. CASE CallTake(s) \/ CallFeed(s) \/ Eof(s) \/ Die(s) \/ Close(s) \/ Rejects(s)
    BY <1>2, <2>2, AwayIs
  <2>3. CASE CallBacklog(s)
    <3>1. Moves(s) /\ (pc'[s] = "drain" \/ x'[s].eaten = x'[s].fed)
      BY <2>3, BacklogIs
    <3> QED BY <1>2, <3>1 DEF Gone, Kernels
  <2>4. CASE \/ CallOffload(s) \/ SubmitTx(s) \/ SubmitRx(s) \/ CallRelease(s)
             \/ SendData(s) \/ SendKeyUpdate(s) \/ SendClose(s)
             \/ Receive(s) \/ TurnTx(s) \/ TurnRx(s)
    <3>1. Moves(s) /\ pc[s] \in Gone /\ x'[s].eaten = x[s].eaten /\ x'[s].fed = x[s].fed
      BY <2>4, GoneIs
    <3> QED BY <1>2, <3>1 DEF Drained
  <2> QED BY <1>3, <2>1, <2>2, <2>3, <2>4 DEF Progress
<1> QED BY <1>1, <1>3 DEF Next

(* Nobody has gone to hand over yet.                                       *)
LEMMA DrainedInit ==
  Init => Drained
  BY DEF Init, Drained, Gone, Kernels

(* A released exchange answers as before: what was fed and not yet read    *)
(* would have come to count, so the caller must have drained it.           *)
LEMMA ReleaseCounts ==
  ASSUME NEW e \in ExchangeType, NEW s \in Side, NEW dir \in {"tx", "rx"},
         e.ssl, e.eaten = e.fed
  PROVE  RecordSequence([e EXCEPT !.ssl = FALSE], s, dir) = RecordSequence(e, s, dir)
<1> DEFINE f == [e EXCEPT !.ssl = FALSE]
<1>1. /\ f.done = e.done /\ f.rekeyed = e.rekeyed /\ f.taken = e.taken /\ f.fed = e.fed
      /\ f.tx_at_done = e.tx_at_done /\ f.rx_at_done = e.rx_at_done /\ ~f.ssl
      /\ e.fed \in Nat /\ e.eaten \in Nat
  BY DEF ExchangeType
<1> HIDE DEF f
<1>2. Consumed(e) = e.fed /\ Consumed(f) = e.fed + 1
  BY <1>1 DEF Consumed, InPending
<1>3. RecordsBetween(e.fed, e.rx_at_done, e.fed + 1) = RecordsBetween(e.fed, e.rx_at_done, e.fed)
  <2>1. \A i \in Known(e.fed) : i * U <= e.fed + 1 <=> i * U <= e.fed
    BY <1>1 DEF Known, U
  <2>2. {i \in Known(e.fed) : e.rx_at_done < i * U /\ i * U <= e.fed + 1}
          = {i \in Known(e.fed) : e.rx_at_done < i * U /\ i * U <= e.fed}
    BY <2>1
  <2> QED BY <2>2 DEF RecordsBetween
<1>4. RecordSequence(f, s, dir) = RecordSequence(e, s, dir)
  BY <1>1, <1>2, <1>3 DEF RecordSequence
<1> QED BY <1>4 DEF f

(* The only step that gives an SSL up is ktls_exchange_release.            *)
LEMMA ReleaseStep ==
  ASSUME "drains" \in Habits, "unchecked" \notin Habits, HandoverInv, Drained, [Next]_vars,
         NEW s \in Side, x[s].ssl, ~x'[s].ssl, NEW dir \in {"tx", "rx"}
  PROVE  RecordSequence(x'[s], s, dir) = RecordSequence(x[s], s, dir)
<1> DEFINE e == x[s]
<1>1. e \in ExchangeType /\ x \in [Side -> ExchangeType]
  BY Here DEF HandoverInv, Types
<1>3. PICK q \in Side : \/ Progress(q) \/ SubmitTx(q) \/ CallStepFails(q) \/ CallRelease(q)
                        \/ Die(q) \/ SendData(q) \/ SendKeyUpdate(q) \/ SendClose(q)
  BY DEF Next, vars
<1>4. CASE CallRelease(q)
  <2>1. x' = [x EXCEPT ![q] = [x[q] EXCEPT !.ssl = FALSE]] /\ pc[q] = "live"
    BY <1>4 DEF CallRelease, Release
  <2>2. q = s /\ x'[s] = [e EXCEPT !.ssl = FALSE]
    BY <1>1, <2>1
  <2>3. e.eaten = e.fed
    BY <2>1, <2>2 DEF Drained, Gone, Kernels
  <2> HIDE DEF e
  <2> QED BY <1>1, <2>2, <2>3, ReleaseCounts DEF e
<1>5. ASSUME Moves(q), q = s => x'[s].ssl
      PROVE  FALSE
  BY <1>1, <1>5 DEF Moves
<1>6. ASSUME NEW f, x' = [x EXCEPT ![q] = f], q = s => f.ssl
      PROVE  FALSE
  BY <1>1, <1>6
<1>7. CASE CallStep(q) \/ CallStepFails(q)
  <2>1. Moves(q) /\ x'[q].ssl
    BY <1>7, StepShape
  <2> QED BY <1>5, <2>1
<1>8. CASE CallTake(q) \/ CallFeed(q) \/ CallBacklog(q)
  <2>1. x[q] \in ExchangeType
    BY Here
  <2>2. \E n : \/ x' = [x EXCEPT ![q] = [x[q] EXCEPT !.taken = n]]
               \/ x' = [x EXCEPT ![q] = [x[q] EXCEPT !.fed = n]]
               \/ x' = [x EXCEPT ![q] = [x[q] EXCEPT !.eaten = n]]
    BY <1>8 DEF CallTake, Take, CallFeed, Feed, CallBacklog, BacklogReads, BacklogEmpty, Pulled
  <2>3. \A n : /\ [x[q] EXCEPT !.taken = n].ssl = x[q].ssl
               /\ [x[q] EXCEPT !.fed = n].ssl = x[q].ssl
               /\ [x[q] EXCEPT !.eaten = n].ssl = x[q].ssl
    BY <2>1 DEF ExchangeType
  <2> QED BY <1>6, <2>2, <2>3
<1>9. CASE TurnTx(q) \/ TurnRx(q)
  <2>1. PICK w \in Side, outcome \in {"ok", "expand", "fill"} : x' = [x EXCEPT ![q] = NextKey(x[q], w, outcome)]
    BY <1>9, Sides DEF TurnTx, TurnRx, Turn, Which
  <2>2. x[q] \in ExchangeType
    BY Here
  <2>3. NextKey(x[q], w, outcome).ssl = x[q].ssl
    BY <2>2, NextKeyIs
  <2> QED BY <1>6, <2>1, <2>3
<1>10. CASE \/ CallOffload(q) \/ SubmitTx(q) \/ SubmitRx(q) \/ Eof(q) \/ Die(q) \/ Close(q)
            \/ Rejects(q) \/ Receive(q) \/ SendData(q) \/ SendKeyUpdate(q) \/ SendClose(q)
  <2>1. x' = x
    BY <1>10 DEF CallOffload, SubmitTx, SubmitRx, Eof, Die, Close, Rejects, Receive, SendData,
                 SendKeyUpdate, SendClose
  <2> QED BY <2>1
<1> QED BY <1>3, <1>4, <1>7, <1>8, <1>9, <1>10 DEF Progress

(* ktls_exchange_release changes no answer of ktls_record_sequence, for a  *)
(* caller that read backlog() until it answered 0.                         *)
THEOREM ReleaseChangesNothing ==
  ASSUME "drains" \in Habits, "unchecked" \notin Habits
  PROVE  Spec => ReleaseKeepsSequence
<1>1. Init => HandoverInv /\ Drained
  BY InitHolds, DrainedInit
<1>2. HandoverInv /\ Drained /\ [Next]_vars => (HandoverInv /\ Drained)'
  BY NextKeeps, DrainedKeeps
<1>3. HandoverInv /\ Drained /\ [Next]_vars =>
        [\A s \in Side : x[s].ssl /\ ~x'[s].ssl =>
           \A dir \in {"tx", "rx"} :
             RecordSequence(x'[s], s, dir) = RecordSequence(x[s], s, dir)]_vars
  BY ReleaseStep
<1> QED BY <1>1, <1>2, <1>3, PTL DEF Spec, ReleaseKeepsSequence

-----------------------------------------------------------------------------
(* One side moves: where it stands, and where its peer stands in what it   *)
(* sends.                                                                  *)
LEMMA OneStands ==
  ASSUME HandoverInv, RxInv, NEW s \in Side, Moves(s),
         Standing(x'[s], pc'[s], read'[s], krx'[s], stream[Peer(s)]),
         FirstKey(Peer(s), krx'[s], stream[Peer(s)]),
         Standing(x[Peer(s)], pc[Peer(s)], read[Peer(s)], krx[Peer(s)], stream'[s]),
         FirstKey(s, krx[Peer(s)], stream'[s])
  PROVE  RxInv'
<1> DEFINE t == Peer(s)
<1>1. t \in Side /\ t # s /\ Peer(t) = s /\ Side = {s, t}
  BY Sides
<1>2. /\ x'[t] = x[t] /\ stream'[t] = stream[t] /\ pc'[t] = pc[t]
      /\ read'[t] = read[t] /\ krx'[t] = krx[t]
  BY <1>1 DEF Types, HandoverInv, Moves
<1>3. /\ Standing(x'[s], pc'[s], read'[s], krx'[s], stream'[Peer(s)])
      /\ FirstKey(Peer(s), krx'[s], stream'[Peer(s)])
  BY <1>2
<1>4. /\ Standing(x'[t], pc'[t], read'[t], krx'[t], stream'[Peer(t)])
      /\ FirstKey(Peer(t), krx'[t], stream'[Peer(t)])
  BY <1>1, <1>2
<1> QED BY <1>1, <1>3, <1>4 DEF RxInv

(* Where both sides stand now.                                             *)
LEMMA Stands ==
  ASSUME RxInv, NEW s \in Side
  PROVE  /\ Standing(x[s], pc[s], read[s], krx[s], stream[Peer(s)])
         /\ FirstKey(Peer(s), krx[s], stream[Peer(s)])
         /\ Standing(x[Peer(s)], pc[Peer(s)], read[Peer(s)], krx[Peer(s)], stream[s])
         /\ FirstKey(s, krx[Peer(s)], stream[s])
<1>1. Peer(s) \in Side /\ Peer(Peer(s)) = s
  BY Sides
<1> QED BY <1>1 DEF RxInv

(* The same, of a step that writes nothing.                                *)
LEMMA OneStandsOnly ==
  ASSUME HandoverInv, RxInv, NEW s \in Side, Moves(s), UNCHANGED stream,
         Standing(x'[s], pc'[s], read'[s], krx'[s], stream[Peer(s)]),
         krx'[s] = krx[s] \/ krx'[s] # NoKey
  PROVE  RxInv'
<1>1. FirstKey(Peer(s), krx'[s], stream[Peer(s)])
  <2>1. FirstKey(Peer(s), krx[s], stream[Peer(s)])
    BY Stands
  <2> QED BY <2>1 DEF FirstKey
<1>2. /\ Standing(x[Peer(s)], pc[Peer(s)], read[Peer(s)], krx[Peer(s)], stream'[s])
      /\ FirstKey(s, krx[Peer(s)], stream'[s])
  BY Stands
<1> QED BY <1>1, <1>2, OneStands

(* A caller that is not handing over stands nowhere.                       *)
LEMMA AwayStands ==
  ASSUME HandoverInv, RxInv, NEW s \in Side, Moves(s), UNCHANGED <<stream, krx>>, pc'[s] \notin Gone
  PROVE  RxInv'
<1>1. Standing(x'[s], pc'[s], read'[s], krx'[s], stream[Peer(s)])
  BY DEF Standing, Gone, Kernels
<1> QED BY <1>1, OneStandsOnly

(* What a side appends does not move the place its peer stands at.         *)
LEMMA GrowthStands ==
  ASSUME HandoverInv, PipeInv, RxInv, NEW s \in Side, NEW new,
         \A i \in 1 .. Len(stream[s]) : new[i] = stream[s][i]
  PROVE  Standing(x[Peer(s)], pc[Peer(s)], read[Peer(s)], krx[Peer(s)], new)
<1> DEFINE t == Peer(s)
           st == stream[s]
           m == read[t] \div U
<1>1. t \in Side /\ Peer(t) = s
  BY Sides
<1>2. Len(st) \in Nat /\ read[t] \in Nat /\ read[t] <= U * Len(st)
  BY <1>1, Reads
<1>3. m \in Nat /\ m <= Len(st)
  <2> DEFINE n == Len(st)
  <2>1. n \in Nat /\ read[t] \in Nat /\ read[t] <= U * n
    BY <1>2
  <2> HIDE DEF n
  <2>2. m \in Nat /\ m <= n
    BY <2>1 DEF U
  <2> QED BY <2>2 DEF n
<1> HIDE DEF m
<1>4. NonceAfter(new, m) = NonceAfter(st, m)
  <2>1. m = 0 \/ (m \in 1 .. Len(st) /\ new[m] = st[m])
    BY <1>2, <1>3
  <2> QED BY <2>1 DEF NonceAfter
<1>5. Standing(x[t], pc[t], read[t], krx[t], st)
  BY Stands
<1> QED BY <1>4, <1>5 DEF Standing, m

-----------------------------------------------------------------------------
(* The handshake's steps: only OpenSSL writes, and under the first key.    *)
LEMMA StepStands ==
  ASSUME HandoverInv, PipeInv, RxInv, NEW s \in Side, CallStep(s) \/ CallStepFails(s)
  PROVE  RxInv'
<1> DEFINE t == Peer(s)
           new == stream'[s]
           st == stream[s]
<1>1. /\ Moves(s) /\ pc[s] = "step" /\ pc'[s] \notin Gone /\ UNCHANGED <<krx, ktx>>
      /\ new = st \/ new = st \o Writes(s, "hello") \/ new = st \o Writes(s, "finish")
  <2>1. pc'[s] \in {"step", "take", "read", "drain", "closed"}
    BY StepShape
  <2> QED BY <2>1, StepShape DEF Gone, Kernels
<1>2. ktx[s] = NoKey
  BY <1>1, InBefore DEF Before
<1>3. \A i \in 1 .. Len(st) : new[i] = st[i]
  <2>1. CASE new = st
    BY <2>1
  <2>2. CASE new = st \o Writes(s, "hello")
    BY <1>2, <2>2, WritesGrow
  <2>3. CASE new = st \o Writes(s, "finish")
    BY <1>2, <2>3, WritesGrow
  <2> QED BY <1>1, <2>1, <2>2, <2>3
<1>4. FirstKey(s, krx[t], new)
  <2>1. HandoverInv'
    BY CallStepKeeps, CallStepFailsKeeps
  <2>2. Sending(s, x'[s], new, pc'[s], wrote'[s], ktx'[s])
    BY <2>1 DEF HandoverInv, Local
  <2>3. OnlyTickets(s, new)
    BY <1>1, <1>2, <2>2 DEF Sending
  <2> QED BY <2>3 DEF OnlyTickets, FirstKey
<1>5. Standing(x'[s], pc'[s], read'[s], krx'[s], stream[t])
  BY <1>1 DEF Standing, Gone, Kernels
<1>6. FirstKey(t, krx'[s], stream[t])
  BY <1>1, Stands
<1>7. Standing(x[t], pc[t], read[t], krx[t], new)
  BY <1>3, GrowthStands
<1> QED BY <1>1, <1>4, <1>5, <1>6, <1>7, OneStands

(* backlog() is left with everything read, on a record boundary.           *)
LEMMA BacklogStands ==
  ASSUME Careful, HandoverInv, RxInv, NEW s \in Side, CallBacklog(s)
  PROVE  RxInv'
<1>1. "drains" \in Habits /\ "aligns" \in Habits
  BY DEF Careful
<1>2. /\ Moves(s) /\ UNCHANGED <<stream, krx>>
      /\ \/ pc'[s] = "drain"
         \/ pc'[s] = "offload" /\ x'[s].fed = x[s].fed /\ ~MustAlign(s)
  BY <1>1, BacklogIs
<1>3. CASE pc'[s] = "drain"
  BY <1>2, <1>3, AwayStands DEF Gone, Kernels
<1>4. CASE pc'[s] = "offload" /\ x'[s].fed = x[s].fed /\ ~MustAlign(s)
  <2>1. x'[s].fed % U = 0
    BY <1>1, <1>4 DEF MustAlign
  <2>2. Standing(x'[s], pc'[s], read'[s], krx'[s], stream[Peer(s)])
    BY <1>4, <2>1 DEF Standing
  <2> QED BY <1>2, <2>2, OneStandsOnly
<1> QED BY <1>2, <1>3, <1>4

(* ktls_exchange_release moves neither kernel.                             *)
LEMMA ReleaseStands ==
  ASSUME HandoverInv, RxInv, NEW s \in Side, CallRelease(s)
  PROVE  RxInv'
<1> DEFINE e == x[s]
<1>1. /\ x' = [x EXCEPT ![s] = [e EXCEPT !.ssl = FALSE]]
      /\ UNCHANGED <<stream, pc, wrote, read, ktx, krx, got, ended>>
  BY DEF CallRelease, Release, kernel, told
<1>2. Moves(s) /\ x'[s] = [e EXCEPT !.ssl = FALSE] /\ e \in ExchangeType
  BY <1>1, Here DEF Moves, HandoverInv, Types
<1>3. x'[s].fed = e.fed
  BY <1>2 DEF ExchangeType
<1>4. Standing(e, pc[s], read[s], krx[s], stream[Peer(s)])
  BY Stands
<1>5. Standing(x'[s], pc'[s], read'[s], krx'[s], stream[Peer(s)])
  BY <1>1, <1>3, <1>4 DEF Standing
<1> QED BY <1>1, <1>2, <1>5, OneStandsOnly

(* What is sent lies past every reader, and changes no key before the peer *)
(* has handed over.                                                        *)
LEMMA SendStands ==
  ASSUME Careful, HandoverInv, PipeInv, RxInv, NEW s \in Side,
         SendData(s) \/ SendKeyUpdate(s) \/ SendClose(s)
  PROVE  RxInv'
<1> DEFINE t == Peer(s)
           st == stream[s]
           new == stream'[s]
           n == Len(st)
           kt == ktx[s]
<1>1. Moves(s) /\ UNCHANGED <<x, read, krx>> /\ pc[s] \in {"live", "submit"}
  BY GoneIs DEF SendData, SendKeyUpdate, SendClose, told, Careful
<1>2. PICK r : /\ r.key = kt.key /\ stream' = [stream EXCEPT ![s] = Append(st, r)]
               /\ krx[t] = NoKey => r.kind # "ku"
               /\ pc'[s] = pc[s] \/ (pc'[s] = "turn_tx" /\ pc[s] = "live")
  <2>1. CASE SendData(s)
    <3> DEFINE r == [kind |-> "data", type |-> TypeOf("DATA"), key |-> kt.key, seq |-> kt.seq]
    <3>1. stream' = [stream EXCEPT ![s] = Append(st, r)] /\ pc'[s] = pc[s]
      BY <2>1 DEF SendData, Seal
    <3>2. r.key = kt.key /\ r.kind # "ku"
      OBVIOUS
    <3> HIDE DEF r
    <3> QED BY <3>1, <3>2
  <2>2. CASE SendKeyUpdate(s)
    <3> DEFINE r == [kind |-> "ku", type |-> TypeOf("HANDSHAKE"), key |-> kt.key, seq |-> kt.seq]
    <3>1. /\ stream' = [stream EXCEPT ![s] = Append(st, r)] /\ pc[s] = "live"
          /\ pc' = [pc EXCEPT ![s] = "turn_tx"] /\ krx[t] # NoKey
      BY <2>2 DEF SendKeyUpdate, Seal, Goto, Careful
    <3>2. pc'[s] = "turn_tx"
      BY <3>1 DEF HandoverInv, Types
    <3>3. r.key = kt.key
      OBVIOUS
    <3> HIDE DEF r
    <3> QED BY <3>1, <3>2, <3>3
  <2>3. CASE SendClose(s)
    <3> DEFINE r == [kind |-> "close", type |-> TypeOf("ALERT"), key |-> kt.key, seq |-> kt.seq]
    <3>1. stream' = [stream EXCEPT ![s] = Append(st, r)] /\ pc'[s] = pc[s]
      BY <2>3 DEF SendClose, Seal
    <3>2. r.key = kt.key /\ r.kind # "ku"
      OBVIOUS
    <3> HIDE DEF r
    <3> QED BY <3>1, <3>2
  <2> QED BY <2>1, <2>2, <2>3
<1>3. st \in Seq(Record) /\ n \in Nat /\ Sealed(s, st) /\ new = Append(st, r)
  BY <1>2, Here DEF HandoverInv, Types
<1>4. Len(new) = n + 1 /\ new[n + 1] = r /\ \A i \in 1 .. n : new[i] = st[i]
  BY <1>3
<1>5. FirstKey(s, krx[t], new)
  <2> SUFFICES ASSUME krx[t] = NoKey, NEW i \in Own(s) + 1 .. Len(new)
               PROVE  new[i].kind # "ku" /\ new[i].key = 1
    BY DEF FirstKey
  <2>1. Own(s) \in Nat \ {0}
    BY ExchangeAssumption DEF Own
  <2>2. \A j \in Own(s) + 1 .. n : st[j].kind # "ku" /\ st[j].key = 1
    BY Stands DEF FirstKey
  <2>3. CASE i \in Own(s) + 1 .. n
    BY <1>3, <1>4, <2>1, <2>2, <2>3
  <2>4. CASE i = n + 1
    <3>1. kt # NoKey /\ kt = NonceAfter(st, n)
      <4>1. Sending(s, x[s], st, pc[s], wrote[s], kt)
        BY Here
      <4> QED BY <1>1, <4>1 DEF Sending, Kernels
    <3>2. n >= Own(s)
      BY <3>1, HandshakeBehind
    <3>3. NonceAfter(st, n).key = 1
      <4>1. CASE n = Own(s)
        <5>1. st[n].key = 0
          BY <1>3, <2>1, <4>1 DEF Sealed
        <5> QED BY <5>1 DEF NonceAfter
      <4>2. CASE n > Own(s)
        <5>1. n \in Own(s) + 1 .. n /\ n # 0
          BY <1>3, <2>1, <4>2
        <5>2. st[n].kind # "ku" /\ st[n].key = 1
          BY <2>2, <5>1
        <5> QED BY <5>1, <5>2 DEF NonceAfter
      <4> QED BY <1>3, <2>1, <3>2, <4>1, <4>2
    <3> QED BY <1>2, <1>4, <2>4, <3>1, <3>3
  <2> QED BY <1>3, <1>4, <2>1, <2>3, <2>4
<1>6. Standing(x'[s], pc'[s], read'[s], krx'[s], stream[t])
  <2>1. Standing(x[s], pc[s], read[s], krx[s], stream[t])
    BY Stands
  <2> QED BY <1>1, <1>2, <2>1 DEF Standing, Gone, Kernels
<1>7. FirstKey(t, krx'[s], stream[t])
  BY <1>1, Stands
<1>8. Standing(x[t], pc[t], read[t], krx[t], new)
  BY <1>4, GrowthStands
<1> QED BY <1>1, <1>5, <1>6, <1>7, <1>8, OneStands

(* Handing over: nothing is left in OpenSSL, so the blob's count is where  *)
(* the kernel starts to read.                                              *)
LEMMA InstallStands ==
  ASSUME HandoverInv, PipeInv, Drained, RxInv, NEW s \in Side, pc[s] \in {"offload", "submit"},
         ~Overflowed(x[s].fed)
  PROVE  Standing(x[s], "live", read[s], CryptoInfo(x[s], s, "rx"), stream[Peer(s)])
<1> DEFINE e == x[s]
           t == Peer(s)
           st == stream[t]
           kr == CryptoInfo(e, s, "rx")
           o == Own(t)
           b == e.eaten \div U
<1>1. e.ssl /\ e.done /\ Fresh(e) /\ read[s] = e.fed /\ krx[s] = NoKey
  <2>1. Calling(s, e, pc[s], read[s], ktx[s], krx[s])
    BY Here
  <2> QED BY <2>1 DEF Calling, Offered
<1>2. /\ t \in Side /\ st \in Seq(Record) /\ Len(st) \in Nat
      /\ e.eaten \in Nat /\ e.fed \in Nat /\ e.fed <= U * Len(st)
  BY Reads
<1>3. b >= o /\ kr = [key |-> 1, seq |-> b - o]
  BY <1>1, RxBlobCounts
<1>4. o \in Nat \ {0} /\ Sealed(t, st)
  <2>1. Sealed(t, st)
    BY <1>2, Here
  <2> QED BY <2>1, ExchangeAssumption DEF Own
<1>5. e.eaten = e.fed /\ e.fed % U = 0
  <2>1. Standing(e, pc[s], read[s], krx[s], st)
    BY Stands
  <2> QED BY <2>1 DEF Drained, Standing, Gone
<1>6. read[s] \div U = b
  BY <1>1, <1>5
<1>7. b \in Nat /\ b <= Len(st)
  <2> DEFINE n == Len(st)
  <2>1. n \in Nat /\ e.eaten \in Nat /\ e.eaten <= U * n
    BY <1>2, <1>5
  <2> HIDE DEF n
  <2>2. b \in Nat /\ b <= n
    BY <2>1 DEF U
  <2> QED BY <2>2 DEF n
<1> HIDE DEF b, kr, o
<1>8. b \in 1 .. Len(st) /\ b # 0
  BY <1>2, <1>3, <1>4, <1>7
<1>9. NonceAfter(st, b) = [key |-> 1, seq |-> b - o]
  <2>1. CASE b = o
    <3>1. st[b].key = 0
      BY <1>4, <1>7, <1>8, <2>1 DEF Sealed, o
    <3>2. b - o = 0
      BY <1>4, <2>1
    <3> QED BY <3>1, <3>2 DEF NonceAfter
  <2>2. CASE b > o
    <3>1. b \in o + 1 .. Len(st)
      BY <1>2, <1>4, <1>7, <2>2
    <3>2. st[b].kind # "ku" /\ st[b].key = 1
      BY <1>1, <3>1, Stands DEF FirstKey, o
    <3>3. st[b].seq = b - o - 1
      BY <1>4, <1>8, <2>2, <3>2 DEF Sealed, o
    <3>4. st[b].seq + 1 = b - o
      BY <1>4, <1>7, <3>3
    <3> QED BY <1>8, <3>2, <3>4 DEF NonceAfter
  <2> QED BY <1>3, <1>4, <1>7, <2>1, <2>2
<1>10. Standing(e, "live", read[s], kr, st)
  BY <1>1, <1>3, <1>5, <1>6, <1>9 DEF Standing
<1> QED BY <1>10 DEF kr

(* The handover: the sequence in the blob is that of the record the kernel *)
(* will read first.                                                        *)
LEMMA OffloadStands ==
  ASSUME HandoverInv, PipeInv, Drained, RxInv, NEW s \in Side,
         CallOffload(s) \/ SubmitTx(s) \/ SubmitRx(s)
  PROVE  RxInv'
<1> DEFINE e == x[s]
           t == Peer(s)
           kr == CryptoInfo(e, s, "rx")
<1>1. /\ pc[s] \in {"offload", "submit"} /\ UNCHANGED <<x, stream, wrote, read, got, ended>>
  BY DEF CallOffload, SubmitTx, SubmitRx, told
<1>2. ASSUME NEW q, q \in {"live", "closed", "submit"}, NEW kt, NEW k, pc' = [pc EXCEPT ![s] = q],
             ktx' = [ktx EXCEPT ![s] = kt], krx' = [krx EXCEPT ![s] = k],
             q # "live" => k = krx[s],
             q = "live" => ~Overflowed(e.fed) /\ k = kr
      PROVE  RxInv'
  <2> HIDE DEF kr
  <2>1. Moves(s) /\ pc'[s] = q /\ krx'[s] = k
    BY <1>1, <1>2 DEF Moves, HandoverInv, Types
  <2>2. CASE q = "closed"
    <3>1. krx' = krx
      BY <1>2, <2>2 DEF HandoverInv, Types
    <3> QED BY <1>1, <2>1, <2>2, <3>1, AwayStands DEF Gone, Kernels
  <2>3. CASE q = "submit"
    <3>1. Standing(e, pc[s], read[s], krx[s], stream[t])
      BY Stands
    <3>2. Standing(e, "submit", read[s], k, stream[t])
      BY <1>1, <3>1 DEF Standing, Gone
    <3> QED BY <1>1, <1>2, <2>1, <2>3, <3>2, OneStandsOnly
  <2>4. CASE q = "live"
    <3>1. Standing(e, "live", read[s], kr, stream[t])
      BY <1>1, <1>2, <2>4, InstallStands DEF kr
    <3>2. kr # NoKey
      <4>1. Calling(s, e, pc[s], read[s], ktx[s], krx[s])
        BY Here
      <4>2. e.done /\ Fresh(e)
        BY <1>1, <4>1 DEF Calling, Offered
      <4>3. kr.key = 1
        BY <4>2, RxBlob DEF kr
      <4> QED BY <4>3 DEF NoKey
    <3> QED BY <1>1, <1>2, <2>1, <2>4, <3>1, <3>2, OneStandsOnly
  <2> QED BY <1>2, <2>2, <2>3, <2>4
<1>3. ktx = [ktx EXCEPT ![s] = ktx[s]] /\ krx = [krx EXCEPT ![s] = krx[s]]
  BY DEF HandoverInv, Types
<1>4. HandsOver(e) => ~Overflowed(e.fed)
  BY DEF HandsOver
<1>5. CASE CallOffload(s) /\ OffloadInstalls(s)
  BY <1>2, <1>4, <1>5 DEF OffloadInstalls, Goto
<1>6. CASE CallOffload(s) /\ OffloadRefuses(s)
  BY <1>2, <1>3, <1>6 DEF OffloadRefuses, Goto, kernel
<1>7. CASE CallOffload(s) /\ OffloadHalves(s)
  BY <1>2, <1>3, <1>7 DEF OffloadHalves, Goto
<1>8. CASE SubmitTx(s)
  BY <1>2, <1>3, <1>8 DEF SubmitTx, Goto
<1>9. CASE SubmitRx(s)
  <2>1. ~Overflowed(e.fed)
    <3>1. Handed(e, pc[s], read[s], krx[s], Len(got[s]), stream[t])
      BY Reads
    <3> QED BY <1>9, <3>1 DEF SubmitRx, Handed
  <2> QED BY <1>2, <1>3, <1>9, <2>1 DEF SubmitRx, Goto
<1> QED BY <1>5, <1>6, <1>7, <1>8, <1>9 DEF CallOffload

(* Turning a key: the kernel goes on with the record after the KeyUpdate.  *)
LEMMA TurnsStand ==
  ASSUME "unchecked" \notin Habits, HandoverInv, RxInv, NEW s \in Side, TurnTx(s) \/ TurnRx(s)
  PROVE  RxInv'
<1> DEFINE t == Peer(s)
<1>1. /\ Moves(s) /\ UNCHANGED <<stream, wrote, read, got, ended>>
      /\ pc[s] \in {"turn_tx", "turn_rx"} /\ pc'[s] \in {"live", "closed"}
      /\ pc'[s] = "closed" \/ pc[s] = "turn_tx" => krx' = krx
      /\ pc'[s] = "live" /\ pc[s] = "turn_rx" =>
           krx'[s] = [key |-> krx[s].key + 1, seq |-> 0]
  BY TurnShape
<1>2. x'[s].fed = x[s].fed
  BY GoneIs
<1>3. Standing(x[s], pc[s], read[s], krx[s], stream[t])
  BY Stands
<1>4. CASE pc'[s] = "closed"
  BY <1>1, <1>4, AwayStands DEF Gone, Kernels
<1>5. CASE pc'[s] = "live" /\ pc[s] = "turn_tx"
  <2>1. Standing(x'[s], pc'[s], read'[s], krx'[s], stream[t])
    BY <1>1, <1>2, <1>3, <1>5 DEF Standing, Gone, Kernels
  <2> QED BY <1>1, <1>5, <2>1, OneStandsOnly
<1>6. CASE pc'[s] = "live" /\ pc[s] = "turn_rx"
  <2>1. Standing(x'[s], pc'[s], read'[s], krx'[s], stream[t])
    BY <1>1, <1>2, <1>3, <1>6 DEF Standing, Gone, Kernels
  <2>2. krx'[s] # NoKey
    <3>1. krx[s].key \in Nat
      BY Here DEF Nonce
    <3>2. krx'[s].key # 0
      BY <1>1, <1>6, <3>1
    <3> QED BY <3>2 DEF NoKey
  <2> QED BY <1>1, <2>1, <2>2, OneStandsOnly
<1> QED BY <1>1, <1>4, <1>5, <1>6

(* After a record it opened the kernel expects the next; after KeyUpdate,  *)
(* and only then, the caller turns the key first.                          *)
LEMMA ReceiveStands ==
  ASSUME "ticketturns" \notin Habits, "unchecked" \notin Habits, HandoverInv, PipeInv, RxInv,
         NEW s \in Side, Receive(s)
  PROVE  RxInv'
<1> DEFINE t == Peer(s)
           st == stream[t]
           m == read[s] \div U
           i == m + 1
           r == st[i]
           kr == krx[s]
           k2 == [kr EXCEPT !.seq = kr.seq + 1]
           q == IF RecordOf(r.type) = "HANDSHAKE" /\ (r.kind = "ku" \/ "ticketturns" \in Habits)
                  THEN "turn_rx" ELSE "live"
<1>1. /\ pc[s] = "live" /\ Unread(s) >= U /\ Opens(s) /\ UNCHANGED <<x, stream, wrote, ktx>>
      /\ read' = [read EXCEPT ![s] = read[s] + U] /\ krx' = [krx EXCEPT ![s] = k2]
      /\ pc' = [pc EXCEPT ![s] = q]
  BY DEF Receive, Goto
<1>2. /\ m \in Nat /\ read[s] = U * m /\ i \in 1 .. Len(st)
      /\ r.kind \in {"nst", "data", "ku", "close"} /\ kr # NoKey
  BY <1>1, OpensNext
<1>3. /\ t \in Side /\ Len(st) \in Nat /\ Wording(st) /\ kr \in Nonce /\ Sealed(t, st)
      /\ st \in Seq(Record)
  BY <1>1, Reads, Here
<1>4. r.key = kr.key /\ r.seq = kr.seq
  BY <1>1 DEF Opens
<1>5. kr.key \in Nat /\ kr.seq \in Nat /\ kr.key >= 1
  <2>1. Calling(s, x[s], "live", read[s], ktx[s], kr)
    BY <1>1, Here
  <2>2. kr.key \in 1 .. MaxKey + 1
    BY <1>2, <2>1 DEF Calling
  <2> QED BY <1>3, <2>2, HandoverAssumption DEF Nonce
<1>6. k2 = [key |-> kr.key, seq |-> kr.seq + 1] /\ k2.key = kr.key /\ k2 # NoKey
  <2>1. k2 = [key |-> kr.key, seq |-> kr.seq + 1]
    BY <1>3 DEF Nonce
  <2>2. k2.key = kr.key
    BY <2>1
  <2>3. k2.key # 0
    BY <1>5, <2>2
  <2> QED BY <2>1, <2>2, <2>3 DEF NoKey
<1>7. q = IF r.kind = "ku" THEN "turn_rx" ELSE "live"
  <2>1. r.type = IF r.kind = "data" THEN 23 ELSE IF r.kind = "close" THEN 21 ELSE 22
    BY <1>2, <1>3 DEF Wording
  <2>2. r.kind = "ku" => RecordOf(r.type) = "HANDSHAKE"
    BY <2>1 DEF RecordOf
  <2> QED BY <2>2
<1> HIDE DEF q, k2
<1>8. i # 0 /\ (read[s] + U) \div U = i /\ (read[s] + U) % U = 0
  BY <1>2 DEF U
<1>9. NonceAfter(st, i) = IF r.kind = "ku" THEN [key |-> k2.key + 1, seq |-> 0] ELSE k2
  BY <1>4, <1>5, <1>6, <1>8 DEF NonceAfter
<1>10. Standing(x[s], "live", read[s], kr, st)
  BY <1>1, Stands
<1>11. Standing(x[s], q, read[s] + U, k2, st)
  <2>1. x[s].fed % U = 0
    BY <1>10 DEF Standing, Gone, Kernels
  <2> QED BY <1>7, <1>8, <1>9, <2>1 DEF Standing
<1>12. Moves(s) /\ pc'[s] = q /\ read'[s] = read[s] + U /\ krx'[s] = k2
  BY <1>1, GoneIs DEF HandoverInv, Types
<1> QED BY <1>1, <1>6, <1>11, <1>12, OneStandsOnly

-----------------------------------------------------------------------------
(* Nobody has handed over yet.                                             *)
LEMMA RxInit ==
  Init => RxInv
<1> SUFFICES ASSUME Init, NEW s \in Side
             PROVE  /\ Standing(x[s], pc[s], read[s], krx[s], stream[Peer(s)])
                    /\ FirstKey(Peer(s), krx[s], stream[Peer(s)])
  BY DEF RxInv
<1>1. pc[s] = "step" /\ stream[Peer(s)] = <<>>
  BY Sides DEF Init, ExchangeInit
<1>2. Own(Peer(s)) \in Nat
  BY ExchangeAssumption DEF Own
<1>3. Own(Peer(s)) + 1 .. Len(stream[Peer(s)]) = {}
  BY <1>1, <1>2
<1> QED BY <1>1, <1>3 DEF Standing, FirstKey, Gone, Kernels

(* Every step.                                                             *)
LEMMA RxKeeps ==
  ASSUME Careful, HandoverInv, PipeInv, Drained, RxInv, [Next]_vars
  PROVE  RxInv'
<1>1. "unchecked" \notin Habits /\ "ticketturns" \notin Habits
  BY DEF Careful
<1>2. CASE UNCHANGED vars
  BY <1>2 DEF vars, kernel, RxInv
<1>3. ASSUME NEW s \in Side, Progress(s) \/ SubmitTx(s) \/ CallStepFails(s) \/ CallRelease(s)
               \/ Die(s) \/ SendData(s) \/ SendKeyUpdate(s) \/ SendClose(s)
      PROVE  RxInv'
  <2>1. CASE CallStep(s) \/ CallStepFails(s) BY <2>1, StepStands
  <2>2. CASE CallTake(s) \/ CallFeed(s) \/ Eof(s) \/ Die(s) \/ Close(s) \/ Rejects(s)
    BY <2>2, AwayIs, AwayStands
  <2>3. CASE CallBacklog(s) BY <2>3, BacklogStands
  <2>4. CASE CallOffload(s) \/ SubmitTx(s) \/ SubmitRx(s) BY <2>4, OffloadStands
  <2>5. CASE CallRelease(s) BY <2>5, ReleaseStands
  <2>6. CASE SendData(s) \/ SendKeyUpdate(s) \/ SendClose(s) BY <2>6, SendStands
  <2>7. CASE TurnTx(s) \/ TurnRx(s) BY <1>1, <2>7, TurnsStand
  <2>8. CASE Receive(s) BY <1>1, <2>8, ReceiveStands
  <2> QED BY <1>3, <2>1, <2>2, <2>3, <2>4, <2>5, <2>6, <2>7, <2>8 DEF Progress
<1> QED BY <1>2, <1>3 DEF Next

(* For careful callers, whatever fails and however the bytes arrive: a     *)
(* kernel that took over a socket stands on a record boundary and expects  *)
(* the record that is really there, over any number of messages, tickets   *)
(* and key changes (ktls_crypto_info RX after ktls_exchange_backlog).      *)
THEOREM RxNeverSkips ==
  ASSUME Careful
  PROVE  Spec => []RxContinues
<1>1. "unchecked" \notin Habits /\ "drains" \in Habits
  BY DEF Careful
<1> DEFINE Inv == HandoverInv /\ PipeInv /\ Drained /\ RxInv
<1>2. Init => Inv
  BY InitHolds, PipeInit, DrainedInit, RxInit
<1>3. Inv /\ [Next]_vars => Inv'
  BY <1>1, NextKeeps, PipeNext, DrainedKeeps, RxKeeps
<1>4. Inv => RxContinues
  BY DEF RxInv, Standing, RxContinues
<1> QED BY <1>2, <1>3, <1>4, PTL DEF Spec

=============================================================================
