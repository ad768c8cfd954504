------------------------------ MODULE Handover ------------------------------
(***************************************************************************)
(* Two callers drive their exchanges over one TCP connection and hand it   *)
(* to their kernels (external): from then on a send is a record under the  *)
(* installed key and sequence, and a receive opens the next record on the  *)
(* socket only if key and sequence are the ones it was sealed with.        *)
(***************************************************************************)
EXTENDS Exchange

CONSTANTS
  MaxData,     \* MaxData[s]: messages s sends
  MaxKey,      \* how often a sending key may have been turned, plus one
  MayFail,     \* calls that may fail: subset of Failures
  Habits       \* what the callers do: subset of AllHabits

Failures ==
  {"handshake", "derive", "expand", "fill", "initialized", "ulp", "tx", "rx"}

(* drains      calls backlog() until it answers 0, not just once           *)
(* aligns      goes on reading until what it fed ends on a record boundary *)
(* lingers     may read on after KTLS_DONE, as examples/ktls_handover.c    *)
(* eager       may turn its key, or end, before the peer has handed over   *)
(* ticketturns answers any handshake record on the socket with next_key    *)
(* unchecked   goes on after a next_key that failed                        *)
(* retries     calls step() once more at once after it answered -1         *)
(* dies        may be gone at any moment, its socket closed for it         *)
(* reactor     submits the two blobs itself, one after the other           *)
AllHabits ==
  {"drains", "aligns", "lingers", "eager", "ticketturns", "unchecked",
   "retries", "dies", "reactor"}

ASSUME HandoverAssumption ==
  /\ MaxData \in [Side -> Nat] /\ MaxKey \in Nat \ {0}
  /\ MayFail \subseteq Failures /\ Habits \subseteq AllHabits

VARIABLES
  pc,          \* pc[s]: where s's caller is
  wrote, read, \* cells s wrote to its socket, and read from it
  ktx, krx,    \* the key and sequence s's kernel seals and opens with
  got,         \* got[s]: the messages s's caller was handed, by number
  ended        \* how its reading ended: "open", "clean" or "cut"

kernel == <<ktx, krx>>
told == <<got, ended>>
vars == <<x, stream, pc, wrote, read, kernel, told>>

NoKey == [key |-> 0, seq |-> 0]

Init ==
  /\ ExchangeInit
  /\ pc = [s \in Side |-> "step"]
  /\ wrote = [s \in Side |-> 0]
  /\ read = [s \in Side |-> 0]
  /\ ktx = [s \in Side |-> NoKey]
  /\ krx = [s \in Side |-> NoKey]
  /\ got = [s \in Side |-> <<>>]
  /\ ended = [s \in Side |-> "open"]

Goto(s, where) == pc' = [pc EXCEPT ![s] = where]

(* Data record i of p's stream is its Number-th message.                   *)
Number(p, i) == Cardinality({j \in 1 .. i : stream[p][j].kind = "data"})
Sent(p) == Number(p, Len(stream[p]))

(* s has said its close_notify, which is the last it says.                 *)
Shut(s) == stream[s] # <<>> /\ stream[s][Len(stream[s])].kind = "close"

Unread(s) == wrote[Peer(s)] - read[s]
-----------------------------------------------------------------------------
(* The loop of README.md's examples: step; while it answers writing, take  *)
(* (any piece, at least one cell) and send; while it answers reading, read *)
(* whatever arrived and feed it.                                           *)
CallStep(s) ==
  /\ pc[s] = "step"
  /\ StepWaits(s) \/ StepAdvances(s) \/ StepCompletes(s) \/ StepAgain(s)
  /\ Goto(s, CASE StepAnswer(x'[s]) = "writing" -> "take"
               [] StepAnswer(x'[s]) = "reading" -> "read"
               [] OTHER -> "drain")
  /\ UNCHANGED <<wrote, read, kernel, told>>

CallStepFails(s) ==
  /\ pc[s] = "step"
  /\ \/ /\ "derive" \in MayFail /\ StepFails(s)
        /\ Goto(s, IF "retries" \in Habits /\ x[s].stage = "finish" THEN "step" ELSE "closed")
     \/ "handshake" \in MayFail /\ StepRefuses(s) /\ Goto(s, "closed")
  /\ UNCHANGED <<wrote, read, kernel, told>>

CallTake(s) ==
  /\ pc[s] = "take"
  /\ \E n \in 1 .. U * (Flight + Tickets) :
       Take(s, n) /\ wrote' = [wrote EXCEPT ![s] = @ + n]
  /\ Goto(s, "step")
  /\ UNCHANGED <<read, kernel, told>>

(* Read and feed, from the loop or, lingering or aligning, after it.       *)
MustAlign(s) == "aligns" \in Habits /\ x[s].fed % U # 0

CallFeed(s) ==
  /\ \/ pc[s] = "read"
     \/ pc[s] = "drain" /\ ("lingers" \in Habits \/ MustAlign(s))
  /\ \E n \in 1 .. Unread(s) :
       Feed(s, n) /\ read' = [read EXCEPT ![s] = @ + n]
  /\ Goto(s, IF pc[s] = "read" THEN "step" ELSE "drain")
  /\ UNCHANGED <<wrote, kernel, told>>

CallBacklog(s) ==
  /\ pc[s] = "drain" /\ ~MustAlign(s)
  /\ \/ \E i \in DataWaiting(s) :
          /\ BacklogReads(s, i)
          /\ got' = [got EXCEPT ![s] = Append(@, Number(Peer(s), i))]
          /\ Goto(s, IF "drains" \in Habits THEN "drain" ELSE "offload")
     \/ BacklogEmpty(s) /\ Goto(s, "offload") /\ UNCHANGED got
  /\ UNCHANGED <<wrote, read, kernel, ended>>

(* The peer closed and nothing of it is left to read: the end, or, with no *)
(* close_notify before it, a cut.                                          *)
Eof(s) ==
  /\ pc[s] \in {"read", "live"} \/ (pc[s] = "drain" /\ MustAlign(s))
  /\ pc[Peer(s)] = "closed" /\ Unread(s) = 0
  /\ ended' = [ended EXCEPT ![s] = IF @ = "open" THEN "cut" ELSE @]
  /\ Goto(s, "closed")
  /\ UNCHANGED <<x, stream, wrote, read, kernel, got>>

(* An end is gone, in the middle of whatever it did.                       *)
Die(s) ==
  /\ "dies" \in Habits /\ pc[s] # "closed"
  /\ Goto(s, "closed")
  /\ UNCHANGED <<x, stream, wrote, read, kernel, told>>
-----------------------------------------------------------------------------
(* ktls_offload.  Every answer of -1 leaves the socket with what was       *)
(* installed before it, and the caller closes.                             *)
OffloadInstalls(s) ==
  /\ HandsOver(x[s])
  /\ ktx' = [ktx EXCEPT ![s] = CryptoInfo(x[s], s, "tx")]
  /\ krx' = [krx EXCEPT ![s] = CryptoInfo(x[s], s, "rx")]
  /\ Goto(s, "live")

OffloadRefuses(s) ==
  /\ ~HandsOver(x[s]) \/ MayFail \intersect {"initialized", "ulp", "tx"} # {}
  /\ Goto(s, "closed")
  /\ UNCHANGED kernel

OffloadHalves(s) ==
  /\ HandsOver(x[s]) /\ "rx" \in MayFail
  /\ ktx' = [ktx EXCEPT ![s] = CryptoInfo(x[s], s, "tx")]
  /\ Goto(s, "closed")
  /\ UNCHANGED krx

CallOffload(s) ==
  /\ pc[s] = "offload"
  /\ OffloadInstalls(s) \/ OffloadRefuses(s) \/ OffloadHalves(s)
  /\ UNCHANGED <<x, stream, wrote, read, told>>

(* README.md's reactor: crypto_info and setsockopt for TX, then for RX,    *)
(* and the socket may send as soon as it has the first.                    *)
SubmitTx(s) ==
  /\ pc[s] = "offload" /\ "reactor" \in Habits /\ HandsOver(x[s])
  /\ ktx' = [ktx EXCEPT ![s] = CryptoInfo(x[s], s, "tx")]
  /\ Goto(s, "submit")
  /\ UNCHANGED <<x, stream, wrote, read, krx, told>>

SubmitRx(s) ==
  /\ pc[s] = "submit"
  /\ krx' = [krx EXCEPT ![s] = CryptoInfo(x[s], s, "rx")]
  /\ Goto(s, "live")
  /\ UNCHANGED <<x, stream, wrote, read, ktx, told>>

CallRelease(s) ==
  /\ pc[s] = "live"
  /\ Release(s)
  /\ UNCHANGED <<pc, wrote, read, kernel, told>>
-----------------------------------------------------------------------------
(* The kernel, external: it seals under its own count, whatever type the   *)
(* caller's control message names, and the bytes are on the wire when the  *)
(* call returns.                                                           *)
Seal(s, record, kind) ==
  /\ stream' = [stream EXCEPT ![s] =
                  Append(@, [kind |-> kind, type |-> TypeOf(record),
                             key |-> ktx[s].key, seq |-> ktx[s].seq])]
  /\ ktx' = [ktx EXCEPT ![s].seq = @ + 1]
  /\ wrote' = [wrote EXCEPT ![s] = @ + U]

(* README.md's count: the records sent since the key was installed.        *)
Records(s) ==
  Cardinality({i \in DOMAIN stream[s] : stream[s][i].kind = "data"
                                         /\ stream[s][i].key = ktx[s].key})

SendData(s) ==
  /\ pc[s] \in {"live", "submit"} /\ ~Shut(s) /\ Sent(s) < MaxData[s]
  /\ RecordLimit = 0 \/ Records(s) < RecordLimit
  /\ Seal(s, "DATA", "data")
  /\ UNCHANGED <<x, pc, read, krx, told>>

(* A caller tells the peer, then turns its key: at its record limit it     *)
(* must, before that it may.                                               *)
SendKeyUpdate(s) ==
  /\ pc[s] = "live" /\ ~Shut(s) /\ ktx[s].key < MaxKey
  /\ "eager" \in Habits \/ krx[Peer(s)] # NoKey
  /\ Seal(s, "HANDSHAKE", "ku")
  /\ Goto(s, "turn_tx")
  /\ UNCHANGED <<x, read, krx, told>>

(* Said as soon as this side has handed over, to whoever reads it.         *)
SendCloseEarly(s) ==
  /\ pc[s] = "live" /\ ~Shut(s)
  /\ Seal(s, "ALERT", "close")
  /\ UNCHANGED <<x, pc, read, krx, told>>

(* The close_notify a caller spells itself; and the close of a caller both *)
(* of whose directions have ended.                                         *)
SendClose(s) ==
  /\ pc[s] = "live" /\ ~Shut(s)
  /\ "eager" \in Habits \/ krx[Peer(s)] # NoKey
  /\ Seal(s, "ALERT", "close")
  /\ UNCHANGED <<x, pc, read, krx, told>>

Close(s) ==
  /\ pc[s] = "live" /\ Shut(s) /\ ended[s] = "clean"
  /\ Goto(s, "closed")
  /\ UNCHANGED <<x, stream, wrote, read, kernel, told>>

(* ktls_next_key, ktls_crypto_info and the setsockopt that re-installs it. *)
Turn(s, dir) ==
  /\ \E outcome \in {"ok"} \union (MayFail \intersect {"expand", "fill"}) :
       LET e == NextKey(x[s], Which(s, dir), outcome)
           installs == (outcome = "ok" \/ "unchecked" \in Habits) /\ HandsOver(e)
           blob == CryptoInfo(e, s, dir)
       IN  /\ x' = [x EXCEPT ![s] = e]
           /\ ktx' = IF installs /\ dir = "tx" THEN [ktx EXCEPT ![s] = blob] ELSE ktx
           /\ krx' = IF installs /\ dir = "rx" THEN [krx EXCEPT ![s] = blob] ELSE krx
           /\ Goto(s, IF installs THEN "live" ELSE "closed")
  /\ UNCHANGED <<stream, wrote, read, told>>

TurnTx(s) == pc[s] = "turn_tx" /\ Turn(s, "tx")
TurnRx(s) == pc[s] = "turn_rx" /\ Turn(s, "rx")

(* recvmsg on an offloaded socket takes the next record, from wherever the *)
(* caller's own reads stopped.                                             *)
Opens(s) ==
  /\ read[s] % U = 0
  /\ LET r == stream[Peer(s)][read[s] \div U + 1]
     IN  r.key = krx[s].key /\ r.seq = krx[s].seq

Receive(s) ==
  /\ pc[s] = "live" /\ Unread(s) >= U /\ Opens(s)
  /\ LET i == read[s] \div U + 1
         r == stream[Peer(s)][i]
         type == RecordOf(r.type)
     IN  /\ got' = [got EXCEPT ![s] =
                      IF type = "DATA" THEN Append(@, Number(Peer(s), i)) ELSE @]
         /\ ended' = [ended EXCEPT ![s] = IF type = "ALERT" THEN "clean" ELSE @]
         /\ Goto(s, IF type = "HANDSHAKE" /\ (r.kind = "ku" \/ "ticketturns" \in Habits)
                      THEN "turn_rx" ELSE "live")
  /\ read' = [read EXCEPT ![s] = @ + U]
  /\ krx' = [krx EXCEPT ![s].seq = @ + 1]
  /\ UNCHANGED <<x, stream, wrote, ktx>>

(* A record it cannot open: EBADMSG, and the caller closes.                *)
Rejects(s) ==
  /\ pc[s] = "live" /\ Unread(s) >= U /\ ~Opens(s)
  /\ Goto(s, "closed")
  /\ UNCHANGED <<x, stream, wrote, read, kernel, told>>
-----------------------------------------------------------------------------
Progress(s) ==
  \/ CallStep(s) \/ CallTake(s) \/ CallFeed(s) \/ CallBacklog(s) \/ CallOffload(s)
  \/ SubmitRx(s)
  \/ Eof(s) \/ TurnTx(s) \/ TurnRx(s) \/ Receive(s) \/ Rejects(s) \/ Close(s)

Next == \E s \in Side :
  \/ Progress(s) \/ SubmitTx(s) \/ CallStepFails(s) \/ CallRelease(s) \/ Die(s)
  \/ SendData(s) \/ SendKeyUpdate(s) \/ SendClose(s)

(* A caller in its loop goes on with it and a reader goes on reading; a    *)
(* caller need not send, turn its key or release.                          *)
Spec == Init /\ [][Next]_vars /\ \A s \in Side : WF_vars(Progress(s))
-----------------------------------------------------------------------------
(* The key and sequence the record after the first i of st must be sealed  *)
(* with (RFC 8446 5.3, 7.2): the first under the application key, the one  *)
(* after its predecessor, or the first under the next key after KeyUpdate. *)
NonceAfter(st, i) ==
  IF i = 0 \/ st[i].key = 0 THEN [key |-> 1, seq |-> 0]
  ELSE IF st[i].kind = "ku" THEN [key |-> st[i].key + 1, seq |-> 0]
  ELSE [key |-> st[i].key, seq |-> st[i].seq + 1]

Live(s) == pc[s] \in {"live", "turn_tx", "turn_rx"}

(* The counters keep their order: nothing is read before it was fed, fed   *)
(* before the peer sent it, or taken before OpenSSL wrote it (feed, take). *)
TypeOK ==
  /\ pc \in [Side -> {"step", "take", "read", "drain", "offload", "submit", "live",
                      "turn_tx", "turn_rx", "closed"}]
  /\ wrote \in [Side -> Nat] /\ read \in [Side -> Nat]
  /\ \A s \in Side :
       /\ x[s].eaten <= x[s].fed /\ x[s].fed <= wrote[Peer(s)]
       /\ x[s].taken <= x[s].made /\ x[s].taken <= wrote[s]
       /\ read[s] >= x[s].fed
       /\ ktx[s].key \in 0 .. MaxKey + 1 /\ krx[s].key \in 0 .. MaxKey + 1

(* Every application record a side puts on the wire, from the first        *)
(* ticket OpenSSL writes to the last one the kernel seals, carries the     *)
(* sequence after its predecessor's under the right key: none is skipped   *)
(* and none is used twice across the handover (ktls_crypto_info TX).       *)
TxContinues ==
  \A s \in Side : \A i \in DOMAIN stream[s] :
    stream[s][i].key > 0 =>
      [key |-> stream[s][i].key, seq |-> stream[s][i].seq] = NonceAfter(stream[s], i - 1)

(* A kernel that took over a socket stands on a record boundary and        *)
(* expects the record that is really there (ktls_crypto_info RX after      *)
(* ktls_exchange_backlog).                                                 *)
RxContinues ==
  \A s \in Side : pc[s] \in {"live", "turn_tx"} =>
    /\ read[s] % U = 0
    /\ krx[s] = NonceAfter(stream[Peer(s)], read[s] \div U)

(* ktls_record_sequence is how many application records have left through  *)
(* take(), or come in through feed() and been read, at every moment        *)
(* between KTLS_DONE and a rekey (ktls.h: "How many application records    *)
(* this direction has already spent").                                     *)
AppRecords(st, cells) == Cardinality({i \in 1 .. cells \div U : st[i].key > 0})

SequenceTrue ==
  \A s \in Side : LET e == x[s] IN e.done /\ e.ssl =>
    /\ ~e.rekeyed[s] =>
         RecordSequence(e, s, "tx") = AppRecords(stream[s], e.taken)
    /\ ~e.rekeyed[Peer(s)] =>
         RecordSequence(e, s, "rx") = AppRecords(stream[Peer(s)], e.eaten)

(* ktls_exchange_release changes no answer of ktls_record_sequence.        *)
ReleaseKeepsSequence ==
  [][\A s \in Side : x[s].ssl /\ ~x'[s].ssl =>
       \A dir \in {"tx", "rx"} :
         RecordSequence(x'[s], s, dir) = RecordSequence(x[s], s, dir)]_vars

(* The peer's close_notify was fed to OpenSSL: backlog() reads it, and     *)
(* answers 0 for it as for nothing.                                        *)
Missed(s) == Shut(Peer(s)) /\ x[s].fed >= U * Len(stream[Peer(s)])

(* Nothing is delivered twice, out of order or past a gap, across the      *)
(* handover from backlog() to the kernel.  A truncated stream is never     *)
(* taken for a finished one (ktls_record_type), nor a finished one for a   *)
(* truncated: save that with eager callers a close_notify that came before *)
(* the handover is missed, and the end it said is then taken for a cut.    *)
Pipe == INSTANCE SecureStream
          WITH Ends <- Side, Other <- Peer, MayMiss <- "eager" \in Habits,
               sent <- [s \in Side |-> Sent(s)], shut <- [s \in Side |-> Shut(s)],
               missed <- [s \in Side |-> Missed(s)]
ImplementsPipe == Pipe!Spec

(* A peer that said close_notify is never taken for one that was cut off   *)
(* (ktls.h: "which a peer needs in order to tell a finished stream from a  *)
(* truncated one").                                                        *)
EndToldFromCut == \A s \in Side : ended[s] = "cut" => ~Shut(Peer(s))

(* Both exchanges finish and both sockets are handed over.                 *)
EveryoneHandsOver == <>(\A s \in Side : krx[s] # NoKey)

(* What a side sends, the other is handed, its close_notify as well.       *)
EverythingArrives ==
  \A s \in Side :
    /\ \A n \in 1 .. MaxData[Peer(s)] : Sent(Peer(s)) >= n ~> Len(got[s]) >= n
    /\ Shut(Peer(s)) ~> ended[s] = "clean"

(* A caller that counts as README.md does, from the handover on and only   *)
(* its own sends, never wears a key out: the tickets before it and the     *)
(* KeyUpdate after fit in the half that ktls_record_limit keeps back.      *)
KeyNotWornOut ==
  Wear > 0 => \A s \in Side : \A i \in DOMAIN stream[s] : stream[s][i].seq < Wear

(* Whatever of MayFail fails and whichever of their habits the callers     *)
(* have, none is left waiting in its handshake loop: it hands over or it   *)
(* closes.                                                                 *)
NobodyHangs == \A s \in Side : <>(Live(s) \/ pc[s] = "closed")
=============================================================================
