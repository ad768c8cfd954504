------------------------------ MODULE Exchange ------------------------------
(***************************************************************************)
(* struct ktls_exchange and the calls on it, for the two ends of one       *)
(* connection.  Both byte counters (tx, rx) are the record counter that    *)
(* RecordScan is proved to implement, so here a record is two cells: a     *)
(* read or a take may still end inside one.  OpenSSL (external) is what    *)
(* the library sees of it: how far it has pulled from the in-BIO, what it  *)
(* has written to the out-BIO, and the secrets its keylog hands over.      *)
(***************************************************************************)
EXTENDS Integers, Sequences, FiniteSets

CONSTANTS
  Flight,      \* records in the server's flight, its Finished the last of them
  Tickets,     \* NewSessionTickets a server writes as it finishes
  TableSize,   \* record ends a counter holds: 64 in the code
  Wear         \* records one key may seal: 2^24 under AES-GCM (RFC 8446 5.5
               \* has 2^24.5), 0, for no limit, under ChaCha

ASSUME ExchangeAssumption ==
  /\ Flight \in Nat \ {0} /\ Tickets \in Nat /\ TableSize \in Nat \ {0}
  /\ Wear = 0 \/ (Wear \in Nat /\ Tickets + 1 <= Wear - Wear \div 2)

Side == {"client", "server"}
Peer(s) == IF s = "client" THEN "server" ELSE "client"

U == 2         \* cells in a record

VARIABLES
  x,           \* x[s]: side s's struct ktls_exchange
  stream       \* stream[s]: every record s has produced, in order (OpenSSL's, then the kernel's)

(* The secrets and blobs are indexed by the side that writes with them:    *)
(* Which(s, dir) is the code's "which".  A key is named by how often its   *)
(* secret was turned: 1 is application_traffic_secret_0, 0 is no key, and  *)
(* records under the handshake keys carry 0 too.                           *)
Which(s, dir) == IF dir = "tx" THEN s ELSE Peer(s)

Opened ==
  [ssl |-> TRUE, done |-> FALSE, stage |-> "hello",
   fed |-> 0, eaten |-> 0, made |-> 0, taken |-> 0,
   tx_at_done |-> 0, rx_at_done |-> 0,
   secret |-> [w \in Side |-> 0], info |-> [w \in Side |-> 0],
   rekeyed |-> [w \in Side |-> FALSE]]

ExchangeInit ==
  /\ x = [s \in Side |-> Opened]
  /\ stream = [s \in Side |-> <<>>]
-----------------------------------------------------------------------------
(* BIO_pending of either buffer; -1 once ktls_exchange_release freed it.   *)
OutPending(e) == IF e.ssl THEN e.made - e.taken ELSE -1
InPending(e) == IF e.ssl THEN e.fed - e.eaten ELSE -1

Owes(e) == OutPending(e) > 0
Consumed(e) == e.fed - InPending(e)

(* ktls_records_between, on a counter that has seen offset cells.          *)
Known(offset) == {i \in 1 .. TableSize : i * U <= offset}
RecordsFrom(offset, after, upto) ==
  Cardinality({i \in Known(offset) : after <= i * U /\ i * U <= upto})
RecordsBetween(offset, after, upto) ==
  Cardinality({i \in Known(offset) : after < i * U /\ i * U <= upto})
Overflowed(offset) == offset \div U > TableSize

RecordSequence(e, s, dir) ==
  IF ~e.done \/ e.rekeyed[Which(s, dir)] THEN 0
  ELSE IF dir = "tx" THEN RecordsBetween(e.taken, e.tx_at_done, e.taken)
  ELSE RecordsBetween(e.fed, e.rx_at_done, Consumed(e))

(* ktls_crypto_info: whether it answers, and with which key and sequence.  *)
HandsOver(e) ==
  e.done /\ ~Owes(e) /\ ~Overflowed(e.taken) /\ ~Overflowed(e.fed)

CryptoInfo(e, s, dir) ==
  [key |-> e.info[Which(s, dir)], seq |-> RecordSequence(e, s, dir)]

(* ktls_record_limit: half of what a key may seal, 0 for no limit.         *)
RecordLimitAll == Wear
RecordLimit == Wear \div 2

(* ktls_type_of and ktls_record_of: a record's ContentType and its kind,   *)
(* the way out through ktls_record_type_encode and back through            *)
(* ktls_record_type.                                                       *)
TypeOf(kind) ==
  CASE kind = "ALERT" -> 21 [] kind = "HANDSHAKE" -> 22 [] kind = "DATA" -> 23
    [] OTHER -> -1

(* An alert not told from what nobody knows.                               *)
RecordOfNoAlert(type) ==
  CASE type = 22 -> "HANDSHAKE" [] type = 23 -> "DATA" [] OTHER -> "UNKNOWN"

RecordOf(type) ==
  CASE type = 21 -> "ALERT" [] type = 22 -> "HANDSHAKE" [] type = 23 -> "DATA"
    [] OTHER -> "UNKNOWN"
-----------------------------------------------------------------------------
(* OpenSSL, external.  What a side must have read to leave a stage of the  *)
(* handshake, and what it then writes: the client its hello and then its   *)
(* Finished, the server its flight and then its tickets, the only records  *)
(* OpenSSL ever writes under an application key here.                      *)
Need(s, stage) ==
  IF s = "client" THEN IF stage = "hello" THEN 0 ELSE U * Flight
  ELSE IF stage = "hello" THEN U ELSE 2 * U

Handshake(kind) == [kind |-> kind, type |-> 22, key |-> 0, seq |-> 0]

Writes(s, stage) ==
  IF s = "client"
    THEN <<Handshake(IF stage = "hello" THEN "hs" ELSE "fin")>>
  ELSE IF stage = "hello"
    THEN [i \in 1 .. Flight |-> Handshake(IF i = Flight THEN "fin" ELSE "hs")]
  ELSE [i \in 1 .. Tickets |->
         [kind |-> "nst", type |-> 22, key |-> 1, seq |-> i - 1]]

(* ktls_keylog: both application secrets go past it on the way, a server's *)
(* own when it writes its Finished, the others when the peer's is read.    *)
Logged(e, s) ==
  [w \in Side |-> IF e.stage = "finish" \/ (s = "server" /\ w = s) THEN 1 ELSE e.secret[w]]

(* SSL_do_handshake stays in its stage: it pulls all there is, a partial   *)
(* record included.  It leaves its stage, having read what the stage needs *)
(* and written its answer.                                                 *)
Pulled(e) == [e EXCEPT !.eaten = e.fed]

Advanced(e, s) ==
  [e EXCEPT !.stage = IF @ = "hello" THEN "finish" ELSE "complete",
            !.eaten = IF e.stage = "hello" THEN e.fed ELSE Need(s, e.stage),
            !.made = @ + U * Len(Writes(s, e.stage)),
            !.secret = Logged(e, s)]
-----------------------------------------------------------------------------
(* One boundary for both roles; and all that was fed counted as handshake. *)
TxAtDoneEitherRole(e, s) == e.taken
RxAtDoneAllFed(e) == e.fed

(* Where a side's application records begin in what it sends: a server's   *)
(* Finished left long ago, a client's is the last thing still pending.     *)
TxAtDone(e, s) == e.taken + (IF s = "client" THEN OutPending(e) ELSE 0)
RxAtDone(e) == e.fed - InPending(e)

(* ktls_fill: the blob of one direction from its secret; ktls_derive_both. *)
Fill(e, w) == [e EXCEPT !.info[w] = e.secret[w]]
DeriveBoth(e, s) == Fill(Fill(e, s), Peer(s))

(* What ktls_exchange_step writes down once both blobs are there.          *)
Finished(e, s) ==
  [e EXCEPT !.tx_at_done = TxAtDone(e, s),
            !.rx_at_done = RxAtDone(e),
            !.done = TRUE]

(* ktls_exchange_step.  The answer is read off the new state.              *)
StepWaits(s) ==
  LET e == x[s] IN
  /\ e.ssl /\ ~e.done /\ e.stage # "complete" /\ e.fed < Need(s, e.stage)
  /\ x' = [x EXCEPT ![s] = Pulled(e)]
  /\ UNCHANGED stream

StepAdvances(s) ==
  LET e == x[s] IN
  /\ e.ssl /\ ~e.done /\ e.stage = "hello" /\ e.fed >= Need(s, "hello")
  /\ x' = [x EXCEPT ![s] = Advanced(e, s)]
  /\ stream' = [stream EXCEPT ![s] = @ \o Writes(s, "hello")]

(* SSL_do_handshake has nothing left to wait for: it reads and writes the  *)
(* last of the handshake or, after a step that failed here, answers 1      *)
(* again at once.                                                          *)
Complete(e, s) ==
  \/ e.stage = "finish" /\ e.fed >= Need(s, "finish")
  \/ e.stage = "complete"
Ended(e, s) == IF e.stage = "finish" THEN Advanced(e, s) ELSE e
LastWrites(e, s) == IF e.stage = "finish" THEN Writes(s, "finish") ELSE <<>>

StepCompletes(s) ==
  LET e == x[s] IN
  /\ e.ssl /\ ~e.done /\ Complete(e, s)
  /\ x' = [x EXCEPT ![s] = Finished(DeriveBoth(Ended(e, s), s), s)]
  /\ stream' = [stream EXCEPT ![s] = @ \o LastWrites(e, s)]

(* The handshake completed and one of the two keys could not be derived:   *)
(* -1, the first blob perhaps already filled.                              *)
StepFails(s) ==
  LET e == x[s] IN
  /\ e.ssl /\ ~e.done /\ Complete(e, s)
  /\ \E left \in {Ended(e, s), Fill(Ended(e, s), s)} : x' = [x EXCEPT ![s] = left]
  /\ stream' = [stream EXCEPT ![s] = @ \o LastWrites(e, s)]

(* SSL_do_handshake fails for good, whatever it has read: -1.              *)
StepRefuses(s) ==
  /\ x[s].ssl /\ ~x[s].done
  /\ x' = [x EXCEPT ![s] = Pulled(@)]
  /\ UNCHANGED stream

StepAgain(s) ==
  /\ x[s].ssl /\ x[s].done
  /\ UNCHANGED <<x, stream>>

(* Asking whether the handshake is done before asking what is owed.        *)
StepAnswerDoneFirst(e) ==
  IF e.done THEN "done" ELSE IF Owes(e) THEN "writing" ELSE "reading"
(* Waiting for the peer before asking what is owed to it.                  *)
StepAnswerReadFirst(e) ==
  IF ~e.done THEN "reading" ELSE IF Owes(e) THEN "writing" ELSE "done"

StepAnswer(e) == IF Owes(e) THEN "writing" ELSE IF e.done THEN "done" ELSE "reading"

Feed(s, n) ==
  /\ x[s].ssl
  /\ x' = [x EXCEPT ![s].fed = @ + n]
  /\ UNCHANGED stream

(* The capacity of the buffer counted, not what BIO_read put in it.        *)
TakeCap(s, n) ==
  /\ x[s].ssl /\ OutPending(x[s]) > 0
  /\ x' = [x EXCEPT ![s].taken = @ + n]
  /\ UNCHANGED stream

Take(s, n) ==
  /\ x[s].ssl /\ n \in 1 .. OutPending(x[s])
  /\ x' = [x EXCEPT ![s].taken = @ + n]
  /\ UNCHANGED stream

(* ktls_exchange_backlog: SSL_read goes through whole records until one    *)
(* holds data and hands that one over; with no data left it pulls all      *)
(* there is and the call answers 0.                                        *)
DataWaiting(s) ==
  {i \in x[s].eaten \div U + 1 .. x[s].fed \div U : stream[Peer(s)][i].kind = "data"}

(* SSL_peek: the record handed over and still there to be read.            *)
BacklogPeeks(s, i) ==
  /\ x[s].ssl /\ x[s].done
  /\ i \in DataWaiting(s) /\ \A j \in DataWaiting(s) : i <= j
  /\ UNCHANGED <<x, stream>>

BacklogReads(s, i) ==
  /\ x[s].ssl /\ x[s].done
  /\ i \in DataWaiting(s) /\ \A j \in DataWaiting(s) : i <= j
  /\ x' = [x EXCEPT ![s].eaten = i * U]
  /\ UNCHANGED stream

BacklogEmpty(s) ==
  /\ x[s].ssl /\ x[s].done
  /\ DataWaiting(s) = {}
  /\ x' = [x EXCEPT ![s] = Pulled(@)]
  /\ UNCHANGED stream

(* The secret turned, the sequence not restarted.                          *)
NextKeyKeepsCounting(e, w, outcome) ==
  LET turned == [e EXCEPT !.secret[w] = @ + 1]
  IN  IF outcome = "expand" THEN e ELSE IF outcome = "fill" THEN turned ELSE Fill(turned, w)

(* ktls_next_key: the new secret may fail to expand, which changes         *)
(* nothing, or its key may, which leaves the old blob behind.              *)
NextKey(e, w, outcome) ==
  LET turned == [e EXCEPT !.secret[w] = @ + 1, !.rekeyed[w] = TRUE]
  IN  IF outcome = "expand" THEN e ELSE IF outcome = "fill" THEN turned ELSE Fill(turned, w)

(* The counters given up with the SSL.                                     *)
ReleaseForgets(s) ==
  /\ x[s].ssl
  /\ x' = [x EXCEPT ![s].ssl = FALSE, ![s].fed = 0, ![s].eaten = 0]
  /\ UNCHANGED stream

Release(s) ==
  /\ x[s].ssl
  /\ x' = [x EXCEPT ![s].ssl = FALSE]
  /\ UNCHANGED stream
=============================================================================
