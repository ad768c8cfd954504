# mruby-ktls in TLA+

mruby-ktls runs a TLS 1.3 handshake over two memory buffers, catches the
application secrets as they pass, counts the records that crossed the buffers,
and hands the connection to the kernel: a key, and the sequence number the
kernel has to go on from, for each direction. After that the library is out of
the way until a key has to be turned.

The sequence number is the point where everything can go wrong silently. It is
not read from anywhere: it is reconstructed from byte counts, taken at several
places, of streams the caller cuts into pieces as it likes. One record too many
or too few is a connection that dies at its first record, or a nonce used twice.
Most of this project is about that number.

## Inventory

| Component | State | Operations | Modelled in |
|---|---|---|---|
| record counter (`struct ktls_records`) | `offset`, `body_left`, `head`, `head_len`, `ends`, `overflowed` | `ktls_scan`, `ktls_records_between` | `Records`, `RecordScan`; promise: `RecordStream` |
| exchange (`struct ktls_exchange`) | SSL and its two BIOs, two counters, `tx_at_done`, `rx_at_done`, `rx_fed`, secrets, blobs, `rekeyed` | open, feed, take, step, backlog, crypto_info, record_sequence, record_limit, next_key, release, free | `Exchange`; open and free: `Sharing` |
| handover | the socket's kernel keys | `ktls_offload`, a reactor's two `setsockopt`s, and the callers' loops | `Handover`; promise: `SecureStream` |
| record type codec | none | `ktls_record_type_encode`, `ktls_record_type` | `TypeOf`, `RecordOf` of `Exchange`, used by every send and receive of `Handover` |
| keys (`struct ktls_keys`) | default context, named contexts, `suites`, `alpn`, `alpn_len` | set_ciphers, set_alpn, add_certificate; name_pick and alpn_pick in a handshake | `Keys`; free: `Sharing` |
| key log, HKDF, blobs | part of the exchange | `ktls_keylog`, `ktls_expand`, `ktls_fill` | `Logged`, `Fill`, `DeriveBoth` of `Exchange`, as which key is where; `Handshake` of `Sharing`, as which exchange the log line is for |
| exchange index | one static int | `ktls_ex_index` | `Sharing` |
| kernel probe | none; the kernel's module | `ktls_initialized`, `ktls_available`, `ktls_file_names`, `ktls_load_module`, `ktls_attach_ulp` | `KernelProbe` |
| mruby binding | an `@keys` in each exchange | finalizers, `exchange_init`, the take and backlog loops | `Sharing`; its loops are the careful caller of `Handover` |
| C++ wrapper | one pointer in each handle | moves, destructors, `Exchange::open` | `Sharing` |
| error text, FreeBSD half, build | none of their own | | no, see below |

How they interact: the caller owns the socket. It feeds what it read to the
exchange and sends what it takes; `step` drives OpenSSL between the two BIOs;
OpenSSL calls back into the keys (`ktls_name_pick`, `ktls_alpn_pick`) and, found
through the process-wide index, into the exchange (`ktls_keylog`).
`ktls_offload` asks the exchange for two blobs and gives them to the kernel,
which from then on shares nothing with the exchange but what `next_key` and
`crypto_info` give the caller to install.

What is hard here: two ends that move at their own pace, so that tickets, data,
KeyUpdates and close_notifies arrive before, during and after the other end's
handover; an end that dies at any of these points; bytes cut anywhere, on the
wire and in a module index; calls that must come in an order only the
documentation states; the handful of calls that can fail half-way, and are
called again; and objects that point at each other while a collector, or a
moved handle, frees them. `PROJECT.json` lists these hazards line by line.

## Modules

`Records` describes a peer's stream by the offset just past each record.
`RecordScan` is `ktls_scan` with one action per turn of its loop, entered by
`Feed` and left by `Return` (`ktls_exchange_feed`). The bytes of a head are
real: the body length is read from the two bytes it was written in. All other
bytes are one placeholder, since the walk looks at no other.
`RecordStream` is what a counter promises, with no walk in it.

`Exchange` holds both ends' `struct ktls_exchange` as records `x[s]`. Since the
counters do what `RecordStream` says, a record is two cells there, which keeps
every case of a read or a take that ends inside one. `fed` is `rx_fed`,
`taken` is `tx.offset`; `eaten` and `made` are how far OpenSSL has emptied the
in-BIO and filled the out-BIO, so `BIO_pending` is a difference (and -1 when
release freed the BIO, as OpenSSL answers for NULL). Secrets and blobs are
indexed by the side that writes with them, which is the code's `which`. A key is
the number of times its secret was turned. OpenSSL is external: `Need` and
`Writes` say what each stage of a handshake reads and writes, `Pulled` that
waiting for more empties the in-BIO even of half a record, `Logged` when the
secrets arrive. A step that failed to derive a key leaves the handshake complete
and `done` unset; called again it finishes from there (`Complete`, `Ended`).
`Wear` stands for the 2^24 records of which `ktls_record_limit` answers half
(RFC 8446 5.5 has 2^24.5), and is 0 for ChaCha, which has no limit.

`Handover` adds two callers, a TCP connection in each direction, and the two
kernels. A caller is the loop of the repository's README and of
`examples/ktls_handover.c`: step, then take and send, or read and feed, until
`KTLS_DONE`; backlog; `ktls_offload`, or as the README's reactor the two blobs
one after the other; then a live socket, on which it sends, counts its records
against the limit, receives, turns keys, says close_notify, and may release the
exchange. What callers may do differently is the constant `Habits`, what may
fail is `MayFail`. The kernel seals under its own count and whatever type it is
told, and opens the next record only if key and sequence are those it was sealed
with. `SecureStream` is what the two callers wanted: two pipes, whose end can be
told from their loss. It has two readings. Where `MayMiss` is false an end is
never lost. Where it is true an end may get lost on its way (`Miss`) and is then
told as a cut; `Handover` implements this weaker pipe when its callers may be
`eager`, and `missed` is then whether the close_notify was among the bytes fed to
OpenSSL (`Missed`).

`Keys` is one `struct ktls_keys`, with what a handshake would answer (`Answer`)
and what a client would offer asked of every state. A host is its sequence of
labels. An ALPN name takes one slot of the buffer. Both setters walk the
contexts one by one and may fail at any of them; `asked` remembers what the
calls that answered 0 last asked for, and that a failed call left a setting
unsettled.

`KernelProbe` is one process asking what its kernel can do: `ktls_available`
with its search of the two module indices read by read, each read returning any
number of bytes, `ktls_load_module` and `ktls_attach_ulp`, while others load and
unload the module. Every system call may fail.

`Sharing` is one process with a thread that runs mruby and one that runs C++.
Both open exchanges, through the one static of `ktls_ex_index`: its test, its
call and its store are three steps, and it returns the value in hand or the
static read again, since the race leaves a build either. The Ruby side is what
`exchange_init` keeps alive and what the finalizers free, under a collector that
marks from a script's variables; the C++ side is the moves, the destructors and
`Exchange::open` of the two handles, used as the header asks (keys outlive what
was opened with them).

The `...Proofs` modules hold the theorems about the module they are named after;
the four about `Handover` extend one another, each adding one invariant. The
`MC...` modules are the instances the runs check. Definitions named after a
definition and a flaw (`NoteEndForgets`, `TxAtDoneEitherRole`, `HeldShort`) are
deliberate mistakes kept beside the right ones; each property fails with the one
`PROJECT.json` pairs it with.

## Runs

| Run | Bounds | Shows |
|---|---|---|
| `scan_pieces` | up to 4 records with bodies of 0, 1 and 3 bytes, and a stream with one of 256; calls of 1, 2, 4, 7 and 9 bytes; a table of 3 | ends, counts, overflow, both length bytes, the inductive invariant, termination, refinement of `RecordStream` |
| `careful` | a flight of 2 records, 1 ticket, 3 messages one way and 1 the other, 1 key change each way, a key worn out by 4 records | everything the library promises a caller that keeps to the rules |
| `reckless` | 2 messages each way, every failure, a table of 3, callers that drain once and stop inside a record, rekey or say close_notify early, turn keys for tickets, call a failed step again at once, or die | what holds without the rules: nonces, the pipe that may miss an end, and nobody stuck |
| `keys_order` | 2 pairs among two spellings of one host, a wildcard and a host it covers; 4 suite lists, 4 ALPN lists; setters that fail at any context | order of configuration does not matter |
| `probe` | a name of 3 bytes that begins again inside itself, every index of up to 6 bytes, a buffer of 4 | the search finds the name however it is read, and a false is final |
| `sharing` | 2 exchanges in each thread, 2 handles of each kind | lifetimes, and what the index race can cost |
| the six others | as `careful` or `keys_order`, with one change | the findings below |

The bounds are small because the structure is: a call of 4 or 9 bytes splits a
head at every place and spans several records; a table of 3 with 4 records
overflows once, and nothing changes after. In `Handover` a record of two cells
has the one inside that matters; a flight of 2 has a first record that is not
the Finished; 1 ticket is enough for a sequence to start at other than 0; 2
messages are enough for one to be skipped or repeated; 1 key change each way is
enough for the two to cross. In `careful` the directions differ only in how much
they carry: 3 messages, with a limit of 2, make the server turn its key because
it must. The table of 3 of `reckless` overflows at either end that reads on before it hands over. In `Keys`
two pairs are enough for one to cover, precede or miss what the other has, and
for a setter to stop between them. In `probe` six bytes hold the name with
bytes before it and after it, in three reads or more; a name that begins with
its own first letter again is the one a search that restarts wrongly misses. In
`sharing` two exchanges in a thread are one that raced and one opened later, and
two handles a source and a target.

Deadlock is not checked in the runs of `RecordScan` (a stream ends), of
`Handover` (both ends may have closed, or have nothing to say) and of `Sharing`
(everything may have been opened and freed); `FeedReturns`, `EveryoneHandsOver`,
`EverythingArrives` and `NobodyHangs` say what must happen.

Fairness: in `RecordScan`, a C call runs to its end (`WF` of a turn of the
walk), and nobody has to call. In `Handover`, weak fairness of each side's
`Progress`: a caller inside the loop goes on with it and a reader goes on
reading, and TCP delivers what was written. Sending, turning a key, saying
goodbye, releasing and dying are never forced, nor are failures. In
`KernelProbe`, weak fairness of the turns of a search (`Searching`): the loop is
a C call. `Sharing` assumes none: mruby collects when a script happens to
allocate.

## What the properties say

- *Counting* (`RecordScan`): `EndsExact`, `CountExact`, `CountersAgree`,
  `ImplementsStream`.
- *Going on* (`Handover`): `TxContinues`, no nonce skipped or used twice from
  OpenSSL's first ticket to the kernel's last record; `RxContinues`, a kernel
  expects the record that is really next; `SequenceTrue`; `KeyNotWornOut`, the
  README's count and `ktls_record_limit` leave room for the tickets, the
  KeyUpdate and the close_notify nobody counts.
- *The pipe*: `ImplementsPipe`, messages once, in order and without a gap, a
  clean end only after all of them and a cut never taken for one, nor, without
  `eager`, an end for a cut; `EndToldFromCut`, that last part by itself;
  `EveryoneHandsOver`, `EverythingArrives`, `NobodyHangs`.
- *Configuration* (`Keys`): `ServesAsAsked`, after every order of calls and
  whatever failed before the last success; `EveryPairAnswers`,
  `AddTakesNothing`.
- *The probe*: `CarryExact` and `AnswerExact` against "the name occurs in the
  file"; `FalseMeansNoHelp`, the header's words over whatever happens after;
  `SearchEnds`.
- *Lifetimes* (`Sharing`): `KeysOutlive`, `OneHandle`;
  `LateOpensKeepSecrets`, the bound on the index race.

## What the runs show about the callers

`careful` has two habits the documentation does not ask for in so many words.
It stops feeding only on a record boundary (`aligns`), and no end turns its key
or says close_notify before the other has handed over (no `eager`, which guards
`SendKeyUpdate` and `SendClose` alike). `cut_record`, `early_keyupdate` and
`early_close` are why.

1. `cut_record`: a read that stops inside a record. `ktls_crypto_info` checks
   for bytes still owed, not for a record half arrived.
2. `early_keyupdate`: a KeyUpdate that `ktls_exchange_backlog` reads turns
   OpenSSL's key and not the exchange's.
3. `ticket`: the repository's README answers any handshake record on the socket
   with `ktls_next_key`; a ticket that arrives after the handover is one too.
4. `early_close`: a close_notify that `ktls_exchange_backlog` reads is answered
   with 0, as nothing is; the reader later takes the end of the socket for a cut.
5. `stale_blob`: `ktls_next_key` can fail after it turned the secret; the blob
   then pairs the old key with sequence 0.
6. `keys_refused`: a refused `ktls_keys_set_alpn` has already overwritten part
   of the list in force.

More were met and have no run of their own.

- A caller that calls `backlog` once, as the README's C and C++ examples do,
  leaves records in the BIO (`RxContinues` fails with `Habits = {"aligns"}`);
  the mruby binding loops.
- `ktls_record_sequence` does not look at `overflowed` as `ktls_crypto_info`
  does (`SequenceTrue` fails with `TableSize = 2`).
- The README's TX rekey recipe sends no KeyUpdate before it installs the new
  key.
- `ktls_offload` can leave TX installed and RX not (`OffloadHalves`), against
  `ktls.h`'s "Both or neither": a socket whose kernel seals and does not open.
  The callers modelled close it.
- A step that failed to derive its keys and is called again at once ends up
  right (`reckless`). A server that takes its tickets in between would set
  `tx_at_done` past them and count none.
- `ktls_attach_ulp`, called without `ktls_offload`'s look at
  `ktls_initialized`, autoloads the module for a process that may, though
  `ktls.h` calls `ktls_load_module` the one loader.
- Two threads whose first opens overlap may register two indices. The exchanges
  stored under the one that lost never see a secret and fail at the end of their
  handshake; no exchange opened after the race does.
- An ALPN name of more than 32 bytes is settled on and reported as none.

Even so `reckless` shows on an instance, and `TxNeverSkips` and
`HandoverImplementsPipe` for every instance, that with any of the habits in
`AllHabits` but one, an unchecked `next_key`, no application record ever leaves
under a nonce that is not the next one, and no message is delivered out of its
place: the failures are connections that close, and an early end taken for a cut. Two of the callers
above are not among these habits and it says nothing of them: the one that turns
its TX key without a KeyUpdate, and the one that takes a server's tickets between
a failed step and the next.

## Proofs

Every safety property a passing run checks is also a theorem, for every value of
the constants that their named assumptions allow. TLC found out on the runs
above whether a formula holds; the proofs say that no larger instance is
different. What is left to TLC alone is liveness, see the end of this section.

| Module | Theorem | States | Beyond the modules' assumptions |
|---|---|---|---|
| `RecordScanProofs` | `ScanInvariant`, `ScanFindsEnds`, `ScanCountsExactly`, `ScanCountersAgree`, `ScanTypeOK`, `ScanImplementsStream` | `ScanInv`, `EndsExact`, `CountExact`, `CountersAgree`, `TypeOK`, `ImplementsStream` | |
| `HandoverProofs` | `TypeCorrect`, `TxNeverSkips` | `TypeOK`, `TxContinues` | a failed `ktls_next_key` is not ignored |
| | `SequenceCounts` | `SequenceTrue` | the same, and in states where no table has overflowed |
| `HandoverPipeProofs` | `HandoverImplementsPipe` | `ImplementsPipe` | a failed `ktls_next_key` is not ignored |
| | `EndsAlwaysTold` | `EndToldFromCut` | the same, and no `eager` |
| `HandoverRxProofs` | `ReleaseChangesNothing` | `ReleaseKeepsSequence` | the same, and callers drain |
| | `RxNeverSkips` | `RxContinues` | `Careful` |
| `HandoverWearProofs` | `KeysLast` | `KeyNotWornOut` | a failed `ktls_next_key` is not ignored; a key may seal more than one record |
| `SharingProofs` | `KeysAlwaysOutlive`, `AlwaysOneHandle`, `LateOpensAlwaysKeepSecrets` | `KeysOutlive`, `OneHandle`, `LateOpensKeepSecrets` | |
| `KernelProbeProofs` | `CarryAlwaysExact`, `AnswersAlwaysExact`, `FalseIsFinal` | `CarryExact`, `AnswerExact`, `FalseMeansNoHelp` | |
| `KeysProofs` | `AddNeverTakes` | `AddTakesNothing` | |
| | `AlwaysServesAsAsked` | `ServesAsAsked` | `NoneHalfway` |
| | `EveryPairAlwaysAnswers` | `EveryPairAnswers` | `AnyoneAsks` |

The hypotheses in the last column are the findings, seen from the other side:
each is what the code needs of its callers or its inputs, and without it TLC has
a counterexample.

- *A failed `ktls_next_key` is not ignored* (`"unchecked" \notin Habits`): run
  `stale_blob`. `TxContinues` and `ImplementsPipe` ask for nothing else: the other
  habits in `Habits` and all of `MayFail` are allowed. But what `ImplementsPipe`
  promises depends on one more: with `eager` callers the pipe may miss an end.
- *No `eager`*: run `early_close`. `EndsAlwaysTold` is what `ImplementsPipe` then
  says of ends, that a finished stream is never taken for a truncated one.
- *No table has overflowed*: `ktls_record_sequence` does not look at
  `overflowed`, as noted above.
- `Careful`: callers drain the backlog, stop on a record boundary
  (`cut_record`), turn no key before the peer has handed over
  (`early_keyupdate`), turn no key for a ticket (`ticket`), and check
  `ktls_next_key`.
- *A key may seal more than one record* (`Wear # 1`): half of 1 is 0, which
  `ktls_record_limit` also uses for "no limit". The real limit is 2^24.
- `NoneHalfway`: a list `ktls_keys_set_alpn` refuses is refused at its first
  name, before anything was copied: run `keys_refused`.
- `AnyoneAsks`: `Names`, which bounds what clients ask, has for each host a name
  that it matches and, for a wildcard, one that is nobody's exact host. A client
  may name anything, so this is about the instance and not about the code.

### The invariants

`ScanInv`. `EndsExact` is not inductive: it speaks of the ends behind the walk
and not of the bytes it holds of the head it is in. `ScanInv` says where the walk
stands: there is a record k such that records 1 to k-1 are behind it, noted as
far as the table reaches, and it is either `head_len` bytes into the head of
record k, holding exactly those bytes, or `body_left` bytes before its end. With
`Accounted` (the bytes of a call are walked or left) that is preserved by each
turn: `ScanHeadStep` and `ScanBodyStep` are the two hard lemmas, resting on
`HeadBytes` (the two length bytes give the length back), `RecordAtUnique` and
`Noted` (noting an end takes "the first k" to "the first k+1", with or without
room).

`HandoverInv` is a statement about each side (`Local`) and one that relates the
two (nobody has read more than was written). `TxContinues` alone says nothing of
how far the caller is, so it survives no step. `Pace` says how many records
OpenSSL has written at each stage and where both application streams begin once
`KTLS_DONE` has set `tx_at_done` and `rx_at_done`; `Sealed` is the nonce rule
itself, for every record; `Sending` ties the kernel's sending key to the stream,
to the exchange's secret and to the program counter, a key being turned
included; `Calling` does the same for reading, as far as that holds for
*every* caller. The proof has one lemma per operation (`TakeKeeps`,
`BacklogKeeps`, `OffloadKeeps`, `TurnsKeep`, ...), each through `OneMoves`: a
step of one side is judged by that side's part alone.

`PipeInv` is what the refinement of `SecureStream` needs on top: a record says
on the wire what it is and close_notify is the last one (`Wording`); a reader has
been handed exactly the messages before the place it stands at, *if* its kernel
expects the record that is there (`Handed`), so that it holds for a caller that
handed over at the wrong place too; and an end is told when the record that says
it was read and had not been fed to OpenSSL, which without `eager` it never was
(`Told`). `PipeNext` takes each action to a step of the pipes or to a stutter;
feeding a close_notify is the step `Miss`. `CutInv` adds, for `EndsAlwaysTold`,
that a peer of whom a cut was told has closed and says no more.

`Drained` and `RxInv` are where the careful caller comes in. Nothing fed is left
in OpenSSL once it goes to hand over; what was fed ends on a record boundary;
from then on the kernel stands on one and expects the record that is there, or
will once the key it is turning is turned (`Standing`); and nobody is sent
anything but the first key before it has handed over (`FirstKey`). `Drained`
alone gives `ReleaseKeepsSequence`: what release would stop subtracting is zero.

`WearInv` bounds the kernel's count by the caller's plus the tickets, and says
that a key yet to come has sealed nothing.

`SharingInv`: `OpenInv` (what a thread inside `ktls_exchange_open` has),
`LateInv` (once the static of `ktls_ex_index` is set and nobody is between its
test and its store, it never changes, so what a late open has in hand is what it
stays), `RubyInv` (an exchange a script reaches carries its `@keys`),
`CppInv` (no two handles hold one object, and nothing allocated is in none).

`ProbeInv`: `CarryExact` and `AnswerExact` with what a running search has ruled
out and what a denial rests on. The lemma under it is `Turn`: a name in the bytes
carried over and just read is in the file, one in the file up to there ends in
those bytes (`NoneAcross`), and the last wlen - 1 of them are what the next turn
needs. It is about sequences only, for any name, also one that begins again
inside itself.

`KeysInv` and `AlpnInv`: settled suites are those a new context would be given
and those of every context; likewise for protocols, with the buffer, its length
and the callback; and no two pairs are for one host, which is what makes
`NamePick`'s first match stay the match. `AlpnInv` is apart because it alone
needs `NoneHalfway`.

### Only model-checked

- All liveness (`FeedReturns`, `EveryoneHandsOver`, `EverythingArrives`,
  `NobodyHangs`, `SearchEnds`): fairness and `ENABLED` are out of the prover's
  reach. That what a script forgot is freed is left to mruby.
- The step from the byte counters of `RecordScan` to the cells of `Exchange` is
  an argument: a cell is an offset that keeps only how many records end by it
  and whether it lies inside one, and `Known`, `Overflowed` and `RecordsBetween`
  of `Exchange` are `RecordStream`'s answers, which depend on no more.

## Not modelled

- *Error text* (`ktls_fail`, `ktls_say`, `ktls_last_error`): wording in a
  thread-local buffer.
- *The FreeBSD half*: its probe and blob layout. By the repository's README it
  was never compiled; everything above the blob is shared and modelled.
- *The stubs* for other systems, the build scripts, and the two examples that
  are smoke tests of the API.
- *Data*: cryptography, beyond which key is where; hex digits and HKDF labels;
  the layout of the kernel's structs; argument conversion in the mruby binding;
  the constants `ktls_sol_tls` and `ktls_optname` answer.
- *Peers that misbehave*: a handshake may fail at any step, but what the peer
  sent that made it fail is not told apart. Alerts other than close_notify; a
  KeyUpdate that asks for one back, which makes OpenSSL write.
- *Calls that cannot be made to matter*: `BIO_write` failing in feed, which
  counts nothing and answers -1; `SSL_get_ex_new_index` answering -1, after which
  the next open tries again; a reactor whose own `setsockopt` fails, where the
  README looks at no answer.
- *Callers*: a retry of a failed step after `take`, and a TX key turned without a
  KeyUpdate, as said above. A caller that takes after every answer and not only
  after `KTLS_WRITING` finds nothing to take after the others.
- *Numbers*: wrap-around of the 64-bit counters, out of any connection's reach.
  A message is one record; `Records` counts sends as the README does.

## Plan

Every component named above as modelled has its safety properties checked and
proved. What could still be done:

1. Turn the argument above into a lemma: with a byte offset's cell defined as
   twice the records that end by it, and one more inside a record, what
   `RecordStream` answers of offsets is what `Known`, `Overflowed` and
   `RecordsBetween` of `Exchange` answer of their cells.
2. Shorten `HandoverProofs` and `HandoverPipeProofs`, the two longest: the facts
   about one side's step that several lemmas restate could be lemmas of their
   own.
