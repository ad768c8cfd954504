-------------------------------- MODULE Keys --------------------------------
(***************************************************************************)
(* struct ktls_keys: the default context, the contexts a server_name picks *)
(* on a server, and the two settings every one of them must carry.  A      *)
(* handshake is what a server answers a ClientHello with (Answer), or what *)
(* a client puts in one, asked of every state.  A host is the sequence of  *)
(* its labels, a pattern one whose first label is "*"; an ALPN name takes  *)
(* one slot of the buffer, and a name that does not fit takes none.        *)
(***************************************************************************)
EXTENDS Integers, Sequences

CONSTANTS
  Hosts,         \* what add_certificate may be called with
  Names,         \* what a client may name
  Fold(_),       \* a label without its letter case
  SuiteLists,    \* what set_ciphers may be called with
  BadSuites,     \* the ones too long to keep, or refused by OpenSSL
  AesIsFast,     \* ktls_aes_is_fast, the machine's answer
  AlpnLists,     \* what set_alpn may be called with
  TooLong,       \* names that do not fit the buffer
  Slots,         \* how many names the buffer holds
  MaxNamed,      \* how many certificates are added
  OutOfMemory    \* an OpenSSL setter may fail on a list it knows

ASSUME KeysAssumption ==
  /\ BadSuites \subseteq SuiteLists /\ Slots \in Nat /\ MaxNamed \in Nat
  /\ AesIsFast \in BOOLEAN /\ OutOfMemory \in BOOLEAN
  /\ \A s \in AlpnLists \union SuiteLists \union Hosts \union Names : s \in Seq(STRING)

VARIABLES
  default,         \* keys->ctx
  named,           \* keys->named: the host and context of each pair
  suites,          \* keys->suites, <<>> when nobody asked
  alpn, alpn_len,  \* the buffer, and how much of it counts
  asked            \* what the calls that answered 0 last asked for; Unsettled
                   \* after one that failed half-way through the contexts

settings == <<suites, alpn, alpn_len, asked>>
vars == <<default, named, settings>>

None == "none"
Unsettled == <<"unsettled">>

(* The first of a preference list that the other side offers.              *)
FirstOf(list, offers) ==
  LET both == {i \in DOMAIN list : list[i] \in offers}
  IN  IF both = {} THEN None ELSE list[CHOOSE i \in both : \A j \in both : i <= j]
-----------------------------------------------------------------------------
(* ktls_ctx_new: every context starts with the machine's suites, no ALPN   *)
(* callback and nothing to offer.                                          *)
DefaultSuites == IF AesIsFast THEN <<"aes", "chacha">> ELSE <<"chacha", "aes">>

CtxNew == [suites |-> DefaultSuites, picks |-> FALSE, protos |-> <<>>]

Init ==
  /\ default = CtxNew
  /\ named = <<>>
  /\ suites = <<>>
  /\ alpn = [i \in 1 .. Slots |-> None]
  /\ alpn_len = 0
  /\ asked = [suites |-> DefaultSuites, alpn |-> <<>>]

(* ktls_keys_set_ciphers: the default context first, which is where a list *)
(* OpenSSL does not know is refused, then every named one.  One of those   *)
(* may fail still, with the ones before it changed.                        *)
SetCiphers(list) ==
  \/ /\ list = <<>> \/ list \in BadSuites
     /\ UNCHANGED vars
  \/ /\ list # <<>> /\ list \notin BadSuites
     /\ default' = [default EXCEPT !.suites = list]
     /\ suites' = list
     /\ \E k \in (IF OutOfMemory THEN 0 .. Len(named) ELSE {Len(named)}) :
          /\ named' = [i \in DOMAIN named |->
                         IF i <= k THEN [named[i] EXCEPT !.ctx.suites = list] ELSE named[i]]
          /\ asked' = [asked EXCEPT !.suites = IF k = Len(named) THEN list ELSE Unsettled]
     /\ UNCHANGED <<alpn, alpn_len>>

(* ktls_keys_set_alpn copies name after name into the buffer and refuses   *)
(* at the first that does not fit, the ones before it already copied.      *)
Fits(list, k) == k <= Slots /\ \A i \in 1 .. k : list[i] \notin TooLong

Copied(list, k) == [i \in 1 .. Slots |-> IF i <= k THEN list[i] ELSE alpn[i]]

(* Then every context gets the callback and the list, the default one      *)
(* first (k = 0); a setter that fails leaves its own context with the      *)
(* callback only and the ones after it with neither.                       *)
WithAlpn(ctx, i, failed, list) ==
  [ctx EXCEPT !.picks = IF i <= failed THEN TRUE ELSE @,
              !.protos = IF i < failed THEN list ELSE @]

SetAlpn(list) ==
  \/ \E k \in 0 .. Len(list) - 1 :
       /\ Fits(list, k) /\ ~Fits(list, k + 1)
       /\ alpn' = Copied(list, k)
       /\ UNCHANGED <<default, named, suites, alpn_len, asked>>
  \/ /\ Fits(list, Len(list))
     /\ alpn' = Copied(list, Len(list))
     /\ alpn_len' = Len(list)
     /\ \E failed \in (IF OutOfMemory THEN 0 ELSE Len(named) + 1) .. Len(named) + 1 :
          /\ default' = WithAlpn(default, 0, failed, list)
          /\ named' = [i \in DOMAIN named |->
                         [named[i] EXCEPT !.ctx = WithAlpn(@, i, failed, list)]]
          /\ asked' = [asked EXCEPT !.alpn =
                         IF failed > Len(named) THEN list ELSE Unsettled]
     /\ UNCHANGED suites

(* ktls_ctx_follow.                                                        *)
FollowSuitesOnly(ctx) == [ctx EXCEPT !.suites = IF suites # <<>> THEN suites ELSE @]
Follow(ctx) ==
  [ctx EXCEPT !.suites = IF suites # <<>> THEN suites ELSE @,
              !.picks = alpn_len # 0,
              !.protos = SubSeq(alpn, 1, alpn_len)]

(* strcasecmp.                                                             *)
SameLetters(p, q) == p = q
SameHost(p, q) ==
  Len(p) = Len(q) /\ \A i \in DOMAIN p : Fold(p[i]) = Fold(q[i])

HostMatches(pattern, name) ==
  IF pattern[1] = "*" /\ Len(pattern) > 1
    THEN Len(name) > 1 /\ SameHost(Tail(name), Tail(pattern))
    ELSE SameHost(pattern, name)

(* A list grown at the front.                                              *)
GrownInFront(pair) == <<pair>> \o named
(* The realloc'd list with its new last pair.                              *)
Grown(pair) == Append(named, pair)

(* ktls_keys_add_certificate; good says that the PEM parses, the key       *)
(* belongs to the certificate and nothing ran out of memory.               *)
AddCertificate(host, good) ==
  \/ /\ host = <<>> \/ ~good \/ \E i \in DOMAIN named : SameHost(named[i].host, host)
     /\ UNCHANGED vars
  \/ /\ host # <<>> /\ good /\ ~\E i \in DOMAIN named : SameHost(named[i].host, host)
     /\ Len(named) < MaxNamed
     /\ named' = Grown([host |-> host, ctx |-> Follow(CtxNew)])
     /\ UNCHANGED <<default, settings>>

Next ==
  \/ \E list \in SuiteLists : SetCiphers(list)
  \/ \E list \in AlpnLists : SetAlpn(list)
  \/ \E host \in Hosts, good \in BOOLEAN : AddCertificate(host, good)

Spec == Init /\ [][Next]_vars
-----------------------------------------------------------------------------
(* ktls_name_pick: the pair that answers a client naming name (<<>> names  *)
(* nothing), 0 for the default.                                            *)
Matching(name) == {i \in DOMAIN named : HostMatches(named[i].host, name)}
NamePick(name) ==
  IF name = <<>> \/ Matching(name) = {} THEN 0
  ELSE CHOOSE i \in Matching(name) : \A j \in Matching(name) : i <= j

Ctx(i) == IF i = 0 THEN default ELSE named[i].ctx

(* ktls_alpn_pick reads the keys' own buffer, whichever context asked.     *)
AlpnPick(ctx, offers) ==
  IF ctx.picks THEN FirstOf(SubSeq(alpn, 1, alpn_len), offers) ELSE None

(* What a handshake settles on.                                            *)
Answer(name, ciphers, protocols) ==
  LET ctx == Ctx(NamePick(name))
  IN  [suite |-> FirstOf(ctx.suites, ciphers), alpn |-> AlpnPick(ctx, protocols)]

Ciphers == UNION {{list[i] : i \in DOMAIN list} : list \in SuiteLists}
Protocols == UNION {{list[i] : i \in DOMAIN list} : list \in AlpnLists}
Hellos == {<<>>} \union Names
-----------------------------------------------------------------------------
(* Whatever order the calls came in, refused ones among them, every client *)
(* is served with the suites and the protocols last asked for, by          *)
(* preference, whichever pair its server_name picked (ktls_ctx_follow),    *)
(* and a client of these keys offers them.  A call that failed half-way    *)
(* leaves its setting unsettled until one like it succeeds, and then       *)
(* nothing of the failure is left.                                         *)
ServesAsAsked ==
  /\ \A name \in Hellos, ciphers \in SUBSET Ciphers, protocols \in SUBSET Protocols :
       LET a == Answer(name, ciphers, protocols)
       IN  /\ asked.suites # Unsettled => a.suite = FirstOf(asked.suites, ciphers)
           /\ asked.alpn # Unsettled => a.alpn = FirstOf(asked.alpn, protocols)
  /\ asked.alpn # Unsettled => default.protos = asked.alpn

(* A pair that was accepted answers some client, unless a wildcard added   *)
(* before it covers its host: letter case leaves no pair out of reach      *)
(* (ktls_keys_add_certificate, ktls_name_pick).                            *)
EveryPairAnswers ==
  \A i \in DOMAIN named :
    \/ \E name \in Names : NamePick(name) = i
    \/ \E j \in 1 .. i - 1 :
         named[j].host[1] = "*" /\ HostMatches(named[j].host, named[i].host)

(* Adding a pair takes no name away from the pair that answers it already  *)
(* (ktls_name_pick).                                                       *)
AddTakesNothing ==
  [][\A name \in Hellos : NamePick(name) # 0 =>
       named'[NamePick(name)'].host = named[NamePick(name)].host]_vars
=============================================================================
