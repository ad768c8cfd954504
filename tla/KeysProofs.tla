----------------------------- MODULE KeysProofs ------------------------------
(***************************************************************************)
(* Keys' safety for any hosts, names, lists and buffer: every client is    *)
(* served as asked, every pair answers someone, and adding one takes no    *)
(* name from another.                                                      *)
(***************************************************************************)
EXTENDS Keys, WellFoundedInduction, TLAPS

(* The strings, the literals among them named for the provers.             *)
Words == STRING \union {"aes", "chacha", None, "unsettled"}

CtxType == [suites : Seq(Words), picks : BOOLEAN, protos : Seq(Words)]
PairType == [host : Hosts \ {<<>>}, ctx : CtxType]

(* What every variable ranges over.                                        *)
TypeInv ==
  /\ default \in CtxType
  /\ named \in Seq(PairType)
  /\ suites \in Seq(Words)
  /\ alpn \in [1 .. Slots -> Words]
  /\ alpn_len \in 0 .. Slots
  /\ asked \in [suites : Seq(Words), alpn : Seq(Words)]

(* Settled suites are what a new context would follow, and every context   *)
(* has them.                                                               *)
SuitesInv ==
  asked.suites # Unsettled =>
    /\ asked.suites = (IF suites = <<>> THEN DefaultSuites ELSE suites)
    /\ default.suites = asked.suites
    /\ \A i \in DOMAIN named : named[i].ctx.suites = asked.suites

(* Settled protocols are what the buffer counts, and every context asks    *)
(* the callback when there are any.                                        *)
AlpnInv ==
  asked.alpn # Unsettled =>
    /\ SubSeq(alpn, 1, alpn_len) = asked.alpn
    /\ default.protos = asked.alpn
    /\ alpn_len # 0 => default.picks /\ \A i \in DOMAIN named : named[i].ctx.picks

(* No two pairs are for one host.                                          *)
HostsInv ==
  \A i, j \in DOMAIN named : i # j => ~SameHost(named[i].host, named[j].host)

(* What a run of set_alpn calls must be like for AlpnInv: a list that is   *)
(* refused is refused before any of it was copied.                         *)
NoneHalfway == \A list \in AlpnLists : Fits(list, Len(list)) \/ ~Fits(list, 1)
-----------------------------------------------------------------------------
(* A set of numbers has a smallest.                                        *)
LEMMA Smallest ==
  ASSUME NEW T, T \subseteq Nat, T # {}
  PROVE  \E x \in T : \A y \in T : x <= y
<1> DEFINE R == OpToRel(<, Nat)
<1>1. IsWellFoundedOn(R, Nat)
  BY NatLessThanWellFounded
<1>2. \A x, y \in Nat : y < x => <<y, x>> \in R
  BY DEF OpToRel
<1> HIDE DEF R
<1>3. PICK x \in T : \A y \in T : ~(<<y, x>> \in R)
  BY <1>1, WFMin
<1>4. \A y \in T : ~(y < x)
  BY <1>2, <1>3
<1> QED
  BY <1>3, <1>4

(* Every list, host and name is made of words.                             *)
LEMMA Lists ==
  /\ \A s \in AlpnLists \union SuiteLists \union Hosts \union Names : s \in Seq(Words)
  /\ Unsettled \in Seq(Words)
<1>1. \A s \in Seq(STRING) : s \in Seq(Words)
  BY DEF Words
<1>2. "unsettled" \in Words
  BY DEF Words
<1>3. \A x \in Words : <<x>> \in Seq(Words)
  OBVIOUS
<1> QED
  BY <1>1, <1>2, <1>3, KeysAssumption DEF Unsettled

(* The default context's suites are a list, as an empty context's are.     *)
LEMMA NewCtx == CtxNew \in CtxType /\ DefaultSuites \in Seq(Words) /\ CtxNew.suites = DefaultSuites
<1>1. DefaultSuites \in Seq(Words)
  <2>1. "aes" \in Words /\ "chacha" \in Words
    BY DEF Words
  <2>2. \A x, y \in Words : <<x, y>> \in Seq(Words)
    OBVIOUS
  <2> QED
    BY <2>1, <2>2 DEF DefaultSuites
<1> QED
  BY <1>1 DEF CtxNew, CtxType

(* Nothing asked for, nothing added.                                       *)
LEMMA InitHolds == Init => TypeInv /\ SuitesInv /\ AlpnInv /\ HostsInv
<1> SUFFICES ASSUME Init PROVE TypeInv /\ SuitesInv /\ AlpnInv /\ HostsInv
  OBVIOUS
<1>1. /\ default = CtxNew /\ named = <<>> /\ suites = <<>> /\ alpn_len = 0
      /\ alpn = [i \in 1 .. Slots |-> None]
      /\ asked = [suites |-> DefaultSuites, alpn |-> <<>>]
  BY DEF Init
<1>2. TypeInv
  <2>1. alpn \in [1 .. Slots -> Words]
    <3>1. None \in Words
      BY DEF Words
    <3> QED
      BY <1>1, <3>1
  <2>2. asked \in [suites : Seq(Words), alpn : Seq(Words)]
    BY <1>1, NewCtx
  <2>3. alpn_len \in 0 .. Slots
    BY <1>1, KeysAssumption
  <2> QED
    BY <1>1, <2>1, <2>2, <2>3, NewCtx DEF TypeInv
<1>3. SuitesInv
  BY <1>1, NewCtx DEF SuitesInv
<1>4. AlpnInv
  <2>1. SubSeq(alpn, 1, 0) = <<>>
    <3>1. alpn \in Seq(Words)
      BY <1>2, KeysAssumption DEF TypeInv
    <3> QED
      BY <3>1
  <2> QED
    BY <1>1, <2>1 DEF AlpnInv, CtxNew
<1>5. HostsInv
  BY <1>1 DEF HostsInv
<1> QED
  BY <1>2, <1>3, <1>4, <1>5
(* A function over 1 .. n is a sequence.                                   *)
LEMMA IsSeq ==
  ASSUME NEW S, NEW n \in Nat, NEW f, f = [i \in 1 .. n |-> f[i]],
         \A i \in 1 .. n : f[i] \in S
  PROVE  f \in Seq(S) /\ DOMAIN f = 1 .. n /\ Len(f) = n
<1>1. f \in [1 .. n -> S]
  OBVIOUS
<1> QED
  BY <1>1

(* What a pair is once its context took a list of suites.                  *)
LEMMA PairTakes ==
  ASSUME NEW r, r \in PairType, NEW list, list \in Seq(Words)
  PROVE  /\ [r EXCEPT !.ctx.suites = list] \in PairType
         /\ [r EXCEPT !.ctx.suites = list].host = r.host
         /\ [r EXCEPT !.ctx.suites = list].ctx.picks = r.ctx.picks
         /\ [r EXCEPT !.ctx.suites = list].ctx.suites = list
<1> DEFINE c == [r.ctx EXCEPT !.suites = list]
<1>1. r.ctx \in CtxType /\ r.host \in Hosts \ {<<>>}
  BY DEF PairType
<1>2. c \in CtxType /\ c.picks = r.ctx.picks /\ c.suites = list
  BY <1>1 DEF CtxType
<1>3. [r EXCEPT !.ctx.suites = list] = [r EXCEPT !.ctx = c]
  BY DEF PairType
<1> HIDE DEF c
<1>4. r = [host |-> r.host, ctx |-> r.ctx]
  BY DEF PairType
<1>5. [r EXCEPT !.ctx = c] = [host |-> r.host, ctx |-> c]
  BY <1>4
<1> QED
  BY <1>1, <1>2, <1>3, <1>5 DEF PairType

-----------------------------------------------------------------------------
(* What is asked for once the first k pairs took the list.                 *)
AskedFor(k, list) ==
  asked' = [asked EXCEPT !.suites = IF k = Len(named) THEN list ELSE Unsettled]

(* ktls_keys_set_ciphers, where it does something: the default context and *)
(* the first k pairs take the list, and nothing else of them changes.      *)
LEMMA CiphersDo ==
  ASSUME TypeInv, NEW list \in SuiteLists, SetCiphers(list), ~UNCHANGED vars
  PROVE  \E k \in 0 .. Len(named) :
           /\ list # <<>> /\ suites' = list /\ alpn' = alpn /\ alpn_len' = alpn_len
           /\ default' = [default EXCEPT !.suites = list]
           /\ named' \in Seq(PairType) /\ DOMAIN named' = DOMAIN named
           /\ \A i \in DOMAIN named :
                /\ named'[i].host = named[i].host
                /\ named'[i].ctx.picks = named[i].ctx.picks
                /\ i <= k => named'[i].ctx.suites = list
           /\ AskedFor(k, list)
<1> USE DEF TypeInv
<1>1. /\ list # <<>> /\ list \notin BadSuites
      /\ default' = [default EXCEPT !.suites = list]
      /\ suites' = list
      /\ \E k \in (IF OutOfMemory THEN 0 .. Len(named) ELSE {Len(named)}) :
           /\ named' = [i \in DOMAIN named |->
                          IF i <= k THEN [named[i] EXCEPT !.ctx.suites = list] ELSE named[i]]
           /\ asked' = [asked EXCEPT !.suites = IF k = Len(named) THEN list ELSE Unsettled]
      /\ alpn' = alpn /\ alpn_len' = alpn_len
  BY DEF SetCiphers
<1>2. PICK k : /\ k \in (IF OutOfMemory THEN 0 .. Len(named) ELSE {Len(named)})
               /\ named' = [i \in DOMAIN named |->
                             IF i <= k THEN [named[i] EXCEPT !.ctx.suites = list] ELSE named[i]]
               /\ asked' = [asked EXCEPT !.suites = IF k = Len(named) THEN list ELSE Unsettled]
  BY <1>1
<1>3. Len(named) \in Nat /\ DOMAIN named = 1 .. Len(named)
  OBVIOUS
<1>4. k \in 0 .. Len(named)
  BY <1>2, <1>3
<1>5. list \in Seq(Words)
  BY Lists
<1>6. ASSUME NEW i, i \in DOMAIN named
      PROVE  /\ named'[i] \in PairType
             /\ named'[i].host = named[i].host
             /\ named'[i].ctx.picks = named[i].ctx.picks
             /\ i <= k => named'[i].ctx.suites = list
  <2>1. named[i] \in PairType
    BY <1>6
  <2>2. named'[i] = IF i <= k THEN [named[i] EXCEPT !.ctx.suites = list] ELSE named[i]
    BY <1>2, <1>6
  <2> DEFINE r == named[i]
  <2>3. r \in PairType /\ named'[i] = IF i <= k THEN [r EXCEPT !.ctx.suites = list] ELSE r
    BY <2>1, <2>2
  <2> HIDE DEF r
  <2>4. /\ named'[i] \in PairType /\ named'[i].host = r.host
        /\ named'[i].ctx.picks = r.ctx.picks
        /\ i <= k => named'[i].ctx.suites = list
    <3> DEFINE q == [r EXCEPT !.ctx.suites = list]
    <3>1. /\ q \in PairType /\ q.host = r.host
          /\ q.ctx.picks = r.ctx.picks /\ q.ctx.suites = list
      BY <1>5, <2>3, PairTakes
    <3>2. named'[i] = IF i <= k THEN q ELSE r
      BY <2>3
    <3> HIDE DEF q
    <3>3. CASE i <= k
      BY <3>1, <3>2, <3>3
    <3>4. CASE ~(i <= k)
      BY <2>3, <3>2, <3>4
    <3> QED
      BY <3>3, <3>4
  <2> QED
    BY <2>4 DEF r
<1>7. DOMAIN named' = 1 .. Len(named)
  BY <1>2, <1>3
<1>8. named' \in Seq(PairType)
  <2>1. named' = [i \in 1 .. Len(named) |-> named'[i]]
    BY <1>2, <1>3
  <2>2. \A i \in 1 .. Len(named) : named'[i] \in PairType
    BY <1>3, <1>6
  <2> QED
    BY <1>3, <2>1, <2>2, IsSeq
<1>9. AskedFor(k, list)
  BY <1>2 DEF AskedFor
<1> QED
  BY <1>1, <1>3, <1>4, <1>6, <1>7, <1>8, <1>9

(* A call that did something left every context on the list, or said that  *)
(* it had not.                                                             *)
LEMMA CiphersKeep ==
  ASSUME TypeInv, NEW list \in SuiteLists, SetCiphers(list), ~UNCHANGED vars
  PROVE  /\ TypeInv' /\ SuitesInv'
         /\ HostsInv => HostsInv'
         /\ AlpnInv => AlpnInv'
<1> USE DEF TypeInv
<1>1. PICK k :
         /\ k \in 0 .. Len(named)
         /\ list # <<>> /\ suites' = list /\ alpn' = alpn /\ alpn_len' = alpn_len
         /\ default' = [default EXCEPT !.suites = list]
         /\ named' \in Seq(PairType) /\ DOMAIN named' = DOMAIN named
         /\ \A i \in DOMAIN named :
              /\ named'[i].host = named[i].host
              /\ named'[i].ctx.picks = named[i].ctx.picks
              /\ i <= k => named'[i].ctx.suites = list
         /\ AskedFor(k, list)
  BY CiphersDo
<1>2. list \in Seq(Words) /\ Unsettled \in Seq(Words)
  BY Lists
<1>3. /\ default' \in CtxType /\ default'.suites = list
      /\ default'.protos = default.protos /\ default'.picks = default.picks
  <2>1. default \in CtxType /\ default' = [default EXCEPT !.suites = list]
    BY <1>1
  <2> QED
    BY <1>2, <2>1 DEF CtxType
<1>4. /\ asked' \in [suites : Seq(Words), alpn : Seq(Words)] /\ asked'.alpn = asked.alpn
      /\ asked'.suites = IF k = Len(named) THEN list ELSE Unsettled
  <2>3. AskedFor(k, list)
    BY <1>1
  <2>0. asked \in [suites : Seq(Words), alpn : Seq(Words)]
    OBVIOUS
  <2>1. CASE k = Len(named)
    <3>1. asked' = [asked EXCEPT !.suites = list]
      BY <2>3, <2>1 DEF AskedFor
    <3> QED
      BY <1>2, <2>0, <2>1, <3>1
  <2>2. CASE k # Len(named)
    <3>1. asked' = [asked EXCEPT !.suites = Unsettled]
      BY <2>3, <2>2 DEF AskedFor
    <3> QED
      BY <1>2, <2>0, <2>2, <3>1
  <2> QED
    BY <2>1, <2>2
<1>5. TypeInv'
  BY <1>1, <1>2, <1>3, <1>4
<1>6. SuitesInv'
  <2> SUFFICES ASSUME asked'.suites # Unsettled
               PROVE  /\ asked'.suites = (IF suites' = <<>> THEN DefaultSuites ELSE suites')
                      /\ default'.suites = asked'.suites
                      /\ \A i \in DOMAIN named' : named'[i].ctx.suites = asked'.suites
    BY DEF SuitesInv
  <2>1. k = Len(named) /\ asked'.suites = list
    BY <1>4
  <2>2. \A i \in DOMAIN named : i <= k
    BY <2>1
  <2> QED
    BY <1>1, <1>3, <2>1, <2>2
<1>7. HostsInv => HostsInv'
  BY <1>1 DEF HostsInv
<1>8. AlpnInv => AlpnInv'
  BY <1>1, <1>3, <1>4 DEF AlpnInv
<1> QED
  BY <1>5, <1>6, <1>7, <1>8
-----------------------------------------------------------------------------
(* What a context is once ktls_keys_set_alpn came by: its suites stay.     *)
LEMMA CtxTakes ==
  ASSUME NEW c, c \in CtxType, NEW i, NEW failed, NEW list, list \in Seq(Words)
  PROVE  /\ WithAlpn(c, i, failed, list) \in CtxType
         /\ WithAlpn(c, i, failed, list).suites = c.suites
         /\ i <= failed => WithAlpn(c, i, failed, list).picks
         /\ i < failed => WithAlpn(c, i, failed, list).protos = list
<1> DEFINE p == IF i <= failed THEN TRUE ELSE c.picks
           l == IF i < failed THEN list ELSE c.protos
<1>1. c.picks \in BOOLEAN /\ c.protos \in Seq(Words) /\ c.suites \in Seq(Words)
  BY DEF CtxType
<1>2. p \in BOOLEAN /\ l \in Seq(Words)
  BY <1>1
<1>3. c = [suites |-> c.suites, picks |-> c.picks, protos |-> c.protos]
  BY DEF CtxType
<1>4. WithAlpn(c, i, failed, list) = [suites |-> c.suites, picks |-> p, protos |-> l]
  <2>1. WithAlpn(c, i, failed, list) = [c EXCEPT !.picks = p, !.protos = l]
    BY DEF WithAlpn, CtxType
  <2> HIDE DEF p, l
  <2> QED
    BY <1>3, <2>1
<1> HIDE DEF p, l
<1>5. /\ WithAlpn(c, i, failed, list) \in CtxType
      /\ WithAlpn(c, i, failed, list).suites = c.suites
      /\ WithAlpn(c, i, failed, list).picks = p
      /\ WithAlpn(c, i, failed, list).protos = l
  BY <1>1, <1>2, <1>4 DEF CtxType
<1> QED
  BY <1>5 DEF p, l

(* The buffer after k names of a list were copied into it.                 *)
LEMMA CopiedIs ==
  ASSUME TypeInv, NEW list, list \in Seq(Words), NEW k, k \in 0 .. Len(list)
  PROVE  /\ Copied(list, k) \in [1 .. Slots -> Words]
         /\ k = 0 => Copied(list, k) = alpn
         /\ k = Len(list) /\ k <= Slots => SubSeq(Copied(list, k), 1, k) = list
<1>1. alpn \in [1 .. Slots -> Words] /\ Slots \in Nat
  BY KeysAssumption DEF TypeInv
<1>2. \A i \in 1 .. Slots : i <= k => list[i] \in Words
  BY <1>1
<1>3. Copied(list, k) \in [1 .. Slots -> Words]
  BY <1>1, <1>2 DEF Copied
<1>4. ASSUME k = 0 PROVE Copied(list, k) = alpn
  <2>1. \A i \in 1 .. Slots : ~(i <= k)
    BY <1>1, <1>4
  <2> QED
    BY <1>1, <2>1 DEF Copied
<1>5. ASSUME k = Len(list), k <= Slots PROVE SubSeq(Copied(list, k), 1, k) = list
  <2> DEFINE b == Copied(list, k)
  <2>1. \A i \in 1 .. k : b[i] = list[i]
    BY <1>1, <1>5 DEF Copied
  <2>2. b \in Seq(Words) /\ Len(b) = Slots
    BY <1>1, <1>3
  <2> HIDE DEF b
  <2>3. /\ SubSeq(b, 1, k) \in Seq(Words) /\ Len(SubSeq(b, 1, k)) = k
        /\ \A i \in 1 .. k : SubSeq(b, 1, k)[i] = b[i]
    BY <1>1, <1>5, <2>2
  <2> DEFINE s == SubSeq(b, 1, k)
  <2>4. s \in Seq(Words) /\ Len(s) = Len(list) /\ \A i \in 1 .. Len(list) : s[i] = list[i]
    BY <1>5, <2>1, <2>3
  <2> HIDE DEF s
  <2>5. s = list
    BY <2>4
  <2> QED
    BY <2>5 DEF s, b
<1> QED
  BY <1>3, <1>4, <1>5

(* A refused list changes the names in the buffer at most, and not even    *)
(* those when its first name is refused.                                   *)
LEMMA RefusedKeeps ==
  ASSUME TypeInv, NEW list \in AlpnLists, NEW k, k \in 0 .. Len(list) - 1, Fits(list, k),
         ~Fits(list, k + 1), alpn' = Copied(list, k),
         UNCHANGED <<default, named, suites, alpn_len, asked>>
  PROVE  /\ TypeInv'
         /\ SuitesInv => SuitesInv'
         /\ HostsInv => HostsInv'
         /\ AlpnInv /\ NoneHalfway => AlpnInv'
<1>1. list \in Seq(Words)
  BY Lists
<1>2. k \in 0 .. Len(list) /\ k \in Nat /\ Len(list) \in Nat /\ k < Len(list)
  BY <1>1
<1>3. alpn' \in [1 .. Slots -> Words] /\ (k = 0 => alpn' = alpn)
  BY <1>1, <1>2, CopiedIs
<1>4. TypeInv'
  BY <1>3 DEF TypeInv
<1>5. SuitesInv => SuitesInv'
  BY DEF SuitesInv
<1>6. HostsInv => HostsInv'
  BY DEF HostsInv
<1>7. NoneHalfway => k = 0
  <2> SUFFICES ASSUME NoneHalfway, k # 0 PROVE FALSE
    OBVIOUS
  <2>1. Fits(list, 1)
    <3>1. k <= Slots /\ \A i \in 1 .. k : list[i] \notin TooLong
      BY DEF Fits
    <3>2. 1 <= Slots /\ \A i \in 1 .. 1 : i \in 1 .. k
      BY <1>2, <3>1, KeysAssumption
    <3> QED
      BY <3>1, <3>2 DEF Fits
  <2>2. Fits(list, Len(list))
    BY <2>1 DEF NoneHalfway
  <2>3. Fits(list, k + 1)
    BY <1>2, <2>2, KeysAssumption DEF Fits
  <2> QED
    BY <2>3
<1>8. AlpnInv /\ NoneHalfway => AlpnInv'
  BY <1>3, <1>7 DEF AlpnInv
<1> QED
  BY <1>4, <1>5, <1>6, <1>8

(* What is asked for once the setters of the first contexts succeeded.     *)
OfferedUntil(failed, list) ==
  asked' = [asked EXCEPT !.alpn = IF failed > Len(named) THEN list ELSE Unsettled]

(* A list that fits: with no setter failing every context has the callback *)
(* and the default one offers the list.                                    *)
LEMMA TakenKeeps ==
  ASSUME TypeInv, NEW list \in AlpnLists, Fits(list, Len(list)),
         alpn' = Copied(list, Len(list)), alpn_len' = Len(list), suites' = suites,
         NEW failed, failed \in 0 .. Len(named) + 1,
         default' = WithAlpn(default, 0, failed, list),
         named' = [i \in DOMAIN named |->
                     [named[i] EXCEPT !.ctx = WithAlpn(@, i, failed, list)]],
         OfferedUntil(failed, list)
  PROVE  /\ TypeInv' /\ AlpnInv'
         /\ SuitesInv => SuitesInv'
         /\ HostsInv => HostsInv'
<1>1. list \in Seq(Words) /\ Unsettled \in Seq(Words)
  BY Lists
<1>2. Len(list) \in Nat /\ Len(list) <= Slots /\ Slots \in Nat /\ Len(list) \in 0 .. Len(list)
  BY <1>1, KeysAssumption DEF Fits
<1>3. alpn' \in [1 .. Slots -> Words] /\ SubSeq(alpn', 1, alpn_len') = list
  BY <1>1, <1>2, CopiedIs
<1>4. Len(named) \in Nat /\ DOMAIN named = 1 .. Len(named) /\ default \in CtxType
  BY DEF TypeInv
<1>5. /\ default' \in CtxType /\ default'.suites = default.suites
      /\ 0 <= failed => default'.picks
      /\ 0 < failed => default'.protos = list
  BY <1>1, <1>4, CtxTakes
<1>6. ASSUME NEW i, i \in DOMAIN named
      PROVE  /\ named'[i] \in PairType /\ named'[i].host = named[i].host
             /\ named'[i].ctx.suites = named[i].ctx.suites
             /\ i <= failed => named'[i].ctx.picks
  <2> DEFINE r == named[i]
             c == WithAlpn(r.ctx, i, failed, list)
  <2>1. r \in PairType
    BY <1>6 DEF TypeInv
  <2>2. r.ctx \in CtxType /\ r = [host |-> r.host, ctx |-> r.ctx] /\ r.host \in Hosts \ {<<>>}
    BY <2>1 DEF PairType
  <2>3. named'[i] = [r EXCEPT !.ctx = WithAlpn(@, i, failed, list)]
    BY <1>6
  <2> HIDE DEF r
  <2>4. c \in CtxType /\ c.suites = r.ctx.suites /\ (i <= failed => c.picks)
    BY <1>1, <2>2, CtxTakes
  <2>5. named'[i] = [r EXCEPT !.ctx = c]
    BY <2>3
  <2> HIDE DEF c
  <2>6. named'[i] = [host |-> r.host, ctx |-> c]
    BY <2>2, <2>5
  <2>7. /\ named'[i] \in PairType /\ named'[i].host = r.host /\ named'[i].ctx = c
    BY <2>2, <2>4, <2>6 DEF PairType
  <2> QED
    BY <2>4, <2>7 DEF r
<1>7. named' \in Seq(PairType) /\ DOMAIN named' = DOMAIN named
  <2>1. named' = [i \in 1 .. Len(named) |-> named'[i]]
    BY <1>4
  <2>2. \A i \in 1 .. Len(named) : named'[i] \in PairType
    BY <1>4, <1>6
  <2> QED
    BY <1>4, <2>1, <2>2, IsSeq
<1>8. /\ asked' \in [suites : Seq(Words), alpn : Seq(Words)] /\ asked'.suites = asked.suites
      /\ asked'.alpn = IF failed > Len(named) THEN list ELSE Unsettled
  <2>1. asked \in [suites : Seq(Words), alpn : Seq(Words)]
    BY DEF TypeInv
  <2>2. CASE failed > Len(named)
    <3>1. asked' = [asked EXCEPT !.alpn = list]
      BY <2>2 DEF OfferedUntil
    <3> QED
      BY <1>1, <2>1, <2>2, <3>1
  <2>3. CASE ~(failed > Len(named))
    <3>1. asked' = [asked EXCEPT !.alpn = Unsettled]
      BY <2>3 DEF OfferedUntil
    <3> QED
      BY <1>1, <2>1, <2>3, <3>1
  <2> QED
    BY <2>2, <2>3
<1>9. TypeInv'
  <2>1. alpn_len' \in 0 .. Slots
    BY <1>2
  <2> QED
    BY <1>3, <1>5, <1>7, <1>8, <2>1 DEF TypeInv
<1>10. AlpnInv'
  <2> SUFFICES ASSUME asked'.alpn # Unsettled
               PROVE  /\ SubSeq(alpn', 1, alpn_len') = asked'.alpn
                      /\ default'.protos = asked'.alpn
                      /\ default'.picks
                      /\ \A i \in DOMAIN named' : named'[i].ctx.picks
    BY DEF AlpnInv
  <2>1. failed > Len(named) /\ asked'.alpn = list
    BY <1>8
  <2>2. 0 < failed /\ 0 <= failed /\ \A i \in DOMAIN named : i <= failed
    BY <1>4, <2>1
  <2> QED
    BY <1>3, <1>5, <1>6, <1>7, <2>1, <2>2
<1>11. SuitesInv => SuitesInv'
  BY <1>5, <1>6, <1>7, <1>8 DEF SuitesInv
<1>12. HostsInv => HostsInv'
  <2>1. \A i \in DOMAIN named : named'[i].host = named[i].host
    BY <1>6
  <2>2. DOMAIN named' = DOMAIN named
    BY <1>7
  <2> SUFFICES ASSUME HostsInv, NEW i, i \in DOMAIN named, NEW j, j \in DOMAIN named, i # j
               PROVE  ~SameHost(named'[i].host, named'[j].host)
    BY <2>2 DEF HostsInv
  <2>3. ~SameHost(named[i].host, named[j].host)
    BY DEF HostsInv
  <2> QED
    BY <2>1, <2>3
<1> QED
  BY <1>9, <1>10, <1>11, <1>12
-----------------------------------------------------------------------------
(* ktls_ctx_follow: a new pair's context has what was asked for so far.    *)
LEMMA FollowIs ==
  ASSUME TypeInv
  PROVE  /\ Follow(CtxNew) \in CtxType
         /\ Follow(CtxNew).suites = IF suites = <<>> THEN DefaultSuites ELSE suites
         /\ Follow(CtxNew).picks = (alpn_len # 0)
<1> DEFINE l == SubSeq(alpn, 1, alpn_len)
           u == IF suites = <<>> THEN DefaultSuites ELSE suites
           k == alpn_len # 0
<1>1. l \in Seq(Words)
  <2>1. alpn \in Seq(Words) /\ Len(alpn) = Slots /\ alpn_len \in 0 .. Slots /\ Slots \in Nat
    BY KeysAssumption DEF TypeInv
  <2> QED
    BY <2>1
<1>2. u \in Seq(Words)
  BY NewCtx DEF TypeInv
<1>3. k \in BOOLEAN
  OBVIOUS
<1>4. Follow(CtxNew) = [CtxNew EXCEPT !.suites = u, !.picks = k, !.protos = l]
  BY NewCtx DEF Follow
<1> HIDE DEF l, u, k
<1>5. Follow(CtxNew) = [suites |-> u, picks |-> k, protos |-> l]
  BY <1>4 DEF CtxNew
<1>6. Follow(CtxNew) \in CtxType /\ Follow(CtxNew).suites = u /\ Follow(CtxNew).picks = k
  BY <1>1, <1>2, <1>3, <1>5 DEF CtxType
<1> QED
  BY <1>6 DEF u, k

(* strcasecmp does not care which host comes first, nor which of the       *)
(* spellings of one host a third is compared with.                         *)
LEMMA SameIsSame ==
  ASSUME NEW p, p \in Seq(Words), NEW q, q \in Seq(Words)
  PROVE  /\ SameHost(p, q) => SameHost(q, p)
         /\ \A r \in Seq(Words) : SameHost(p, q) /\ SameHost(q, r) => SameHost(p, r)
<1>1. \A r \in Seq(Words) : DOMAIN r = 1 .. Len(r)
  OBVIOUS
<1>2. SameHost(p, q) => SameHost(q, p)
  BY <1>1 DEF SameHost
<1>3. ASSUME NEW r, r \in Seq(Words), SameHost(p, q), SameHost(q, r) PROVE SameHost(p, r)
  BY <1>1, <1>3 DEF SameHost
<1> QED
  BY <1>2, <1>3

(* ktls_keys_add_certificate, where it does something: one pair more, at   *)
(* the end, for a host that no pair is for.                                *)
LEMMA AddDoes ==
  ASSUME TypeInv, NEW host \in Hosts, NEW good \in BOOLEAN, AddCertificate(host, good),
         ~UNCHANGED vars
  PROVE  /\ default' = default /\ suites' = suites /\ alpn' = alpn
         /\ alpn_len' = alpn_len /\ asked' = asked
         /\ named' \in Seq(PairType) /\ DOMAIN named' = 1 .. Len(named) + 1
         /\ \A i \in DOMAIN named : named'[i] = named[i]
         /\ named'[Len(named) + 1].host = host
         /\ named'[Len(named) + 1].ctx = Follow(CtxNew)
         /\ \A i \in DOMAIN named : ~SameHost(named[i].host, host)
<1> DEFINE pair == [host |-> host, ctx |-> Follow(CtxNew)]
<1>1. /\ host # <<>> /\ ~\E i \in DOMAIN named : SameHost(named[i].host, host)
      /\ named' = Append(named, pair)
      /\ default' = default /\ UNCHANGED settings
  BY DEF AddCertificate, Grown
<1>2. pair \in PairType /\ pair.host = host /\ pair.ctx = Follow(CtxNew)
  BY <1>1, FollowIs DEF PairType
<1>3. named \in Seq(PairType)
  BY DEF TypeInv
<1> HIDE DEF pair
<1>4. /\ named' \in Seq(PairType) /\ DOMAIN named' = 1 .. Len(named) + 1
      /\ \A i \in DOMAIN named : named'[i] = named[i]
      /\ named'[Len(named) + 1] = pair
  BY <1>1, <1>2, <1>3
<1> QED
  BY <1>1, <1>2, <1>4 DEF settings

(* The new pair is like the ones before it, and for a host of its own.     *)
LEMMA AddKeeps ==
  ASSUME TypeInv, NEW host \in Hosts, NEW good \in BOOLEAN, AddCertificate(host, good),
         ~UNCHANGED vars
  PROVE  /\ TypeInv'
         /\ SuitesInv => SuitesInv'
         /\ HostsInv => HostsInv'
         /\ AlpnInv => AlpnInv'
<1> DEFINE n == Len(named) + 1
<1>1. /\ default' = default /\ suites' = suites /\ alpn' = alpn
      /\ alpn_len' = alpn_len /\ asked' = asked
      /\ named' \in Seq(PairType) /\ DOMAIN named' = 1 .. n
      /\ \A i \in DOMAIN named : named'[i] = named[i]
      /\ named'[n].host = host /\ named'[n].ctx = Follow(CtxNew)
      /\ \A i \in DOMAIN named : ~SameHost(named[i].host, host)
  BY AddDoes
<1>2. /\ \A i \in DOMAIN named' : i = n \/ i \in DOMAIN named
      /\ n \notin DOMAIN named
  <2>1. named \in Seq(PairType) /\ Len(named) \in Nat /\ DOMAIN named = 1 .. Len(named)
    BY DEF TypeInv
  <2>2. \A i \in 1 .. Len(named) + 1 : i = Len(named) + 1 \/ i \in 1 .. Len(named)
    BY <2>1
  <2>3. Len(named) + 1 \notin 1 .. Len(named)
    BY <2>1
  <2> QED
    BY <1>1, <2>1, <2>2, <2>3
<1> HIDE DEF n
<1>3. TypeInv'
  BY <1>1 DEF TypeInv
<1>4. SuitesInv => SuitesInv'
  <2> SUFFICES ASSUME SuitesInv, asked.suites # Unsettled, NEW i, i \in DOMAIN named'
               PROVE  named'[i].ctx.suites = asked.suites
    BY <1>1 DEF SuitesInv
  <2>1. named'[n].ctx.suites = asked.suites
    BY <1>1, FollowIs DEF SuitesInv
  <2> QED
    BY <1>1, <1>2, <2>1 DEF SuitesInv
<1>5. AlpnInv => AlpnInv'
  <2> SUFFICES ASSUME AlpnInv, asked.alpn # Unsettled, alpn_len # 0, NEW i, i \in DOMAIN named'
               PROVE  named'[i].ctx.picks
    BY <1>1 DEF AlpnInv
  <2>1. named'[n].ctx.picks
    BY <1>1, FollowIs
  <2> QED
    BY <1>1, <1>2, <2>1 DEF AlpnInv
<1>6. HostsInv => HostsInv'
  <2> SUFFICES ASSUME HostsInv, NEW i, i \in DOMAIN named', NEW j, j \in DOMAIN named', i # j
               PROVE  ~SameHost(named'[i].host, named'[j].host)
    BY DEF HostsInv
  <2>1. CASE i \in DOMAIN named /\ j \in DOMAIN named
    BY <1>1, <2>1 DEF HostsInv
  <2>2. CASE i \in DOMAIN named /\ j = n
    BY <1>1, <2>2
  <2>3. CASE i = n /\ j \in DOMAIN named
    <3>1. ~SameHost(named[j].host, host)
      BY <1>1, <2>3
    <3>2. named[j] \in PairType
      BY <2>3 DEF TypeInv
    <3>3. host \in Seq(Words) /\ named[j].host \in Seq(Words)
      BY <3>2, Lists DEF PairType
    <3>4. ~SameHost(host, named[j].host)
      BY <3>1, <3>3, SameIsSame
    <3> QED
      BY <1>1, <2>3, <3>4
  <2> QED
    BY <1>2, <2>1, <2>2, <2>3
<1> QED
  BY <1>3, <1>4, <1>5, <1>6
-----------------------------------------------------------------------------
(* What holds whatever is asked for, refused or failing half-way.          *)
KeysInv == TypeInv /\ SuitesInv /\ HostsInv

(* Every call, whether it is refused, fails half-way or succeeds.          *)
LEMMA NextKeeps ==
  ASSUME KeysInv, [Next]_vars
  PROVE  KeysInv' /\ (AlpnInv /\ NoneHalfway => AlpnInv')
<1> USE DEF KeysInv
<1>1. CASE UNCHANGED vars
  <2>1. /\ default' = default /\ named' = named /\ suites' = suites /\ alpn' = alpn
        /\ alpn_len' = alpn_len /\ asked' = asked
    BY <1>1 DEF vars, settings
  <2> QED
    BY <2>1 DEF TypeInv, SuitesInv, HostsInv, AlpnInv
<1>2. CASE ~UNCHANGED vars /\ \E list \in SuiteLists : SetCiphers(list)
  BY <1>2, CiphersKeep
<1>3. CASE ~UNCHANGED vars /\ \E host \in Hosts, good \in BOOLEAN : AddCertificate(host, good)
  BY <1>3, AddKeeps
<1>4. ASSUME NEW list \in AlpnLists, SetAlpn(list)
      PROVE  KeysInv' /\ (AlpnInv /\ NoneHalfway => AlpnInv')
  <2>1. CASE \E k \in 0 .. Len(list) - 1 :
               /\ Fits(list, k) /\ ~Fits(list, k + 1) /\ alpn' = Copied(list, k)
               /\ UNCHANGED <<default, named, suites, alpn_len, asked>>
    <3>1. PICK k : /\ k \in 0 .. Len(list) - 1
                   /\ Fits(list, k) /\ ~Fits(list, k + 1) /\ alpn' = Copied(list, k)
                   /\ UNCHANGED <<default, named, suites, alpn_len, asked>>
      BY <2>1
    <3> QED
      BY <3>1, RefusedKeeps
  <2>2. CASE /\ Fits(list, Len(list))
             /\ alpn' = Copied(list, Len(list)) /\ alpn_len' = Len(list)
             /\ \E failed \in (IF OutOfMemory THEN 0 ELSE Len(named) + 1) .. Len(named) + 1 :
                  /\ default' = WithAlpn(default, 0, failed, list)
                  /\ named' = [i \in DOMAIN named |->
                                 [named[i] EXCEPT !.ctx = WithAlpn(@, i, failed, list)]]
                  /\ OfferedUntil(failed, list)
             /\ UNCHANGED suites
    <3>1. PICK failed :
            /\ failed \in (IF OutOfMemory THEN 0 ELSE Len(named) + 1) .. Len(named) + 1
            /\ default' = WithAlpn(default, 0, failed, list)
            /\ named' = [i \in DOMAIN named |->
                           [named[i] EXCEPT !.ctx = WithAlpn(@, i, failed, list)]]
            /\ OfferedUntil(failed, list)
      BY <2>2
    <3>2. failed \in 0 .. Len(named) + 1
      <4>1. Len(named) \in Nat
        BY DEF TypeInv
      <4> QED
        BY <3>1, <4>1
    <3> QED
      BY <2>2, <3>1, <3>2, TakenKeeps
  <2> QED
    BY <1>4, <2>1, <2>2 DEF SetAlpn, OfferedUntil
<1> QED
  BY <1>1, <1>2, <1>3, <1>4 DEF Next

(* Whatever is asked for in whatever order, the invariant holds.           *)
THEOREM KeysInvariant == Spec => []KeysInv
<1>1. Init => KeysInv
  BY InitHolds DEF KeysInv
<1>2. KeysInv /\ [Next]_vars => KeysInv'
  BY NextKeeps
<1> QED
  BY <1>1, <1>2, PTL DEF Spec

(* With lists refused at their first name only, so does AlpnInv.           *)
THEOREM AlpnInvariant == ASSUME NoneHalfway PROVE Spec => []AlpnInv
<1>1. Init => AlpnInv
  BY InitHolds
<1>2. KeysInv /\ AlpnInv /\ [Next]_vars => AlpnInv'
  BY NextKeeps
<1> QED
  BY <1>1, <1>2, KeysInvariant, PTL DEF Spec
-----------------------------------------------------------------------------
(* The smallest of a set of numbers is what CHOOSE finds.                  *)
LEMMA ChooseSmallest ==
  ASSUME NEW T, T \subseteq Nat, T # {}
  PROVE  LET c == CHOOSE i \in T : \A j \in T : i <= j
         IN  c \in T /\ \A j \in T : c <= j
BY Smallest

(* ktls_name_pick: the first pair whose host matches, if there is one.     *)
LEMMA PickIs ==
  ASSUME TypeInv, NEW name
  PROVE  \/ NamePick(name) = 0 /\ (name = <<>> \/ Matching(name) = {})
         \/ /\ name # <<>> /\ NamePick(name) \in Matching(name)
            /\ \A j \in Matching(name) : NamePick(name) <= j
<1> DEFINE T == Matching(name)
<1>1. T \subseteq Nat
  BY DEF TypeInv, Matching
<1>2. NamePick(name) = IF name = <<>> \/ T = {} THEN 0
                       ELSE CHOOSE i \in T : \A j \in T : i <= j
  BY DEF NamePick
<1> HIDE DEF T
<1>3. CASE name = <<>> \/ T = {}
  BY <1>2, <1>3 DEF T
<1>4. CASE ~(name = <<>> \/ T = {})
  <2> DEFINE c == CHOOSE i \in T : \A j \in T : i <= j
  <2>1. c \in T /\ \A j \in T : c <= j
    BY <1>1, <1>4, ChooseSmallest
  <2>2. NamePick(name) = c
    BY <1>2, <1>4
  <2> HIDE DEF c
  <2> QED
    BY <1>4, <2>1, <2>2 DEF T
<1> QED
  BY <1>3, <1>4

(* And so it is after a step.                                              *)
LEMMA PickWillBe ==
  ASSUME TypeInv', NEW name
  PROVE  \/ NamePick(name)' = 0 /\ (name = <<>> \/ Matching(name)' = {})
         \/ /\ name # <<>> /\ NamePick(name)' \in Matching(name)'
            /\ \A j \in Matching(name)' : NamePick(name)' <= j
<1> DEFINE T == Matching(name)'
<1>1. T \subseteq Nat
  BY DEF TypeInv, Matching
<1>2. NamePick(name)' = IF name = <<>> \/ T = {} THEN 0
                        ELSE CHOOSE i \in T : \A j \in T : i <= j
  BY DEF NamePick
<1> HIDE DEF T
<1>3. CASE name = <<>> \/ T = {}
  BY <1>2, <1>3 DEF T
<1>4. CASE ~(name = <<>> \/ T = {})
  <2> DEFINE c == CHOOSE i \in T : \A j \in T : i <= j
  <2>1. c \in T /\ \A j \in T : c <= j
    BY <1>1, <1>4, ChooseSmallest
  <2>2. NamePick(name)' = c
    BY <1>2, <1>4
  <2> HIDE DEF c
  <2> QED
    BY <1>4, <2>1, <2>2 DEF T
<1> QED
  BY <1>3, <1>4

(* A step that only adds pairs behind the ones there are, and renames      *)
(* none, leaves a name with the pair that answers it.                      *)
LEMMA PickStays ==
  ASSUME TypeInv, TypeInv', NEW name, NamePick(name) # 0, DOMAIN named \subseteq DOMAIN named',
         \A i \in DOMAIN named : named'[i].host = named[i].host
  PROVE  NamePick(name)' = NamePick(name)
<1> DEFINE i == NamePick(name)
           k == NamePick(name)'
<1>1. /\ name # <<>> /\ i \in Matching(name) /\ \A j \in Matching(name) : i <= j
  BY PickIs
<1>2. i \in DOMAIN named /\ HostMatches(named[i].host, name)
  BY <1>1 DEF Matching
<1>3. i \in Matching(name)'
  <2>1. named'[i].host = named[i].host /\ i \in DOMAIN named'
    BY <1>2
  <2> HIDE DEF i
  <2>2. HostMatches(named'[i].host, name)
    BY <1>2, <2>1
  <2> QED
    BY <2>1, <2>2 DEF Matching
<1>4. k \in Matching(name)' /\ \A j \in Matching(name)' : k <= j
  BY <1>1, <1>3, PickWillBe
<1> HIDE DEF i, k
<1>5. k \in DOMAIN named' /\ HostMatches(named'[k].host, name)
  BY <1>4 DEF Matching
<1>6. DOMAIN named = 1 .. Len(named) /\ DOMAIN named' = 1 .. Len(named')
      /\ Len(named) \in Nat /\ Len(named') \in Nat
  BY DEF TypeInv
<1>7. k <= i
  BY <1>3, <1>4
<1>8. k \in DOMAIN named
  BY <1>2, <1>5, <1>6, <1>7
<1>9. HostMatches(named[k].host, name)
  <2>1. named'[k].host = named[k].host
    BY <1>8
  <2> QED
    BY <1>5, <2>1
<1>10. k \in Matching(name)
  BY <1>8, <1>9 DEF Matching
<1>11. i <= k
  BY <1>1, <1>10 DEF i
<1>12. i \in Nat /\ k \in Nat
  BY <1>2, <1>6, <1>8
<1>13. k = i
  BY <1>7, <1>11, <1>12
<1> QED
  BY <1>13 DEF i, k

(* For any hosts and names, however many pairs: no call takes a name from  *)
(* the pair that answers it.                                               *)
THEOREM AddNeverTakes == Spec => AddTakesNothing
<1>1. ASSUME KeysInv, KeysInv', [Next]_vars
      PROVE  [\A name \in Hellos : NamePick(name) # 0 =>
                named'[NamePick(name)'].host = named[NamePick(name)].host]_vars
  <2> USE DEF KeysInv
  <2> SUFFICES ASSUME Next, ~UNCHANGED vars, NEW name \in Hellos, NamePick(name) # 0
               PROVE  named'[NamePick(name)'].host = named[NamePick(name)].host
    BY <1>1
  <2>1. /\ DOMAIN named \subseteq DOMAIN named'
        /\ \A i \in DOMAIN named : named'[i].host = named[i].host
    <3>1. CASE \E list \in SuiteLists : SetCiphers(list)
      <4>1. PICK list \in SuiteLists : SetCiphers(list)
        BY <3>1
      <4>2. PICK k \in 0 .. Len(named) :
              /\ DOMAIN named' = DOMAIN named
              /\ \A i \in DOMAIN named : named'[i].host = named[i].host
        BY <1>1, <4>1, CiphersDo
      <4> QED
        BY <4>2
    <3>2. CASE \E list \in AlpnLists : SetAlpn(list)
      <4>1. PICK list \in AlpnLists : SetAlpn(list)
        BY <3>2
      <4>2. \/ named' = named
            \/ \E failed : named' = [i \in DOMAIN named |->
                                       [named[i] EXCEPT !.ctx = WithAlpn(@, i, failed, list)]]
        BY <4>1 DEF SetAlpn
      <4>3. ASSUME NEW failed,
                   named' = [i \in DOMAIN named |->
                               [named[i] EXCEPT !.ctx = WithAlpn(@, i, failed, list)]],
                   NEW i, i \in DOMAIN named
            PROVE  named'[i].host = named[i].host
        <5> DEFINE r == named[i]
        <5>1. r \in PairType
          BY <1>1, <4>3 DEF TypeInv
        <5>2. r = [host |-> r.host, ctx |-> r.ctx]
          BY <5>1 DEF PairType
        <5>3. named'[i] = [r EXCEPT !.ctx = WithAlpn(@, i, failed, list)]
          BY <4>3
        <5> HIDE DEF r
        <5>4. named'[i].host = r.host
          BY <5>2, <5>3
        <5> QED
          BY <5>4 DEF r
      <4> QED
        BY <4>2, <4>3
    <3>3. CASE \E host \in Hosts, good \in BOOLEAN : AddCertificate(host, good)
      <4>1. /\ DOMAIN named' = 1 .. Len(named) + 1
            /\ \A i \in DOMAIN named : named'[i] = named[i]
        BY <1>1, <3>3, AddDoes
      <4>2. DOMAIN named = 1 .. Len(named) /\ Len(named) \in Nat
        BY <1>1 DEF TypeInv
      <4>3. DOMAIN named \subseteq DOMAIN named'
        BY <4>1, <4>2
      <4> QED
        BY <4>1, <4>3
    <3> QED
      BY <3>1, <3>2, <3>3 DEF Next
  <2>2. NamePick(name)' = NamePick(name)
    BY <1>1, <2>1, PickStays
  <2>3. NamePick(name) \in DOMAIN named
    BY <1>1, PickIs DEF Matching
  <2> DEFINE i == NamePick(name)
             k == NamePick(name)'
  <2> HIDE DEF i, k
  <2>4. k = i /\ i \in DOMAIN named
    BY <2>2, <2>3 DEF i, k
  <2>5. named'[k].host = named[i].host
    BY <2>1, <2>4
  <2> QED
    BY <2>5 DEF i, k
<1> QED
  BY <1>1, KeysInvariant, PTL DEF Spec, AddTakesNothing

(* For any lists in any order, refused ones and setters that fail among    *)
(* them: every client is served what was last asked for, whichever pair    *)
(* answers it, provided no list is refused half-way (the run keys_refused  *)
(* shows what such a list does).                                           *)
THEOREM AlwaysServesAsAsked == ASSUME NoneHalfway PROVE Spec => []ServesAsAsked
<1>1. ASSUME KeysInv, AlpnInv PROVE ServesAsAsked
  <2> USE DEF KeysInv
  <2>1. \A name : Ctx(NamePick(name)) = default
                  \/ \E i \in DOMAIN named : Ctx(NamePick(name)) = named[i].ctx
    <3> TAKE name
    <3>1. NamePick(name) = 0 \/ NamePick(name) \in DOMAIN named
      BY <1>1, PickIs DEF Matching
    <3> DEFINE i == NamePick(name)
    <3>2. i = 0 \/ (i # 0 /\ i \in DOMAIN named)
      BY <3>1
    <3> HIDE DEF i
    <3>3. Ctx(i) = default \/ \E j \in DOMAIN named : Ctx(i) = named[j].ctx
      BY <3>2 DEF Ctx
    <3> QED
      BY <3>3 DEF i
  <2>2. ASSUME NEW name, NEW ciphers, NEW protocols, asked.suites # Unsettled
        PROVE  Answer(name, ciphers, protocols).suite = FirstOf(asked.suites, ciphers)
    <3> DEFINE ctx == Ctx(NamePick(name))
    <3>1. ctx.suites = asked.suites
      BY <1>1, <2>1, <2>2 DEF SuitesInv
    <3>2. Answer(name, ciphers, protocols).suite = FirstOf(ctx.suites, ciphers)
      BY DEF Answer
    <3> HIDE DEF ctx
    <3> QED
      BY <3>1, <3>2
  <2>3. ASSUME NEW name, NEW ciphers, NEW protocols, asked.alpn # Unsettled
        PROVE  Answer(name, ciphers, protocols).alpn = FirstOf(asked.alpn, protocols)
    <3> DEFINE ctx == Ctx(NamePick(name))
    <3>1. SubSeq(alpn, 1, alpn_len) = asked.alpn /\ (alpn_len # 0 => ctx.picks)
      BY <1>1, <2>1, <2>3 DEF AlpnInv
    <3>2. Answer(name, ciphers, protocols).alpn = AlpnPick(ctx, protocols)
      BY DEF Answer
    <3> HIDE DEF ctx
    <3>3. CASE ctx.picks
      BY <3>1, <3>2, <3>3 DEF AlpnPick
    <3>4. CASE ~ctx.picks
      <4>1. alpn_len = 0
        BY <3>1, <3>4
      <4>2. asked.alpn = <<>>
        <5>1. alpn \in Seq(Words)
          BY <1>1, KeysAssumption DEF TypeInv
        <5>2. SubSeq(alpn, 1, 0) = <<>>
          BY <5>1
        <5> QED
          BY <3>1, <4>1, <5>2
      <4>3. FirstOf(<<>>, protocols) = None
        BY DEF FirstOf
      <4> QED
        BY <3>2, <3>4, <4>2, <4>3 DEF AlpnPick
    <3> QED
      BY <3>3, <3>4
  <2>4. asked.alpn # Unsettled => default.protos = asked.alpn
    BY <1>1 DEF AlpnInv
  <2> QED
    BY <2>2, <2>3, <2>4 DEF ServesAsAsked
<1> QED
  BY <1>1, KeysInvariant, AlpnInvariant, PTL
-----------------------------------------------------------------------------
(* What HostMatches takes for a wildcard.                                  *)
Wild(h) == h[1] = "*" /\ Len(h) > 1

(* Names is large enough to stand for all that clients may name: for each  *)
(* host a name that it matches and, since no list of exact hosts runs out  *)
(* of labels, for a wildcard one that is nobody's exact host.              *)
AnyoneAsks ==
  \A h \in Hosts \ {<<>>} : \E name \in Names :
    /\ name # <<>> /\ HostMatches(h, name)
    /\ Wild(h) => \A g \in Hosts \ {<<>>} : HostMatches(g, name) => Wild(g)

(* Hosts that are the same are so from their second label on, and the      *)
(* other way round when the first labels are the same.                     *)
LEMMA SameTails ==
  ASSUME NEW p, p \in Seq(Words), NEW q, q \in Seq(Words), Len(p) > 1, Len(q) > 1
  PROVE  /\ Tail(p) \in Seq(Words) /\ Tail(q) \in Seq(Words)
         /\ SameHost(p, q) => SameHost(Tail(p), Tail(q))
         /\ p[1] = q[1] /\ SameHost(Tail(p), Tail(q)) => SameHost(p, q)
<1> DEFINE P == Tail(p)
           Q == Tail(q)
           m == Len(p)
           n == Len(q)
<1>1. /\ P \in Seq(Words) /\ Len(P) = m - 1 /\ \A i \in 1 .. m - 1 : P[i] = p[i + 1]
      /\ DOMAIN P = 1 .. m - 1
  OBVIOUS
<1>2. /\ Q \in Seq(Words) /\ Len(Q) = n - 1 /\ \A i \in 1 .. n - 1 : Q[i] = q[i + 1]
  OBVIOUS
<1>3. m \in Nat /\ n \in Nat /\ m > 1 /\ n > 1 /\ DOMAIN p = 1 .. m
  OBVIOUS
<1> HIDE DEF P, Q
<1>4. ASSUME SameHost(p, q) PROVE SameHost(P, Q)
  <2>1. m = n /\ \A i \in 1 .. m : Fold(p[i]) = Fold(q[i])
    BY <1>3, <1>4 DEF SameHost
  <2> HIDE DEF m, n
  <2>2. \A i \in 1 .. m - 1 : i + 1 \in 1 .. m
    BY <1>3
  <2>3. \A i \in 1 .. m - 1 : Fold(P[i]) = Fold(Q[i])
    BY <1>1, <1>2, <2>1, <2>2
  <2> QED
    BY <1>1, <1>2, <2>1, <2>3 DEF SameHost
<1>5. ASSUME p[1] = q[1], SameHost(P, Q) PROVE SameHost(p, q)
  <2>1. m = n /\ \A i \in 1 .. m - 1 : Fold(P[i]) = Fold(Q[i])
    <3>1. Len(P) = Len(Q) /\ \A i \in DOMAIN P : Fold(P[i]) = Fold(Q[i])
      BY <1>5 DEF SameHost
    <3> HIDE DEF m, n
    <3>2. m - 1 = n - 1 /\ DOMAIN P = 1 .. m - 1
      BY <1>1, <1>2, <3>1
    <3>3. m = n
      BY <1>3, <3>2
    <3> QED
      BY <3>1, <3>2, <3>3
  <2> HIDE DEF m, n
  <2>2. \A i \in 1 .. m : i = 1 \/ (i - 1 \in 1 .. m - 1 /\ (i - 1) + 1 = i)
    BY <1>3
  <2>3. \A i \in 1 .. m : i - 1 \in 1 .. m - 1 => Fold(P[i - 1]) = Fold(Q[i - 1])
    BY <2>1
  <2>4. \A i \in 1 .. m : i - 1 \in 1 .. m - 1 => P[i - 1] = p[i] /\ Q[i - 1] = q[i]
    BY <1>1, <1>2, <2>1, <2>2
  <2>5. \A i \in 1 .. m : Fold(p[i]) = Fold(q[i])
    BY <1>5, <2>2, <2>3, <2>4
  <2> QED
    BY <1>3, <2>1, <2>5 DEF SameHost, m, n
<1> QED
  BY <1>1, <1>2, <1>4, <1>5 DEF P, Q

(* Two hosts that match one name: the same host, unless one of them is a   *)
(* wildcard that covers the other.                                         *)
LEMMA TwoMatch ==
  ASSUME NEW g, g \in Seq(Words), g # <<>>, NEW h, h \in Seq(Words), h # <<>>,
         NEW name, name \in Seq(Words), HostMatches(g, name), HostMatches(h, name)
  PROVE  \/ SameHost(g, h)
         \/ Wild(g) /\ ~Wild(h) /\ HostMatches(g, h)
         \/ Wild(h) /\ ~Wild(g)
<1>1. CASE ~Wild(g) /\ ~Wild(h)
  <2>1. SameHost(g, name) /\ SameHost(h, name)
    BY <1>1 DEF HostMatches, Wild
  <2>2. SameHost(name, h)
    BY <2>1, SameIsSame
  <2> QED
    BY <2>1, <2>2, SameIsSame
<1>2. CASE Wild(g) /\ Wild(h)
  <2>1. Len(name) > 1 /\ SameHost(Tail(name), Tail(g)) /\ SameHost(Tail(name), Tail(h))
    BY <1>2 DEF HostMatches, Wild
  <2>2. Len(g) > 1 /\ Len(h) > 1 /\ g[1] = h[1]
    BY <1>2 DEF Wild
  <2>3. Tail(name) \in Seq(Words) /\ Tail(g) \in Seq(Words) /\ Tail(h) \in Seq(Words)
    BY <2>1, <2>2, SameTails
  <2>4. SameHost(Tail(g), Tail(name))
    BY <2>1, <2>3, SameIsSame
  <2>5. SameHost(Tail(g), Tail(h))
    BY <2>1, <2>3, <2>4, SameIsSame
  <2> QED
    BY <2>2, <2>5, SameTails
<1>3. CASE Wild(g) /\ ~Wild(h)
  <2>1. Len(name) > 1 /\ SameHost(Tail(name), Tail(g)) /\ Len(g) > 1
    BY <1>3 DEF HostMatches, Wild
  <2>2. SameHost(h, name)
    BY <1>3 DEF HostMatches, Wild
  <2>3. Len(h) > 1
    BY <2>1, <2>2 DEF SameHost
  <2>4. Tail(name) \in Seq(Words) /\ Tail(g) \in Seq(Words) /\ Tail(h) \in Seq(Words)
    BY <2>1, <2>3, SameTails
  <2>5. SameHost(Tail(h), Tail(name))
    BY <2>1, <2>2, <2>3, SameTails
  <2>6. SameHost(Tail(h), Tail(g))
    BY <2>1, <2>4, <2>5, SameIsSame
  <2>7. HostMatches(g, h)
    BY <1>3, <2>3, <2>6 DEF HostMatches, Wild
  <2> QED
    BY <1>3, <2>7
<1> QED
  BY <1>1, <1>2, <1>3

(* For any hosts and any names a client may send: letter case and the      *)
(* order of the calls leave no pair out of reach but one that a wildcard   *)
(* added before it covers.                                                 *)
THEOREM EveryPairAlwaysAnswers == ASSUME AnyoneAsks PROVE Spec => []EveryPairAnswers
<1>1. ASSUME KeysInv PROVE EveryPairAnswers
  <2> USE DEF KeysInv
  <2> SUFFICES ASSUME NEW i, i \in DOMAIN named
               PROVE  \/ \E name \in Names : NamePick(name) = i
                      \/ \E j \in 1 .. i - 1 :
                           /\ named[j].host[1] = "*"
                           /\ HostMatches(named[j].host, named[i].host)
    BY DEF EveryPairAnswers
  <2> DEFINE h == named[i].host
  <2>1. h \in Hosts \ {<<>>} /\ h \in Seq(Words)
    <3>1. named[i] \in PairType
      BY <1>1 DEF TypeInv
    <3> QED
      BY <3>1, Lists DEF PairType
  <2>2. PICK name \in Names :
          /\ name # <<>> /\ HostMatches(h, name)
          /\ Wild(h) => \A g \in Hosts \ {<<>>} : HostMatches(g, name) => Wild(g)
    BY <2>1 DEF AnyoneAsks
  <2>3. i \in Matching(name)
    BY <2>2 DEF Matching
  <2> DEFINE k == NamePick(name)
  <2>4. k \in Matching(name) /\ k <= i
    BY <1>1, <2>2, <2>3, PickIs
  <2>5. k \in DOMAIN named /\ HostMatches(named[k].host, name)
    BY <2>4 DEF Matching
  <2>6. CASE k = i
    BY <2>6
  <2>7. CASE k # i
    <3> HIDE DEF k
    <3> DEFINE g == named[k].host
    <3>1. g \in Hosts \ {<<>>} /\ g \in Seq(Words)
      <4>1. named[k] \in PairType
        BY <1>1, <2>5 DEF TypeInv
      <4> QED
        BY <4>1, Lists DEF PairType
    <3>2. ~SameHost(g, h)
      BY <1>1, <2>5, <2>7 DEF HostsInv
    <3>3. name \in Seq(Words)
      BY Lists
    <3>4. HostMatches(g, name) /\ HostMatches(h, name)
      BY <2>2, <2>5
    <3> HIDE DEF g, h
    <3>5. Wild(h) => Wild(g)
      BY <2>2, <3>1, <3>4
    <3>6. Wild(g) /\ HostMatches(g, h)
      BY <2>1, <3>1, <3>2, <3>3, <3>4, <3>5, TwoMatch
    <3>7. k \in 1 .. i - 1
      <4>1. DOMAIN named = 1 .. Len(named) /\ Len(named) \in Nat
        BY <1>1 DEF TypeInv
      <4> QED
        BY <2>4, <2>5, <2>7, <4>1
    <3>8. g[1] = "*"
      BY <3>6 DEF Wild
    <3> QED
      BY <3>6, <3>7, <3>8 DEF g, h
  <2> QED
    BY <2>6, <2>7
<1> QED
  BY <1>1, KeysInvariant, PTL
=============================================================================
