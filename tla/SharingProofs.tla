---------------------------- MODULE SharingProofs ----------------------------
(***************************************************************************)
(* Sharing's safety for any exchanges, variables and handles: the keys     *)
(* outlive the exchanges that read them, every C++ object is in exactly    *)
(* one handle until it is freed, and an exchange opened once the index had *)
(* settled keeps its secrets.                                              *)
(***************************************************************************)
EXTENDS Sharing, FiniteSetTheorems, TLAPS

Steps == {"idle", "test", "register", "store", "return", "opened", "refused"}

(* What every variable ranges over: an X handle holds exchanges of the C++ *)
(* thread and a K handle its keys, and a script's variables Ruby objects.  *)
TypeInv ==
  /\ idx \in Int /\ idx >= -1 /\ registered \in Nat
  /\ pc \in [Threads -> Steps]
  /\ opening \in [Threads -> Exchanges \union {Null}]
  /\ mine \in [Threads -> Int]
  /\ life \in [Exchanges -> {"unborn", "open", "done", "failed", "freed"}]
  /\ slot \in [Exchanges -> Int]
  /\ late \in [Exchanges -> BOOLEAN]
  /\ keys \subseteq Keys
  /\ roots \subseteq RubyX \union {KeysOf("ruby")}
  /\ held \in [XHandles \union KHandles -> CppX \union {Null, KeysOf("cpp")}]
  /\ \A h \in XHandles : held[h] \in CppX \union {Null}
  /\ \A h \in KHandles : held[h] \in {Null, KeysOf("cpp")}

(* A thread outside ktls_exchange_open opens nothing, one inside opens an  *)
(* exchange of its own that is allocated until the SSL is refused; and     *)
(* what ktls_ex_index is about to store is an index.                       *)
OpenInv ==
  \A t \in Threads :
    /\ pc[t] = "idle" <=> opening[t] = Null
    /\ pc[t] # "idle" => opening[t] \in Exchanges /\ Of(opening[t]) = t
    /\ pc[t] \in {"test", "register", "store", "return", "opened"}
         => life[opening[t]] = "open"
    /\ pc[t] = "refused" => life[opening[t]] = "freed"
    /\ pc[t] = "store" => mine[t] >= 0

(* Once settled the index stays, so what a late open has in hand, and then *)
(* what it stored its exchange under, is what the static holds for good.   *)
LateInv ==
  \A e \in Exchanges : late[e] =>
    /\ Settled /\ life[e] \notin {"unborn", "failed"}
    /\ \/ opening[Of(e)] = e /\ pc[Of(e)] = "return" /\ mine[Of(e)] = idx
       \/ (opening[Of(e)] # e \/ pc[Of(e)] = "opened") /\ slot[e] = idx

(* Every exchange a script can reach carries its @keys, and the keys are   *)
(* there while anything of the script is, or a call of its thread runs.    *)
RubyInv ==
  /\ roots \intersect RubyX \subseteq iv
  /\ pc["ruby"] # "idle" \/ roots # {} => KeysOf("ruby") \in keys

(* No two handles hold one object; what a handle holds is allocated, and   *)
(* what is allocated is in a handle or on its way out of Exchange::open;   *)
(* and while an exchange is allocated the keys it was opened with are.     *)
CppInv ==
  /\ \A h, g \in XHandles \union KHandles :
       held[h] = held[g] /\ held[h] # Null => h = g
  /\ \A h \in XHandles : held[h] # Null => Allocated(held[h]) /\ opening["cpp"] # held[h]
  /\ \A e \in CppX : Allocated(e) => opening["cpp"] = e \/ \E h \in XHandles : held[h] = e
  /\ KeysOf("cpp") \in keys <=> \E h \in KHandles : held[h] = KeysOf("cpp")
  /\ (\E e \in CppX : Allocated(e)) => KeysOf("cpp") \in keys

SharingInv == TypeInv /\ OpenInv /\ LateInv /\ RubyInv /\ CppInv
-----------------------------------------------------------------------------
(* The two threads' keys are two objects, and neither is an exchange or    *)
(* the null pointer.                                                       *)
LEMMA Distinct ==
  /\ Keys = {KeysOf("ruby"), KeysOf("cpp")} /\ KeysOf("ruby") # KeysOf("cpp")
  /\ KeysOf("ruby") # Null /\ KeysOf("cpp") # Null
  /\ KeysOf("ruby") \notin Exchanges /\ KeysOf("cpp") \notin Exchanges
  /\ Null \notin Exchanges
  /\ \A e \in RubyX : e \in Exchanges /\ e \notin CppX /\ Of(e) = "ruby"
  /\ \A e \in CppX : e \in Exchanges /\ e \notin RubyX /\ Of(e) = "cpp"
  /\ \A e \in Exchanges : (Of(e) = "ruby" <=> e \in RubyX) /\ (Of(e) = "cpp" <=> e \in CppX)
BY SharingAssumption DEF Keys, KeysOf, Threads, Exchanges, Of

(* Before the first call the index is not there and one handle holds the   *)
(* C++ thread's keys.                                                      *)
LEMMA InitHolds == Init => SharingInv
<1> SUFFICES ASSUME Init PROVE SharingInv
  OBVIOUS
<1> DEFINE first == CHOOSE h \in KHandles : TRUE
<1>1. first \in KHandles
  BY SharingAssumption
<1>2. held = [h \in XHandles \union KHandles |-> IF h = first THEN KeysOf("cpp") ELSE Null]
  BY DEF Init
<1> HIDE DEF first
<1>3. TypeInv
  BY <1>1, <1>2, SharingAssumption DEF Init, TypeInv, Steps
<1>4. OpenInv
  BY DEF Init, OpenInv
<1>5. LateInv
  BY DEF Init, LateInv
<1>6. RubyInv
  BY Distinct DEF Init, RubyInv
<1>7. CppInv
  <2>1. \A e \in CppX : ~Allocated(e)
    BY DEF Init, Allocated, Exchanges
  <2> QED
    BY <1>1, <1>2, <2>1, Distinct, SharingAssumption DEF Init, CppInv
<1> QED
  BY <1>3, <1>4, <1>5, <1>6, <1>7 DEF SharingInv
-----------------------------------------------------------------------------
(* ktls_exchange_open allocates an exchange that no handle holds yet, with *)
(* its caller's keys at hand.                                              *)
LEMMA OpenKeeps ==
  ASSUME SharingInv, NEW t \in Threads, Open(t) PROVE SharingInv'
<1> DEFINE e == CHOOSE u \in Unborn(t) : TRUE
<1> USE DEF SharingInv
<1>1. e \in Exchanges /\ Of(e) = t /\ life[e] = "unborn"
  BY DEF Open, Unborn
<1>2. /\ pc[t] = "idle" /\ HasKeys(t)
      /\ opening' = [opening EXCEPT ![t] = e]
      /\ UNCHANGED <<static, mine, keys, slot, late, roots, iv, held>>
      /\ \/ Goto(t, "test") /\ life' = [life EXCEPT ![e] = "open"]
         \/ Goto(t, "refused") /\ life' = [life EXCEPT ![e] = "freed"]
  BY DEF Open
<1> HIDE DEF e
<1>3. TypeInv'
  BY <1>1, <1>2 DEF TypeInv, Steps, Goto, static
<1>4. OpenInv'
  BY <1>1, <1>2, <1>3, Distinct DEF OpenInv, TypeInv, Goto, static
<1>5. LateInv'
  <2> SUFFICES ASSUME NEW x \in Exchanges, late'[x] PROVE
      /\ Settled' /\ life'[x] \notin {"unborn", "failed"}
      /\ \/ opening'[Of(x)] = x /\ pc'[Of(x)] = "return" /\ mine'[Of(x)] = idx'
         \/ (opening'[Of(x)] # x \/ pc'[Of(x)] = "opened") /\ slot'[x] = idx'
    BY DEF LateInv
  <2>1. late[x] /\ x # e
    BY <1>1, <1>2 DEF LateInv
  <2>2. Settled'
    BY <1>2, <2>1 DEF LateInv, Settled, InWindow, TypeInv, Goto, static
  <2>3. Of(x) \in Threads
    BY DEF Of, Threads
  <2>4. Of(x) = t => opening[Of(x)] # x /\ opening'[Of(x)] # x
    BY <1>1, <1>2, <2>1, <2>3, Distinct DEF OpenInv, TypeInv
  <2>5. Of(x) # t => opening[Of(x)] = opening'[Of(x)] /\ pc[Of(x)] = pc'[Of(x)]
    BY <1>2, <2>3 DEF TypeInv, Goto
  <2> QED
    BY <1>1, <1>2, <2>1, <2>2, <2>3, <2>4, <2>5 DEF LateInv, TypeInv, static
<1>6. RubyInv'
  BY <1>1, <1>2 DEF RubyInv, HasKeys, TypeInv, Goto, Threads, KeysOf
<1>7. CppInv'
  <2>1. \A x \in CppX : x # e => (Allocated(x)' <=> Allocated(x))
    BY <1>1, <1>2, Distinct DEF Allocated, TypeInv
  <2>2. \A h \in XHandles : held[h] # e
    BY <1>1, Distinct DEF CppInv, Allocated, TypeInv
  <2>3. CASE t = "ruby"
    <3>1. e \notin CppX /\ opening'["cpp"] = opening["cpp"]
      BY <1>1, <1>2, <2>3, Distinct DEF TypeInv, Threads
    <3>2. \A h \in XHandles : held[h] # Null => Allocated(held[h])'
      BY <1>2, <2>1, <3>1 DEF CppInv, TypeInv, Allocated
    <3> QED
      BY <1>2, <2>1, <3>1, <3>2 DEF CppInv
  <2>4. CASE t = "cpp"
    <3>1. opening'["cpp"] = e /\ opening["cpp"] = Null
      BY <1>2, <2>4 DEF TypeInv, OpenInv, Threads
    <3>2. KeysOf("cpp") \in keys
      BY <1>2, <2>4 DEF HasKeys, HeldKeys, CppInv
    <3>3. \A h \in XHandles : held[h] # Null => Allocated(held[h])'
      BY <1>2, <2>1, <2>2 DEF CppInv, TypeInv, Allocated
    <3>4. \A x \in CppX : Allocated(x)' => x = e \/ \E h \in XHandles : held[h] = x
      BY <2>1, <3>1, Distinct DEF CppInv
    <3> QED
      BY <1>2, <2>2, <3>1, <3>2, <3>3, <3>4 DEF CppInv
  <2> QED
    BY <2>3, <2>4 DEF Threads
<1> QED
  BY <1>3, <1>4, <1>5, <1>6, <1>7

(* A step of ktls_ex_index leaves the heap, the handles and the script     *)
(* alone: what is said of those stays.                                     *)
LEMMA IndexKeeps ==
  ASSUME SharingInv, NEW t \in Threads, NEW w \in {"register", "store", "return", "opened"},
         pc[t] \in {"test", "register", "store", "return"}, Goto(t, w),
         \A u \in Threads : u # t => mine'[u] = mine[u],
         w = "store" => mine'[t] >= 0,
         UNCHANGED <<opening, heap, roots, iv, held>>
  PROVE  OpenInv' /\ RubyInv' /\ CppInv'
<1> USE DEF SharingInv
<1>1. /\ opening' = opening /\ life' = life /\ keys' = keys
      /\ roots' = roots /\ iv' = iv /\ held' = held
  BY DEF heap
<1>2. \A u \in Threads : pc'[u] = IF u = t THEN w ELSE pc[u]
  BY DEF Goto, TypeInv
<1>3. OpenInv'
  BY <1>1, <1>2 DEF OpenInv
<1>4. RubyInv'
  BY <1>1, <1>2 DEF RubyInv, Threads
<1>5. CppInv'
  BY <1>1 DEF CppInv, Allocated
<1> QED
  BY <1>3, <1>4, <1>5

(* ktls_ex_index tests the static: an exchange that finds the index        *)
(* settled takes it in hand.                                               *)
LEMMA TestKeeps ==
  ASSUME SharingInv, NEW t \in Threads, Test(t) PROVE SharingInv'
<1> USE DEF SharingInv
<1>1. /\ pc[t] = "test" /\ late' = [late EXCEPT ![opening[t]] = Settled]
      /\ UNCHANGED <<static, opening, heap, slot, roots, iv, held>>
      /\ \/ idx < 0 /\ Goto(t, "register") /\ UNCHANGED mine
         \/ idx >= 0 /\ Goto(t, "return") /\ mine' = [mine EXCEPT ![t] = idx]
  BY DEF Test
<1>2. opening[t] \in Exchanges /\ Of(opening[t]) = t /\ life[opening[t]] = "open"
  BY <1>1 DEF OpenInv
<1>3. TypeInv'
  BY <1>1, <1>2 DEF TypeInv, Steps, Goto, static, heap, Settled
<1>4. OpenInv' /\ RubyInv' /\ CppInv'
  <2>1. CASE idx < 0 /\ Goto(t, "register") /\ UNCHANGED mine
    BY <1>1, <2>1, IndexKeeps
  <2>2. CASE idx >= 0 /\ Goto(t, "return") /\ mine' = [mine EXCEPT ![t] = idx]
    <3>1. \A u \in Threads : u # t => mine'[u] = mine[u]
      BY <2>2 DEF TypeInv
    <3> QED
      BY <1>1, <2>2, <3>1, IndexKeeps
  <2> QED
    BY <1>1, <2>1, <2>2
<1>5. LateInv'
  <2> SUFFICES ASSUME NEW x \in Exchanges, late'[x] PROVE
      /\ Settled' /\ life'[x] \notin {"unborn", "failed"}
      /\ \/ opening'[Of(x)] = x /\ pc'[Of(x)] = "return" /\ mine'[Of(x)] = idx'
         \/ (opening'[Of(x)] # x \/ pc'[Of(x)] = "opened") /\ slot'[x] = idx'
    BY DEF LateInv
  <2>1. Settled
    BY <1>1 DEF LateInv, TypeInv
  <2>2. idx >= 0 /\ Goto(t, "return") /\ mine' = [mine EXCEPT ![t] = idx]
    BY <1>1, <2>1 DEF Settled, TypeInv
  <2>3. Settled'
    BY <1>1, <2>1, <2>2 DEF Settled, InWindow, TypeInv, Goto, static
  <2>4. CASE x = opening[t]
    BY <1>1, <1>2, <2>2, <2>3, <2>4 DEF TypeInv, Goto, static, heap
  <2>5. CASE x # opening[t]
    <3>1. late[x]
      BY <1>1, <2>5 DEF TypeInv
    <3>2. Of(x) \in Threads
      BY DEF Of, Threads
    <3>3. Of(x) # t => pc'[Of(x)] = pc[Of(x)] /\ mine'[Of(x)] = mine[Of(x)]
      BY <2>2, <3>2 DEF TypeInv, Goto
    <3> QED
      BY <1>1, <2>3, <2>5, <3>1, <3>2, <3>3 DEF LateInv, static, heap
  <2> QED
    BY <2>4, <2>5
<1> QED
  BY <1>3, <1>4, <1>5

(* While a thread is between the test and the store nothing is settled, so *)
(* no exchange was opened late: registering and storing disturb none.      *)
LEMMA NoneLate ==
  ASSUME SharingInv, NEW t \in Threads, InWindow(t)
  PROVE  \A e \in Exchanges : ~late[e]
BY DEF SharingInv, LateInv, Settled

(* OpenSSL hands out an index that is not negative.                        *)
LEMMA RegisterKeeps ==
  ASSUME SharingInv, NEW t \in Threads, Register(t) PROVE SharingInv'
<1> USE DEF SharingInv
<1>1. TypeInv'
  BY DEF TypeInv, Register, Steps, Goto, heap
<1>2. /\ \A u \in Threads : u # t => mine'[u] = mine[u]
      /\ mine'[t] >= 0
  BY DEF TypeInv, Register
<1>3. OpenInv' /\ RubyInv' /\ CppInv'
  <2>1. /\ pc[t] = "register" /\ Goto(t, "store")
        /\ UNCHANGED <<opening, heap, roots, iv, held>>
    BY DEF Register
  <2> QED
    BY <1>2, <2>1, IndexKeeps
<1>4. LateInv'
  BY NoneLate DEF LateInv, Register, InWindow
<1> QED
  BY <1>1, <1>3, <1>4

(* And it is stored, over whatever another thread stored meanwhile.        *)
LEMMA StoreKeeps ==
  ASSUME SharingInv, NEW t \in Threads, Store(t) PROVE SharingInv'
<1> USE DEF SharingInv
<1>1. TypeInv'
  BY DEF TypeInv, Store, Steps, Goto, heap, OpenInv
<1>2. OpenInv' /\ RubyInv' /\ CppInv'
  <2>1. /\ pc[t] = "store" /\ Goto(t, "return") /\ UNCHANGED mine
        /\ UNCHANGED <<opening, heap, roots, iv, held>>
    BY DEF Store
  <2> QED
    BY <2>1, IndexKeeps
<1>3. LateInv'
  BY NoneLate DEF LateInv, Store, InWindow
<1> QED
  BY <1>1, <1>2, <1>3

(* A late open stores its exchange under what it has in hand or under what *)
(* the static holds, and the two are the same.                             *)
LEMMA ReturnKeeps ==
  ASSUME SharingInv, NEW t \in Threads, Return(t) PROVE SharingInv'
<1> USE DEF SharingInv
<1>1. PICK i \in {mine[t], idx} : slot' = [slot EXCEPT ![opening[t]] = i]
  BY DEF Return
<1>2. /\ pc[t] = "return" /\ Goto(t, "opened") /\ mine' = [mine EXCEPT ![t] = -1]
      /\ UNCHANGED <<static, opening, heap, late, roots, iv, held>>
  BY DEF Return
<1>3. opening[t] \in Exchanges /\ Of(opening[t]) = t
  BY <1>2 DEF OpenInv
<1>4. TypeInv'
  BY <1>1, <1>2, <1>3 DEF TypeInv, Steps, Goto, static, heap
<1>5. OpenInv' /\ RubyInv' /\ CppInv'
  <2>1. \A u \in Threads : u # t => mine'[u] = mine[u]
    BY <1>2 DEF TypeInv
  <2> QED
    BY <1>2, <2>1, IndexKeeps
<1>6. LateInv'
  <2> SUFFICES ASSUME NEW x \in Exchanges, late'[x] PROVE
      /\ Settled' /\ life'[x] \notin {"unborn", "failed"}
      /\ \/ opening'[Of(x)] = x /\ pc'[Of(x)] = "return" /\ mine'[Of(x)] = idx'
         \/ (opening'[Of(x)] # x \/ pc'[Of(x)] = "opened") /\ slot'[x] = idx'
    BY DEF LateInv
  <2>1. late[x] /\ Settled
    BY <1>2 DEF LateInv
  <2>2. Settled'
    BY <1>2, <2>1 DEF Settled, InWindow, TypeInv, Goto, static
  <2>3. CASE x = opening[t]
    <3>1. mine[t] = idx
      BY <1>2, <1>3, <2>1, <2>3 DEF LateInv
    <3> QED
      BY <1>1, <1>2, <1>3, <2>1, <2>2, <2>3, <3>1 DEF LateInv, TypeInv, Goto, static, heap
  <2>4. CASE x # opening[t]
    <3>1. slot'[x] = slot[x]
      BY <1>1, <2>4 DEF TypeInv
    <3>2. Of(x) \in Threads
      BY DEF Of, Threads
    <3>3. Of(x) # t => pc'[Of(x)] = pc[Of(x)] /\ mine'[Of(x)] = mine[Of(x)]
      BY <1>2, <3>2 DEF TypeInv, Goto
    <3> QED
      BY <1>2, <2>1, <2>2, <2>4, <3>1, <3>2, <3>3 DEF LateInv, static, heap
  <2> QED
    BY <2>3, <2>4
<1> QED
  BY <1>4, <1>5, <1>6
-----------------------------------------------------------------------------
(* Outside ktls_ex_index: a call at most returns, and no exchange that was *)
(* opened late fails.                                                      *)
LEMMA LateStays ==
  ASSUME SharingInv, UNCHANGED <<static, mine, slot, late>>,
         \A e \in Exchanges : late[e] => life'[e] \notin {"unborn", "failed"},
         \A t \in Threads :
           \/ pc'[t] = pc[t] /\ opening'[t] = opening[t]
           \/ pc[t] \in {"opened", "refused"} /\ pc'[t] = "idle" /\ opening'[t] = Null
  PROVE  LateInv'
<1> USE DEF SharingInv
<1> SUFFICES ASSUME NEW x \in Exchanges, late'[x] PROVE
    /\ Settled' /\ life'[x] \notin {"unborn", "failed"}
    /\ \/ opening'[Of(x)] = x /\ pc'[Of(x)] = "return" /\ mine'[Of(x)] = idx'
       \/ (opening'[Of(x)] # x \/ pc'[Of(x)] = "opened") /\ slot'[x] = idx'
  BY DEF LateInv
<1>1. late[x] /\ Settled
  BY DEF LateInv
<1>2. Settled'
  BY <1>1 DEF Settled, InWindow, static
<1>3. Of(x) \in Threads
  BY DEF Of, Threads
<1> QED
  BY <1>1, <1>2, <1>3, Distinct DEF LateInv, static

(* A handshake fails only where the static holds another index than the    *)
(* exchange was stored under, which a late one was not.                    *)
LEMMA HandshakeKeeps ==
  ASSUME SharingInv, NEW e \in Exchanges, Handshake(e) PROVE SharingInv'
<1> USE DEF SharingInv
<1>1. /\ life[e] = "open" /\ Callable(e) /\ pc[Of(e)] = "idle"
      /\ life' = [life EXCEPT ![e] = IF slot[e] = idx THEN "done" ELSE "failed"]
      /\ static' = static /\ pc' = pc /\ opening' = opening /\ mine' = mine /\ keys' = keys
      /\ slot' = slot /\ late' = late /\ roots' = roots /\ iv' = iv /\ held' = held
  BY DEF Handshake, open
<1>2. Of(e) \in Threads
  BY DEF Of, Threads
<1>3. \A t \in Threads : opening[t] # e
  BY <1>1, <1>2, Distinct DEF OpenInv
<1>4. \A x \in Exchanges : Allocated(x)' <=> Allocated(x)
  BY <1>1 DEF Allocated, TypeInv
<1>5. TypeInv'
  BY <1>1 DEF TypeInv, static
<1>6. OpenInv'
  BY <1>1, <1>3 DEF OpenInv, TypeInv
<1>7. LateInv'
  <2>1. late[e] => slot[e] = idx
    BY <1>2, <1>3 DEF LateInv
  <2>2. \A x \in Exchanges : late[x] => life'[x] \notin {"unborn", "failed"}
    BY <1>1, <2>1 DEF LateInv, TypeInv
  <2> QED
    BY <1>1, <2>2, LateStays
<1>8. RubyInv'
  BY <1>1 DEF RubyInv
<1>9. CppInv'
  <2>1. \A h \in XHandles : held[h] # Null => held[h] \in Exchanges
    BY DEF TypeInv, Exchanges
  <2>2. \A h \in XHandles : held'[h] # Null => Allocated(held[h])'
    BY <1>1, <1>4, <2>1 DEF CppInv, Allocated, TypeInv
  <2>3. \A x \in CppX : Allocated(x)' <=> Allocated(x)
    BY <1>4 DEF Exchanges
  <2> QED
    BY <1>1, <2>2, <2>3 DEF CppInv
<1> QED
  BY <1>5, <1>6, <1>7, <1>8, <1>9

(* A step that leaves the C++ thread's objects, its handles and its call   *)
(* alone.                                                                  *)
LEMMA CppStays ==
  ASSUME SharingInv, held' = held, opening'["cpp"] = opening["cpp"],
         \A e \in CppX : life'[e] = life[e],
         KeysOf("cpp") \in keys' <=> KeysOf("cpp") \in keys
  PROVE  CppInv'
<1>1. \A e \in CppX : Allocated(e)' <=> Allocated(e)
  BY DEF Allocated
<1>2. \A h \in XHandles : held[h] # Null => held[h] \in CppX
  BY DEF SharingInv, TypeInv
<1>3. \A h \in XHandles : held'[h] # Null => Allocated(held[h])'
  BY <1>1, <1>2 DEF CppInv, Allocated, SharingInv
<1> QED
  BY <1>1, <1>3 DEF CppInv, SharingInv

(* exchange_init has the new object carry its keys, and returns.           *)
LEMMA RubyGetsKeeps ==
  ASSUME SharingInv, RubyGets PROVE SharingInv'
<1> USE DEF SharingInv
<1>1. /\ pc["ruby"] = "opened"
      /\ roots' = roots \union {opening["ruby"]} /\ iv' = iv \union {opening["ruby"]}
      /\ pc' = [pc EXCEPT !["ruby"] = "idle"]
      /\ opening' = [opening EXCEPT !["ruby"] = Null]
      /\ static' = static /\ mine' = mine /\ life' = life /\ keys' = keys
      /\ slot' = slot /\ late' = late /\ held' = held
  BY DEF RubyGets, Goto, heap
<1>2. opening["ruby"] \in RubyX
  BY <1>1, Distinct DEF OpenInv, Threads
<1>3. TypeInv'
  BY <1>1, <1>2 DEF TypeInv, Steps, static
<1>4. OpenInv'
  BY <1>1 DEF OpenInv, TypeInv
<1>5. LateInv'
  <2>1. \A t \in Threads :
          \/ pc'[t] = pc[t] /\ opening'[t] = opening[t]
          \/ pc[t] \in {"opened", "refused"} /\ pc'[t] = "idle" /\ opening'[t] = Null
    BY <1>1 DEF TypeInv
  <2>2. \A e \in Exchanges : late[e] => life'[e] \notin {"unborn", "failed"}
    BY <1>1 DEF LateInv
  <2> QED
    BY <1>1, <2>1, <2>2, LateStays
<1>6. RubyInv'
  BY <1>1, <1>2 DEF RubyInv, TypeInv, Threads
<1>7. CppInv'
  <2>1. opening'["cpp"] = opening["cpp"]
    BY <1>1 DEF TypeInv, Threads
  <2> QED
    BY <1>1, <2>1, CppStays
<1> QED
  BY <1>3, <1>4, <1>5, <1>6, <1>7

(* Or it raises, and the exchange is freed already.                        *)
LEMMA RubyRaisesKeeps ==
  ASSUME SharingInv, RubyRaises PROVE SharingInv'
<1> USE DEF SharingInv
<1>1. /\ pc["ruby"] = "refused"
      /\ pc' = [pc EXCEPT !["ruby"] = "idle"]
      /\ opening' = [opening EXCEPT !["ruby"] = Null]
      /\ static' = static /\ mine' = mine /\ life' = life /\ keys' = keys
      /\ slot' = slot /\ late' = late /\ held' = held /\ roots' = roots /\ iv' = iv
  BY DEF RubyRaises, Goto, heap
<1>2. TypeInv'
  BY <1>1 DEF TypeInv, Steps, static
<1>3. OpenInv'
  BY <1>1 DEF OpenInv, TypeInv
<1>4. LateInv'
  <2>1. \A t \in Threads :
          \/ pc'[t] = pc[t] /\ opening'[t] = opening[t]
          \/ pc[t] \in {"opened", "refused"} /\ pc'[t] = "idle" /\ opening'[t] = Null
    BY <1>1 DEF TypeInv
  <2>2. \A e \in Exchanges : late[e] => life'[e] \notin {"unborn", "failed"}
    BY <1>1 DEF LateInv
  <2> QED
    BY <1>1, <2>1, <2>2, LateStays
<1>5. RubyInv'
  BY <1>1 DEF RubyInv, TypeInv, Threads
<1>6. CppInv'
  <2>1. opening'["cpp"] = opening["cpp"]
    BY <1>1 DEF TypeInv, Threads
  <2> QED
    BY <1>1, <2>1, CppStays
<1> QED
  BY <1>2, <1>3, <1>4, <1>5, <1>6

(* A variable of the script goes away, and nothing is freed by that.       *)
LEMMA ForgetKeeps ==
  ASSUME SharingInv, NEW o, Forget(o) PROVE SharingInv'
<1> USE DEF SharingInv
<1>1. /\ roots' = roots \ {o} /\ roots # {} /\ pc["ruby"] = "idle"
      /\ static' = static /\ pc' = pc /\ opening' = opening /\ mine' = mine
      /\ life' = life /\ keys' = keys
      /\ slot' = slot /\ late' = late /\ held' = held /\ iv' = iv
  BY DEF Forget, open, heap
<1>2. TypeInv'
  BY <1>1 DEF TypeInv, static
<1>3. OpenInv'
  BY <1>1 DEF OpenInv
<1>4. LateInv'
  <2>1. \A e \in Exchanges : late[e] => life'[e] \notin {"unborn", "failed"}
    BY <1>1 DEF LateInv
  <2> QED
    BY <1>1, <2>1, LateStays
<1>5. RubyInv'
  BY <1>1 DEF RubyInv
<1>6. CppInv'
  BY <1>1, CppStays
<1> QED
  BY <1>2, <1>3, <1>4, <1>5, <1>6

(* The collector frees the Ruby keys only when the script reaches no       *)
(* exchange, since every one it reaches carries them; and an exchange on   *)
(* its way out of a call is on the stack.                                  *)
LEMMA CollectKeeps ==
  ASSUME SharingInv, Collect PROVE SharingInv'
<1> USE DEF SharingInv
<1> DEFINE dead == {e \in RubyX : Allocated(e) /\ ~Reachable(e)}
           deadKeys == {k \in keys \intersect {KeysOf("ruby")} : ~Reachable(k)}
<1>1. /\ life' = [e \in Exchanges |-> IF e \in dead THEN "freed" ELSE life[e]]
      /\ keys' = keys \ deadKeys
      /\ static' = static /\ pc' = pc /\ opening' = opening /\ mine' = mine
      /\ slot' = slot /\ late' = late /\ held' = held /\ roots' = roots /\ iv' = iv
  BY DEF Collect, open
<1>2. \A e \in dead : e \in RubyX /\ e # opening["ruby"]
  BY DEF Reachable
<1>3. \A k \in deadKeys : k = KeysOf("ruby") /\ pc["ruby"] = "idle" /\ roots = {}
  BY DEF Reachable, RubyInv, TypeInv
<1> HIDE DEF dead, deadKeys
<1>4. TypeInv'
  BY <1>1 DEF TypeInv, static
<1>5. OpenInv'
  <2>1. \A t \in Threads : pc[t] # "idle" => opening[t] \notin dead
    BY <1>2, Distinct DEF OpenInv, Threads
  <2> QED
    BY <1>1, <2>1 DEF OpenInv
<1>6. LateInv'
  <2>1. \A e \in Exchanges : late[e] => life'[e] \notin {"unborn", "failed"}
    BY <1>1 DEF LateInv
  <2> QED
    BY <1>1, <2>1, LateStays
<1>7. RubyInv'
  BY <1>1, <1>3 DEF RubyInv
<1>8. CppInv'
  <2>1. \A e \in CppX : life'[e] = life[e]
    BY <1>1, <1>2, Distinct
  <2>2. KeysOf("cpp") \in keys' <=> KeysOf("cpp") \in keys
    BY <1>1, <1>3, Distinct
  <2> QED
    BY <1>1, <2>1, <2>2, CppStays
<1> QED
  BY <1>4, <1>5, <1>6, <1>7, <1>8
-----------------------------------------------------------------------------
(* What ktls.hpp frees with a handle: the exchange or the keys it holds,   *)
(* and nothing with an empty one.                                          *)
LEMMA FreesWhat ==
  ASSUME SharingInv, NEW h \in XHandles \union KHandles, Frees(held[h])
  PROVE  /\ life' \in [Exchanges -> {"unborn", "open", "done", "failed", "freed"}]
         /\ \A e \in Exchanges : life'[e] = IF e = held[h] THEN "freed" ELSE life[e]
         /\ h \in XHandles => keys' = keys
         /\ h \in KHandles => life' = life /\ keys' = keys \ {held[h]}
         /\ keys' \subseteq Keys /\ (KeysOf("ruby") \in keys' <=> KeysOf("ruby") \in keys)
         /\ \A e \in RubyX : life'[e] = life[e]
<1> USE DEF SharingInv
<1>1. /\ life' = [e \in Exchanges |-> IF e = held[h] THEN "freed" ELSE life[e]]
      /\ keys' = keys \ {held[h]}
  BY DEF Frees, ExchangeFree, KeysFree
<1>2. held[h] \in CppX \union {Null, KeysOf("cpp")}
  BY DEF TypeInv
<1>3. h \in XHandles => held[h] \notin Keys
  BY Distinct, SharingAssumption DEF TypeInv, Exchanges
<1>4. h \in KHandles => held[h] \notin Exchanges
  BY Distinct DEF TypeInv
<1>5. life \in [Exchanges -> {"unborn", "open", "done", "failed", "freed"}] /\ keys \subseteq Keys
  BY DEF TypeInv
<1>6. \A e \in RubyX : e # held[h]
  BY <1>2, Distinct
<1>7. h \in KHandles => life' = life
  BY <1>1, <1>4, <1>5
<1>8. h \in XHandles => keys' = keys
  BY <1>1, <1>3, <1>5
<1>9. KeysOf("ruby") # held[h]
  BY <1>2, Distinct DEF Exchanges
<1> QED
  BY <1>1, <1>5, <1>6, <1>7, <1>8, <1>9 DEF Exchanges

(* A handle is taken, emptied or filled by the C++ thread outside its      *)
(* call, or as the call returns: the other thread notices nothing.         *)
LEMMA HandleKeeps ==
  ASSUME SharingInv, NEW h \in XHandles \union KHandles, Frees(held[h]), TypeInv',
         UNCHANGED <<static, mine, slot, late, roots, iv>>,
         pc'["ruby"] = pc["ruby"] /\ opening'["ruby"] = opening["ruby"],
         pc["cpp"] \in {"idle", "opened", "refused"}, pc'["cpp"] = "idle", opening'["cpp"] = Null
  PROVE  OpenInv' /\ LateInv' /\ RubyInv'
<1> USE DEF SharingInv
<1>1. OpenInv'
  <2>1. pc["ruby"] # "idle" => opening["ruby"] \in RubyX
    BY Distinct DEF OpenInv, Threads
  <2>2. \A e \in RubyX : life'[e] = life[e]
    BY FreesWhat
  <2>3. pc["ruby"] # "idle" => life'[opening["ruby"]] = life[opening["ruby"]]
    BY <2>1, <2>2
  <2> QED
    BY <2>3 DEF OpenInv, Threads
<1>2. LateInv'
  <2>1. \A e \in Exchanges : late[e] => life'[e] \notin {"unborn", "failed"}
    BY FreesWhat DEF LateInv
  <2>2. pc["cpp"] = "idle" => opening["cpp"] = Null
    BY DEF OpenInv, Threads
  <2> QED
    BY <2>1, <2>2, LateStays DEF Threads
<1>3. RubyInv'
  BY FreesWhat DEF RubyInv
<1> QED
  BY <1>1, <1>2, <1>3

(* What an X handle may change: the exchange it held is freed, and the     *)
(* handles come to hold, once each, what stays allocated.                  *)
LEMMA XHandleKeeps ==
  ASSUME SharingInv, NEW h \in XHandles, Frees(held[h]),
         opening'["cpp"] = Null,
         \A a \in KHandles : held'[a] = held[a],
         \A a \in XHandles :
           held'[a] # Null => /\ held'[a] \in CppX /\ held'[a] # held[h] /\ Allocated(held'[a])
                              /\ \A b \in XHandles : held'[b] = held'[a] => b = a,
         \A e \in CppX : Allocated(e) /\ e # held[h] => \E a \in XHandles : held'[a] = e
  PROVE  CppInv'
<1> USE DEF SharingInv
<1>1. /\ keys' = keys
      /\ \A e \in Exchanges : life'[e] = IF e = held[h] THEN "freed" ELSE life[e]
  BY FreesWhat
<1>2. \A e \in CppX : Allocated(e)' <=> Allocated(e) /\ e # held[h]
  BY <1>1 DEF Allocated, Exchanges
<1>3. \A a, b \in XHandles \union KHandles : held'[a] = held'[b] /\ held'[a] # Null => a = b
  <2>1. \A a \in KHandles : held'[a] \in {Null, KeysOf("cpp")}
    BY DEF TypeInv
  <2> QED
    BY <2>1, Distinct DEF CppInv
<1>4. \A a \in XHandles : held'[a] # Null => life'[held'[a]] \in {"open", "done", "failed"}
  BY <1>1 DEF Allocated, Exchanges
<1>5. \A a \in XHandles : held'[a] # Null => Allocated(held[a])' /\ opening'["cpp"] # held'[a]
  BY <1>4 DEF Allocated
<1>6. \A e \in CppX : Allocated(e)' => \E a \in XHandles : held'[a] = e
  BY <1>2
<1>7. KeysOf("cpp") \in keys' <=> \E a \in KHandles : held'[a] = KeysOf("cpp")
  BY <1>1 DEF CppInv
<1>8. (\E e \in CppX : Allocated(e)') => KeysOf("cpp") \in keys'
  BY <1>1, <1>2 DEF CppInv
<1> QED
  BY <1>3, <1>5, <1>6, <1>7, <1>8 DEF CppInv

(* And a K handle: the keys it held are freed when no exchange is left.    *)
LEMMA KHandleKeeps ==
  ASSUME SharingInv, NEW h \in KHandles, Frees(held[h]), MayFree(h),
         opening'["cpp"] = opening["cpp"],
         \A a \in XHandles : held'[a] = held[a],
         \A a \in KHandles :
           held'[a] # Null => /\ held'[a] = KeysOf("cpp") /\ held[h] = Null
                              /\ \A b \in KHandles : held'[b] = held'[a] => b = a,
         held[h] = Null => \A a \in KHandles : held[a] # Null => \E b \in KHandles : held'[b] = held[a],
         \A a \in KHandles : held'[a] # Null => \E b \in KHandles : held[b] = held'[a]
  PROVE  CppInv'
<1> USE DEF SharingInv
<1>1. life' = life /\ keys' = keys \ {held[h]}
  BY FreesWhat
<1>2. \A e : Allocated(e)' <=> Allocated(e)
  BY <1>1 DEF Allocated
<1>3. held[h] \in {Null, KeysOf("cpp")}
  BY DEF TypeInv
<1>4. \A a, b \in XHandles \union KHandles : held'[a] = held'[b] /\ held'[a] # Null => a = b
  <2>1. \A a \in XHandles : held[a] \in CppX \union {Null}
    BY DEF TypeInv
  <2> QED
    BY <2>1, Distinct DEF CppInv
<1>5. \A a \in XHandles : held'[a] # Null => Allocated(held[a])' /\ opening'["cpp"] # held'[a]
  BY <1>1 DEF Allocated, CppInv
<1>6. \A e \in CppX : Allocated(e)' => opening'["cpp"] = e \/ \E a \in XHandles : held'[a] = e
  BY <1>2 DEF CppInv
<1>7. KeysOf("cpp") \in keys' <=> \E a \in KHandles : held'[a] = KeysOf("cpp")
  BY <1>1, <1>3, Distinct DEF CppInv
<1>8. (\E e \in CppX : Allocated(e)') => KeysOf("cpp") \in keys'
  <2> SUFFICES ASSUME NEW e \in CppX, Allocated(e) PROVE KeysOf("cpp") \in keys'
    BY <1>2
  <2>1. held[h] \notin Keys
    BY DEF MayFree
  <2> QED
    BY <1>1, <2>1, Distinct DEF CppInv
<1> QED
  BY <1>4, <1>5, <1>6, <1>7, <1>8 DEF CppInv

(* The end of a scope frees what its handle holds.                         *)
LEMMA DestroyKeeps ==
  ASSUME SharingInv, NEW h \in XHandles \union KHandles, Destroy(h) PROVE SharingInv'
<1> USE DEF SharingInv
<1>1. /\ pc["cpp"] = "idle" /\ MayFree(h) /\ Frees(held[h])
      /\ held' = [held EXCEPT ![h] = Null]
      /\ static' = static /\ pc' = pc /\ opening' = opening /\ mine' = mine
      /\ slot' = slot /\ late' = late /\ roots' = roots /\ iv' = iv
  BY DEF Destroy, open
<1>2. opening["cpp"] = Null
  BY <1>1 DEF OpenInv, Threads
<1>3. TypeInv'
  BY <1>1, FreesWhat DEF TypeInv, static
<1>4. OpenInv' /\ LateInv' /\ RubyInv'
  BY <1>1, <1>2, <1>3, HandleKeeps
<1>5. \A a \in XHandles \union KHandles : held'[a] = IF a = h THEN Null ELSE held[a]
  BY <1>1 DEF TypeInv
<1>6. CppInv'
  <2>1. CASE h \in XHandles
    <3>1. \A a \in KHandles : held'[a] = held[a]
      BY <1>5, <2>1, SharingAssumption
    <3>2. \A a \in XHandles :
            held'[a] # Null => /\ held'[a] \in CppX /\ held'[a] # held[h] /\ Allocated(held'[a])
                               /\ \A b \in XHandles : held'[b] = held'[a] => b = a
      BY <1>5, <2>1 DEF CppInv, TypeInv
    <3>3. \A e \in CppX : Allocated(e) /\ e # held[h] => \E a \in XHandles : held'[a] = e
      BY <1>2, <1>5, Distinct DEF CppInv
    <3> QED
      BY <1>1, <1>2, <2>1, <3>1, <3>2, <3>3, XHandleKeeps
  <2>2. CASE h \in KHandles
    <3>1. \A a \in XHandles : held'[a] = held[a]
      BY <1>5, <2>2, SharingAssumption
    <3>2. \A a \in KHandles :
            held'[a] # Null => /\ held'[a] = KeysOf("cpp") /\ held[h] = Null
                               /\ \A b \in KHandles : held'[b] = held'[a] => b = a
      BY <1>5, <2>2 DEF CppInv, TypeInv
    <3>3. /\ held[h] = Null => \A a \in KHandles : held[a] # Null => \E b \in KHandles : held'[b] = held[a]
          /\ \A a \in KHandles : held'[a] # Null => \E b \in KHandles : held[b] = held'[a]
      BY <1>5, <2>2
    <3> QED
      BY <1>1, <2>2, <3>1, <3>2, <3>3, KHandleKeeps
  <2> QED
    BY <2>1, <2>2
<1> QED
  BY <1>3, <1>4, <1>6

(* A move frees what the target held, and empties the source.              *)
LEMMA MoveAssignKeeps ==
  ASSUME SharingInv, NEW h \in XHandles \union KHandles, NEW g \in XHandles \union KHandles,
         MoveAssign(h, g)
  PROVE  SharingInv'
<1> USE DEF SharingInv
<1>1. /\ pc["cpp"] = "idle"
      /\ {h, g} \subseteq XHandles \/ {h, g} \subseteq KHandles
      /\ static' = static /\ pc' = pc /\ opening' = opening /\ mine' = mine
      /\ slot' = slot /\ late' = late /\ roots' = roots /\ iv' = iv
  BY DEF MoveAssign, open
<1>2. CASE h = g /\ UNCHANGED <<held, heap>>
  <2>1. held' = held /\ life' = life /\ keys' = keys
    BY <1>2 DEF heap
  <2>2. TypeInv'
    BY <1>1, <2>1 DEF TypeInv, static
  <2>3. OpenInv'
    BY <1>1, <2>1 DEF OpenInv
  <2>4. LateInv'
    BY <1>1, <2>1, LateStays DEF LateInv
  <2>5. RubyInv' /\ CppInv'
    BY <1>1, <2>1, CppStays DEF RubyInv
  <2> QED
    BY <2>2, <2>3, <2>4, <2>5
<1>3. CASE h # g /\ MayFree(h) /\ Frees(held[h]) /\ held' = Moved(h, g)
  <2>1. opening["cpp"] = Null
    BY <1>1 DEF OpenInv, Threads
  <2>2. \A a \in XHandles \union KHandles :
          held'[a] = IF a = g THEN Null ELSE IF a = h THEN held[g] ELSE held[a]
    BY <1>3 DEF TypeInv, Moved
  <2>3. held' \in [XHandles \union KHandles -> CppX \union {Null, KeysOf("cpp")}]
    BY <1>3 DEF TypeInv, Moved
  <2>4. TypeInv'
    <3>1. \A a \in XHandles : held'[a] \in CppX \union {Null}
      BY <1>1, <2>2, SharingAssumption DEF TypeInv
    <3>2. \A a \in KHandles : held'[a] \in {Null, KeysOf("cpp")}
      BY <1>1, <2>2, SharingAssumption DEF TypeInv
    <3> QED
      BY <1>1, <1>3, <2>3, <3>1, <3>2, FreesWhat DEF TypeInv, static
  <2>5. OpenInv' /\ LateInv' /\ RubyInv'
    BY <1>1, <1>3, <2>1, <2>4, HandleKeeps
  <2>6. CppInv'
    <3>1. CASE h \in XHandles /\ g \in XHandles
      <4>1. \A a \in KHandles : held'[a] = held[a]
        BY <2>2, <3>1, SharingAssumption
      <4>2. \A a \in XHandles :
              held'[a] # Null => /\ held'[a] \in CppX /\ held'[a] # held[h] /\ Allocated(held'[a])
                                 /\ \A b \in XHandles : held'[b] = held'[a] => b = a
        BY <1>3, <2>2, <3>1 DEF CppInv, TypeInv
      <4>3. \A e \in CppX : Allocated(e) /\ e # held[h] => \E a \in XHandles : held'[a] = e
        <5> SUFFICES ASSUME NEW e \in CppX, Allocated(e), e # held[h]
                     PROVE  \E a \in XHandles : held'[a] = e
          OBVIOUS
        <5>1. PICK a \in XHandles : held[a] = e
          BY <2>1, Distinct DEF CppInv
        <5> QED
          BY <1>3, <2>2, <3>1, <5>1
      <4> QED
        BY <1>1, <1>3, <2>1, <3>1, <4>1, <4>2, <4>3, XHandleKeeps
    <3>2. CASE h \in KHandles /\ g \in KHandles
      <4>1. \A a \in XHandles : held'[a] = held[a]
        BY <2>2, <3>2, SharingAssumption
      <4>2. \A a \in KHandles : held[a] \in {Null, KeysOf("cpp")}
        BY DEF TypeInv
      <4>3. \A a, b \in KHandles : held[a] = held[b] /\ held[a] # Null => a = b
        BY DEF CppInv
      <4>4. \A a \in KHandles :
              held'[a] # Null => /\ held'[a] = KeysOf("cpp") /\ held[h] = Null
                                 /\ \A b \in KHandles : held'[b] = held'[a] => b = a
        BY <1>3, <2>2, <3>2, <4>2, <4>3
      <4>5. /\ held[h] = Null => \A a \in KHandles : held[a] # Null => \E b \in KHandles : held'[b] = held[a]
            /\ \A a \in KHandles : held'[a] # Null => \E b \in KHandles : held[b] = held'[a]
        BY <1>3, <2>2, <3>2
      <4> QED
        BY <1>1, <1>3, <3>2, <4>1, <4>4, <4>5, KHandleKeeps
    <3> QED
      BY <1>1, <3>1, <3>2
  <2> QED
    BY <2>4, <2>5, <2>6
<1> QED
  BY <1>2, <1>3 DEF MoveAssign

(* The result of Exchange::open goes into a handle that frees what it held.*)
LEMMA CppGetsKeeps ==
  ASSUME SharingInv, NEW h \in XHandles, CppGets(h) PROVE SharingInv'
<1> USE DEF SharingInv
<1> DEFINE got == IF pc["cpp"] = "opened" THEN opening["cpp"] ELSE Null
<1>1. /\ pc["cpp"] \in {"opened", "refused"} /\ Frees(held[h])
      /\ held' = [held EXCEPT ![h] = got]
      /\ pc' = [pc EXCEPT !["cpp"] = "idle"]
      /\ opening' = [opening EXCEPT !["cpp"] = Null]
      /\ static' = static /\ mine' = mine /\ slot' = slot /\ late' = late
      /\ roots' = roots /\ iv' = iv
  BY DEF CppGets, Goto
<1>2. /\ pc["cpp"] = "opened" => got \in CppX /\ Allocated(got) /\ got = opening["cpp"]
      /\ pc["cpp"] # "opened" => got = Null
      /\ ~Allocated(opening["cpp"]) \/ opening["cpp"] = got
  BY <1>1, Distinct DEF OpenInv, Threads, Allocated
<1> HIDE DEF got
<1>3. got \in CppX \union {Null}
  BY <1>2
<1>4. TypeInv'
  <2>1. held' \in [XHandles \union KHandles -> CppX \union {Null, KeysOf("cpp")}]
    BY <1>1, <1>3 DEF TypeInv
  <2>2. /\ \A a \in XHandles : held'[a] \in CppX \union {Null}
        /\ \A a \in KHandles : held'[a] \in {Null, KeysOf("cpp")}
    BY <1>1, <1>3, SharingAssumption DEF TypeInv
  <2>3. pc' \in [Threads -> Steps] /\ opening' \in [Threads -> Exchanges \union {Null}]
    BY <1>1 DEF TypeInv, Steps
  <2>4. /\ life' \in [Exchanges -> {"unborn", "open", "done", "failed", "freed"}]
        /\ keys' \subseteq Keys
    BY <1>1, FreesWhat
  <2> QED
    BY <1>1, <2>1, <2>2, <2>3, <2>4 DEF TypeInv, static
<1>5. /\ pc'["ruby"] = pc["ruby"] /\ opening'["ruby"] = opening["ruby"]
      /\ pc'["cpp"] = "idle" /\ opening'["cpp"] = Null
  BY <1>1 DEF TypeInv, Threads
<1>6. OpenInv' /\ LateInv' /\ RubyInv'
  BY <1>1, <1>4, <1>5, HandleKeeps
<1>7. \A a \in XHandles \union KHandles : held'[a] = IF a = h THEN got ELSE held[a]
  BY <1>1 DEF TypeInv
<1>8. CppInv'
  <2>1. \A a \in KHandles : held'[a] = held[a]
    BY <1>7, SharingAssumption
  <2>2. \A a \in XHandles : held[a] # Null => held[a] # opening["cpp"]
    BY DEF CppInv
  <2>3. \A a \in XHandles :
          held'[a] # Null => /\ held'[a] \in CppX /\ held'[a] # held[h] /\ Allocated(held'[a])
                             /\ \A b \in XHandles : held'[b] = held'[a] => b = a
    BY <1>2, <1>7, <2>2, Distinct DEF CppInv, TypeInv
  <2>4. \A e \in CppX : Allocated(e) /\ e # held[h] => \E a \in XHandles : held'[a] = e
    BY <1>2, <1>7 DEF CppInv
  <2> QED
    BY <1>1, <1>5, <2>1, <2>3, <2>4, XHandleKeeps
<1> QED
  BY <1>4, <1>6, <1>8
-----------------------------------------------------------------------------
(* Every step of either thread, of the collector or of a handle.           *)
LEMMA NextKeeps == SharingInv /\ [Next]_vars => SharingInv'
<1> SUFFICES ASSUME SharingInv, [Next]_vars PROVE SharingInv'
  OBVIOUS
<1>1. CASE \E t \in Threads : Open(t) \/ Opens(t)
  BY <1>1, OpenKeeps, TestKeeps, RegisterKeeps, StoreKeeps, ReturnKeeps DEF Opens
<1>2. CASE \E e \in Exchanges : Handshake(e)
  BY <1>2, HandshakeKeeps
<1>3. CASE RubyGets \/ RubyRaises \/ Collect
  BY <1>3, RubyGetsKeeps, RubyRaisesKeeps, CollectKeeps
<1>4. CASE \E o \in RubyX \union {KeysOf("ruby")} : Forget(o)
  BY <1>4, ForgetKeeps
<1>5. CASE \E h, g \in XHandles \union KHandles : MoveAssign(h, g)
  BY <1>5, MoveAssignKeeps
<1>6. CASE \E h \in XHandles \union KHandles : Destroy(h)
  BY <1>6, DestroyKeeps
<1>7. CASE \E h \in XHandles : CppGets(h)
  BY <1>7, CppGetsKeeps
<1>8. CASE UNCHANGED vars
  <2>1. /\ idx' = idx /\ registered' = registered /\ pc' = pc /\ opening' = opening
        /\ mine' = mine /\ life' = life /\ keys' = keys /\ slot' = slot /\ late' = late
        /\ roots' = roots /\ iv' = iv /\ held' = held
    BY <1>8 DEF vars, static, open, heap
  <2> QED
    BY <2>1 DEF SharingInv, TypeInv, OpenInv, LateInv, RubyInv, CppInv, Settled, InWindow, Allocated
<1> QED
  BY <1>1, <1>2, <1>3, <1>4, <1>5, <1>6, <1>7, <1>8 DEF Next

(* Whatever the two threads, the collector and the handles do in whatever  *)
(* order, the invariant holds.                                             *)
THEOREM SharingInvariant == Spec => []SharingInv
<1> QED
  BY InitHolds, NextKeeps, PTL DEF Spec

(* For any exchanges and handles: an exchange that can still be called     *)
(* finds its keys allocated.  In Ruby because every exchange in reach      *)
(* carries @keys, in C++ because the keys' handle is the last to go.       *)
THEOREM KeysAlwaysOutlive == Spec => []KeysOutlive
<1>1. SharingInv => KeysOutlive
  <2> SUFFICES ASSUME SharingInv, NEW e \in Exchanges, Allocated(e), Callable(e)
               PROVE  KeysOf(Of(e)) \in keys
    BY DEF KeysOutlive
  <2>1. CASE Of(e) = "ruby"
    BY <2>1 DEF SharingInv, RubyInv, Callable
  <2>2. CASE Of(e) = "cpp"
    BY <2>2, Distinct DEF SharingInv, CppInv
  <2> QED
    BY <2>1, <2>2 DEF Of
<1> QED
  BY <1>1, SharingInvariant, PTL

(* For any number of handles: moves neither free an object twice nor lose  *)
(* one, so that exactly one handle holds it until it is freed.             *)
THEOREM AlwaysOneHandle == Spec => []OneHandle
<1>1. SharingInv => OneHandle
  <2> SUFFICES ASSUME SharingInv PROVE OneHandle
    OBVIOUS
  <2> USE DEF SharingInv
  <2> DEFINE In(e) == {h \in XHandles : held[h] = e}
             Full == {h \in KHandles : held[h] # Null}
  <2>1. Cardinality({}) = 0 /\ \A x : Cardinality({x}) = 1
    BY FS_EmptySet, FS_Singleton
  <2>2. ASSUME NEW e \in CppX
        PROVE  Cardinality(In(e)) + (IF opening["cpp"] = e /\ Allocated(e) THEN 1 ELSE 0)
                 = IF Allocated(e) THEN 1 ELSE 0
    <3>1. CASE In(e) = {}
      <4>1. Allocated(e) => opening["cpp"] = e
        BY <3>1 DEF CppInv
      <4> QED
        BY <2>1, <3>1, <4>1
    <3>2. CASE In(e) # {}
      <4>1. PICK h \in XHandles : held[h] = e
        BY <3>2
      <4>2. e # Null
        BY Distinct
      <4>3. In(e) = {h}
        BY <4>1, <4>2 DEF CppInv
      <4>4. Allocated(e) /\ opening["cpp"] # e
        BY <4>1, <4>2 DEF CppInv
      <4> QED
        BY <2>1, <4>3, <4>4
    <3> QED
      BY <3>1, <3>2
  <2>3. Cardinality(Full) = Cardinality(keys \intersect {KeysOf("cpp")})
    <3>1. CASE KeysOf("cpp") \in keys
      <4>1. PICK h \in KHandles : held[h] = KeysOf("cpp")
        BY <3>1 DEF CppInv
      <4>2. Full = {h}
        BY <4>1, Distinct DEF CppInv, TypeInv
      <4>3. keys \intersect {KeysOf("cpp")} = {KeysOf("cpp")}
        BY <3>1
      <4> QED
        BY <2>1, <4>2, <4>3
    <3>2. CASE KeysOf("cpp") \notin keys
      <4>1. Full = {}
        BY <3>2 DEF CppInv, TypeInv
      <4>2. keys \intersect {KeysOf("cpp")} = {}
        BY <3>2
      <4> QED
        BY <4>1, <4>2
    <3> QED
      BY <3>1, <3>2
  <2> QED
    BY <2>2, <2>3 DEF OneHandle
<1> QED
  BY <1>1, SharingInvariant, PTL

(* For any exchanges, whichever thread opens them: one whose open found    *)
(* the index settled never loses its secrets to another open.              *)
THEOREM LateOpensAlwaysKeepSecrets == Spec => []LateOpensKeepSecrets
<1>1. SharingInv => LateOpensKeepSecrets
  BY DEF SharingInv, LateInv, LateOpensKeepSecrets
<1> QED
  BY <1>1, SharingInvariant, PTL
=============================================================================
