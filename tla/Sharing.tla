------------------------------ MODULE Sharing -------------------------------
(***************************************************************************)
(* What the exchanges of one process share, and who frees it: the index    *)
(* under which every SSL finds its exchange again, a plain static filled   *)
(* in by the first open; and the keys an exchange holds a bare pointer to. *)
(* One thread runs mruby, where a garbage collector (external) frees what  *)
(* the script forgot, the other C++, where the handles of ktls.hpp free    *)
(* what they hold.  Each has keys of its own and opens exchanges in turn.  *)
(***************************************************************************)
EXTENDS Integers, FiniteSets

CONSTANTS
  RubyX, CppX,   \* the exchanges each thread may open
  XHandles,      \* the C++ thread's variables of type ktls::Exchange
  KHandles,      \* and of type ktls::Keys
  Null

Exchanges == RubyX \union CppX
Threads == {"ruby", "cpp"}
Of(e) == IF e \in RubyX THEN "ruby" ELSE "cpp"
KeysOf(t) == IF t = "ruby" THEN "ruby keys" ELSE "cpp keys"
Keys == {KeysOf(t) : t \in Threads}

(* Two objects of one process are not at one address, and none is at NULL. *)
ASSUME SharingAssumption ==
  /\ RubyX \intersect CppX = {} /\ KHandles # {}
  /\ XHandles \intersect KHandles = {} /\ Null \notin Exchanges \union Keys
  /\ Exchanges \intersect Keys = {}

VARIABLES
  idx,          \* ktls_ex_index's static: -1 until someone stored it
  registered,   \* how many indices OpenSSL has handed out
  pc,           \* pc[t]: where t's ktls_exchange_open is, "idle" outside one
  opening,      \* opening[t]: the exchange it opens, Null outside
  mine,         \* mine[t]: what its ktls_ex_index has in hand
  life,         \* life[e]: "unborn", then "open", "done" or "failed", then "freed"
  slot,         \* slot[e]: the index e was stored under in its SSL
  late,         \* e was opened when the index had settled
  keys,         \* the keys that are allocated
  roots,        \* the Ruby objects a script's variables still reach
  iv,           \* the Ruby exchanges that carry an @keys
  held          \* held[h]: the pointer in a C++ handle

static == <<idx, registered>>
open == <<pc, opening, mine>>
heap == <<life, keys>>
vars == <<static, open, heap, slot, late, roots, iv, held>>

Init ==
  /\ idx = -1 /\ registered = 0
  /\ pc = [t \in Threads |-> "idle"]
  /\ opening = [t \in Threads |-> Null]
  /\ mine = [t \in Threads |-> -1]
  /\ life = [e \in Exchanges |-> "unborn"]
  /\ slot = [e \in Exchanges |-> -1]
  /\ late = [e \in Exchanges |-> FALSE]
  /\ keys = Keys
  /\ roots = {KeysOf("ruby")} /\ iv = {}
  /\ LET first == CHOOSE h \in KHandles : TRUE
     IN  held = [h \in XHandles \union KHandles |->
                   IF h = first THEN KeysOf("cpp") ELSE Null]

Allocated(e) == life[e] \in {"open", "done", "failed"}
HeldKeys == {held[h] : h \in KHandles} \ {Null}
HeldX == {held[h] : h \in XHandles} \ {Null}
-----------------------------------------------------------------------------
(* ktls_exchange_open.  A caller has its keys at hand when it calls; the   *)
(* SSL may be refused, which frees the exchange again and answers NULL.    *)
Goto(t, where) == pc' = [pc EXCEPT ![t] = where]

HasKeys(t) == IF t = "ruby" THEN KeysOf(t) \in roots ELSE KeysOf(t) \in HeldKeys

Unborn(t) == {e \in Exchanges : Of(e) = t /\ life[e] = "unborn"}

Open(t) ==
  /\ pc[t] = "idle" /\ HasKeys(t) /\ Unborn(t) # {}
  /\ LET e == CHOOSE u \in Unborn(t) : TRUE
     IN  /\ opening' = [opening EXCEPT ![t] = e]
         /\ \/ Goto(t, "test") /\ life' = [life EXCEPT ![e] = "open"]
            \/ Goto(t, "refused") /\ life' = [life EXCEPT ![e] = "freed"]
  /\ UNCHANGED <<static, mine, keys, slot, late, roots, iv, held>>

(* ktls_ex_index, a read, a call and a write that nothing orders between   *)
(* threads.                                                                *)
InWindow(t) == pc[t] \in {"register", "store"}
Settled == idx >= 0 /\ \A t \in Threads : ~InWindow(t)

(* Whatever the static holds, a new index.                                 *)
TestNever(t) ==
  /\ pc[t] = "test"
  /\ late' = [late EXCEPT ![opening[t]] = Settled]
  /\ Goto(t, "register") /\ UNCHANGED mine
  /\ UNCHANGED <<static, opening, heap, slot, roots, iv, held>>

Test(t) ==
  /\ pc[t] = "test"
  /\ late' = [late EXCEPT ![opening[t]] = Settled]
  /\ \/ idx < 0 /\ Goto(t, "register") /\ UNCHANGED mine
     \/ idx >= 0 /\ Goto(t, "return") /\ mine' = [mine EXCEPT ![t] = idx]
  /\ UNCHANGED <<static, opening, heap, slot, roots, iv, held>>

Register(t) ==
  /\ pc[t] = "register"
  /\ mine' = [mine EXCEPT ![t] = registered]
  /\ registered' = registered + 1
  /\ Goto(t, "store")
  /\ UNCHANGED <<idx, opening, heap, slot, late, roots, iv, held>>

Store(t) ==
  /\ pc[t] = "store"
  /\ idx' = mine[t]
  /\ Goto(t, "return")
  /\ UNCHANGED <<registered, opening, mine, heap, slot, late, roots, iv, held>>

(* What it returns is what it has in hand or, the static read again, what  *)
(* is there by now: either is a build of this code.                        *)
Return(t) ==
  /\ pc[t] = "return"
  /\ \E i \in {mine[t], idx} : slot' = [slot EXCEPT ![opening[t]] = i]
  /\ mine' = [mine EXCEPT ![t] = -1]
  /\ Goto(t, "opened")
  /\ UNCHANGED <<static, opening, heap, late, roots, iv, held>>
-----------------------------------------------------------------------------
(* exchange_init keeps the keys reachable from the exchange, or raises.    *)
ForgetsKeys ==
  /\ pc["ruby"] = "opened"
  /\ roots' = roots \union {opening["ruby"]}
  /\ Goto("ruby", "idle") /\ opening' = [opening EXCEPT !["ruby"] = Null]
  /\ UNCHANGED <<static, mine, heap, slot, late, iv, held>>

RubyGets ==
  /\ pc["ruby"] = "opened"
  /\ roots' = roots \union {opening["ruby"]}
  /\ iv' = iv \union {opening["ruby"]}
  /\ Goto("ruby", "idle") /\ opening' = [opening EXCEPT !["ruby"] = Null]
  /\ UNCHANGED <<static, mine, heap, slot, late, held>>

RubyRaises ==
  /\ pc["ruby"] = "refused"
  /\ Goto("ruby", "idle") /\ opening' = [opening EXCEPT !["ruby"] = Null]
  /\ UNCHANGED <<static, mine, heap, slot, late, roots, iv, held>>

(* A variable of the script goes away.                                     *)
Forget(o) ==
  /\ pc["ruby"] = "idle" /\ o \in roots
  /\ roots' = roots \ {o}
  /\ UNCHANGED <<static, open, heap, slot, late, iv, held>>

(* The collector marks from the roots (and from the stack of a call in     *)
(* progress) and calls exchange_free and keys_free on the rest, in         *)
(* whatever order they lie in the heap.                                    *)
Reachable(o) ==
  \/ o \in roots
  \/ o = KeysOf("ruby") /\ (pc["ruby"] # "idle" \/ iv \intersect roots # {})
  \/ o = opening["ruby"]

Collect ==
  /\ LET dead == {e \in RubyX : Allocated(e) /\ ~Reachable(e)}
         deadKeys == {k \in keys \intersect {KeysOf("ruby")} : ~Reachable(k)}
     IN  /\ dead \union deadKeys # {}
         /\ life' = [e \in Exchanges |-> IF e \in dead THEN "freed" ELSE life[e]]
         /\ keys' = keys \ deadKeys
  /\ UNCHANGED <<static, open, slot, late, roots, iv, held>>
-----------------------------------------------------------------------------
(* ktls.hpp: what a handle held is freed before it takes another's         *)
(* pointer, and the other is left empty; the same variable twice is        *)
(* nothing.  The result of Exchange::open is moved into a variable.        *)
ExchangeFree(o) == life' = [e \in Exchanges |-> IF e = o THEN "freed" ELSE life[e]]
KeysFree(o) == keys' = keys \ {o}
Frees(o) == ExchangeFree(o) /\ KeysFree(o)

(* The pointer copied and not taken away.                                  *)
Copied(h, g) == [held EXCEPT ![h] = held[g]]
Moved(h, g) == [held EXCEPT ![h] = held[g], ![g] = Null]

MayFree(h) == held[h] \in Keys => \A e \in CppX : ~Allocated(e)

MoveAssign(h, g) ==
  /\ pc["cpp"] = "idle"
  /\ {h, g} \subseteq XHandles \/ {h, g} \subseteq KHandles
  /\ \/ h = g /\ UNCHANGED <<held, heap>>
     \/ h # g /\ MayFree(h) /\ Frees(held[h]) /\ held' = Moved(h, g)
  /\ UNCHANGED <<static, open, slot, late, roots, iv>>

(* A scope ends; the header has the keys outlive what was opened with them.*)
Destroy(h) ==
  /\ pc["cpp"] = "idle" /\ MayFree(h)
  /\ Frees(held[h])
  /\ held' = [held EXCEPT ![h] = Null]
  /\ UNCHANGED <<static, open, slot, late, roots, iv>>

CppGets(h) ==
  /\ pc["cpp"] \in {"opened", "refused"} /\ h \in XHandles
  /\ Frees(held[h])
  /\ held' = [held EXCEPT ![h] = IF pc["cpp"] = "opened" THEN opening["cpp"] ELSE Null]
  /\ Goto("cpp", "idle") /\ opening' = [opening EXCEPT !["cpp"] = Null]
  /\ UNCHANGED <<static, mine, slot, late, roots, iv>>
-----------------------------------------------------------------------------
(* A step that reaches the key schedule: ktls_keylog looks the exchange up *)
(* under the static's index; under another one it is not there, no secret  *)
(* arrives and ktls_derive_both fails.  The callbacks read the keys.       *)
Callable(e) == IF Of(e) = "ruby" THEN e \in roots ELSE e \in HeldX

Handshake(e) ==
  /\ life[e] = "open" /\ Callable(e) /\ pc[Of(e)] = "idle"
  /\ life' = [life EXCEPT ![e] = IF slot[e] = idx THEN "done" ELSE "failed"]
  /\ UNCHANGED <<static, open, keys, slot, late, roots, iv, held>>

Opens(t) == Test(t) \/ Register(t) \/ Store(t) \/ Return(t)

Next ==
  \/ \E t \in Threads : Open(t) \/ Opens(t)
  \/ \E e \in Exchanges : Handshake(e)
  \/ RubyGets \/ RubyRaises \/ Collect
  \/ \E o \in RubyX \union {KeysOf("ruby")} : Forget(o)
  \/ \E h, g \in XHandles \union KHandles : MoveAssign(h, g)
  \/ \E h \in XHandles \union KHandles : Destroy(h)
  \/ \E h \in XHandles : CppGets(h)

Spec == Init /\ [][Next]_vars
-----------------------------------------------------------------------------
(* An exchange that can still be called finds its keys allocated: in Ruby  *)
(* whatever the script has forgotten, in C++ wherever the keys were moved  *)
(* ("The keys must outlive the exchange; the C side holds a pointer").     *)
KeysOutlive ==
  \A e \in Exchanges : Allocated(e) /\ Callable(e) => KeysOf(Of(e)) \in keys

(* Every object the C++ thread allocated is in exactly one handle until it *)
(* is freed, and in none after: moves neither free twice nor lose one.     *)
OneHandle ==
  /\ \A e \in CppX :
       Cardinality({h \in XHandles : held[h] = e})
         + (IF opening["cpp"] = e /\ Allocated(e) THEN 1 ELSE 0)
       = IF Allocated(e) THEN 1 ELSE 0
  /\ Cardinality({h \in KHandles : held[h] # Null})
       = Cardinality(keys \intersect {KeysOf("cpp")})

(* Only a race of first opens costs an exchange its secrets: one opened    *)
(* after the index had settled never loses them (ktls_ex_index).           *)
LateOpensKeepSecrets == \A e \in Exchanges : late[e] => life[e] # "failed"
=============================================================================
