---------------------------- MODULE KernelProbe ----------------------------
(***************************************************************************)
(* What the kernel can do, asked without changing it: ktls_available, with *)
(* the search of ktls_file_names read by read, and the two calls that make *)
(* the kernel look the "tls" ULP up.  A byte is a letter.  The kernel      *)
(* (external) is whether tls is loaded and what its two module indices     *)
(* hold; the rest of the machine loads and unloads the module meanwhile.   *)
(***************************************************************************)
EXTENDS Integers, Sequences

CONSTANTS
  Want,           \* "net/tls/tls.ko"
  BufSize,        \* sizeof(buf): 4096 in the code
  DepFiles,       \* what modules.dep may hold; <<>> also when there is none
  BuiltinFiles    \* what modules.builtin may hold

ASSUME ProbeAssumption ==
  /\ Want \in Seq(STRING) /\ Want # <<>>
  /\ BufSize \in Nat /\ Len(Want) <= BufSize
  /\ \A f \in DepFiles \union BuiltinFiles : f \in Seq(STRING)

VARIABLES
  loaded,         \* the tls ULP is registered
  index,          \* index["dep"], index["builtin"]: the two files
  pc,             \* where ktls_available is, "idle" between calls
  file,           \* which of the two it reads
  pos,            \* how much of it was read
  buf,            \* buf[0 .. held)
  answer,         \* of the last ktls_available
  seen,           \* loaded, when that call asked
  trouble,        \* a system call of it failed
  loader,         \* the last answer of ktls_load_module
  denied          \* a ktls_available that met no trouble answered false

kernel == <<loaded, index>>
call == <<pc, file, pos, buf, answer, seen, trouble>>
vars == <<kernel, call, loader, denied>>

Min2(a, b) == IF a < b THEN a ELSE b

Last(s, n) == SubSeq(s, Len(s) - n + 1, Len(s))

(* Reference: want is somewhere in s.                                      *)
Occurs(want, s) ==
  \E i \in 0 .. Len(s) - Len(want) : SubSeq(s, i + 1, i + Len(want)) = want

(* A built-in tls is there from boot on; a module may be, whoever put it.  *)
Init ==
  /\ index \in [{"dep", "builtin"} -> DepFiles \union BuiltinFiles]
  /\ index["dep"] \in DepFiles /\ index["builtin"] \in BuiltinFiles
  /\ loaded \in BOOLEAN /\ (Occurs(Want, index["builtin"]) => loaded)
  /\ pc = "idle" /\ file = "dep" /\ pos = 0 /\ buf = <<>>
  /\ answer = "none" /\ seen = FALSE /\ trouble = FALSE
  /\ loader = "none" /\ denied = FALSE
-----------------------------------------------------------------------------
(* ktls_initialized, then the two indices in turn.  A call that fails      *)
(* where the code tells no reasons apart answers as if nothing were there. *)
Answer(yes, troubled) ==
  /\ pc' = "idle" /\ answer' = IF yes THEN "yes" ELSE "no"
  /\ pos' = 0 /\ buf' = <<>>
  /\ denied' = (denied \/ (~yes /\ ~troubled))

Available ==
  /\ pc = "idle"
  /\ seen' = loaded
  /\ \E access, uname \in BOOLEAN :
       /\ trouble' = (~access \/ (~loaded /\ ~uname))
       /\ IF (loaded /\ access) \/ ~uname
            THEN Answer(loaded /\ access, ~access \/ ~uname)
            ELSE /\ pc' = "open" /\ answer' = "none"
                 /\ UNCHANGED <<pos, buf, denied>>
  /\ file' = "dep"
  /\ UNCHANGED <<kernel, loader>>

Missed(troubled) ==
  IF file = "dep"
    THEN /\ pc' = "open" /\ file' = "builtin" /\ pos' = 0 /\ buf' = <<>>
         /\ UNCHANGED <<answer, denied>>
    ELSE Answer(FALSE, troubled) /\ UNCHANGED file

(* ktls_file_names: open.                                                  *)
Open ==
  /\ pc = "open"
  /\ pc' = "read"
  /\ UNCHANGED <<kernel, file, pos, buf, answer, seen, trouble, loader, denied>>

(* One byte too few carried over, and the wrong end of the buffer kept.    *)
HeldShort(have) == Min2(Len(Want) - 2, Len(have))
KeptFront(have) == SubSeq(have, 1, Min2(Len(Want) - 1, Len(have)))

Found(have) == Occurs(Want, have)
Held(have) == Min2(Len(Want) - 1, Len(have))
Kept(have) == Last(have, Held(have))

(* One turn of its loop: a read of any size, a look, and what is kept.     *)
Read ==
  /\ pc = "read"
  /\ \E n \in 1 .. Min2(BufSize - Len(buf), Len(index[file]) - pos) :
       LET have == buf \o SubSeq(index[file], pos + 1, pos + n)
       IN  IF Found(have)
             THEN Answer(TRUE, trouble)
             ELSE /\ pos' = pos + n /\ buf' = Kept(have)
                  /\ UNCHANGED <<pc, answer, denied>>
  /\ UNCHANGED <<kernel, file, seen, trouble, loader>>

(* A read of 0 bytes not taken for the end: the loop goes round again.     *)
EndUnseen ==
  /\ pc = "read" /\ pos = Len(index[file])
  /\ UNCHANGED vars

End ==
  /\ pc = "read" /\ pos = Len(index[file])
  /\ Missed(trouble)
  /\ UNCHANGED <<kernel, seen, trouble, loader>>

(* An open or a read that fails.                                           *)
Fail ==
  /\ pc \in {"open", "read"}
  /\ trouble' = TRUE
  /\ Missed(TRUE)
  /\ UNCHANGED <<kernel, seen, loader>>
-----------------------------------------------------------------------------
(* The ULP lookup, external: it loads the module for a caller that may,    *)
(* from the index, before it looks at the socket.                          *)
UlpLookup ==
  \E may \in BOOLEAN : loaded' = (loaded \/ (may /\ Occurs(Want, index["dep"])))

(* A dummy socket refused for whatever reason taken for the success sound. *)
LoadModuleDeaf ==
  /\ pc = "idle"
  /\ \E socket \in BOOLEAN :
       /\ IF socket THEN UlpLookup ELSE UNCHANGED loaded
       /\ loader' = IF socket THEN "ok" ELSE "failed"
  /\ UNCHANGED <<index, call, denied>>

(* ktls_load_module: ENOTCONN says that the lookup came through.           *)
LoadModule ==
  /\ pc = "idle"
  /\ \E socket \in BOOLEAN :
       /\ IF socket THEN UlpLookup ELSE UNCHANGED loaded
       /\ loader' = IF socket /\ loaded' THEN "ok" ELSE "failed"
  /\ UNCHANGED <<index, call, denied>>

(* ktls_attach_ulp, on a connected socket: the same lookup.                *)
AttachUlp ==
  /\ pc = "idle"
  /\ UlpLookup
  /\ UNCHANGED <<index, call, loader, denied>>

(* modprobe and rmmod, by someone else and at any time.                    *)
Modprobe ==
  /\ Occurs(Want, index["dep"])
  /\ loaded' = TRUE
  /\ UNCHANGED <<index, call, loader, denied>>

Rmmod ==
  /\ ~Occurs(Want, index["builtin"])
  /\ loaded' = FALSE
  /\ UNCHANGED <<index, call, loader, denied>>

Searching == Open \/ Read \/ End
Next == Available \/ Searching \/ Fail \/ LoadModule \/ AttachUlp \/ Modprobe \/ Rmmod

(* A call that was made goes on; nobody need make one.                     *)
Spec == Init /\ [][Next]_vars /\ WF_vars(Searching)
-----------------------------------------------------------------------------
(* In the middle of a search the buffer holds the last wlen - 1 bytes read *)
(* (all, while fewer were), and the name ends nowhere in what was read: so *)
(* one that straddles any two reads is still ahead (ktls_file_names).      *)
CarryExact ==
  pc = "read" =>
    LET past == SubSeq(index[file], 1, pos)
    IN  /\ pos \in 0 .. Len(index[file])
        /\ buf = Last(past, Min2(Len(Want) - 1, pos))
        /\ ~Occurs(Want, past)

(* ktls_available answers true only for a tls that was loaded when it      *)
(* asked or that an index lists, and false, with no system call failing,   *)
(* only when there was neither: however the reads cut the files, and       *)
(* whoever loads or unloads the module meanwhile.                          *)
Listed == \E f \in {"dep", "builtin"} : Occurs(Want, index[f])

AnswerExact ==
  /\ answer = "yes" => seen \/ Listed
  /\ answer = "no" /\ ~trouble => ~seen /\ ~Listed

(* "False means ktls_load_module cannot help" (ktls.h): after a false no   *)
(* failing call explains, nobody gets tls into this kernel.                *)
FalseMeansNoHelp ==
  [][denied => ~loaded' /\ (loader' = "ok" => loader = "ok")]_vars

(* A search ends, however little each read returns.                        *)
SearchEnds == (pc # "idle") ~> (pc = "idle")
=============================================================================
