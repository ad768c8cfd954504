---------------------------- MODULE SecureStream ----------------------------
(***************************************************************************)
(* What the two callers want of all this: each direction is a pipe.  The   *)
(* messages a side wrote come out of the other end once, in order, none    *)
(* missing in between - whether through backlog() or through the kernel -  *)
(* and its end is told from its loss: a reader that saw a clean end was    *)
(* handed everything, and one that saw a cut had a peer that never ended.  *)
(* Where an end may be missed it is one of these: told as a cut, and the   *)
(* other way round never.                                                  *)
(***************************************************************************)
EXTENDS Naturals, Sequences

CONSTANTS
  Ends, Other(_),
  MayMiss        \* whether the end of a pipe may get lost on its way

VARIABLES
  sent, got,     \* sent[s]: how many s wrote; got[s]: what s was handed, by number
  shut, ended,   \* s will write no more; how s's reading ended
  missed         \* the other's end came to s and was not told

vars == <<sent, got, shut, ended, missed>>

Init ==
  /\ sent = [s \in Ends |-> 0] /\ got = [s \in Ends |-> <<>>]
  /\ shut = [s \in Ends |-> FALSE] /\ ended = [s \in Ends |-> "open"]
  /\ missed = [s \in Ends |-> FALSE]

Write(s) ==
  /\ ~shut[s]
  /\ sent' = [sent EXCEPT ![s] = @ + 1]
  /\ UNCHANGED <<got, shut, ended, missed>>

Shut(s) ==
  /\ shut' = [shut EXCEPT ![s] = TRUE]
  /\ UNCHANGED <<sent, got, ended, missed>>

Deliver(s) ==
  /\ ended[s] = "open" /\ Len(got[s]) < sent[Other(s)]
  /\ got' = [got EXCEPT ![s] = Append(@, Len(@) + 1)]
  /\ UNCHANGED <<sent, shut, ended, missed>>

End(s) ==
  /\ ended[s] = "open"
  /\ \/ /\ shut[Other(s)] /\ ~missed[s] /\ Len(got[s]) = sent[Other(s)]
        /\ ended' = [ended EXCEPT ![s] = "clean"]
     \/ /\ ~shut[Other(s)] \/ missed[s]
        /\ ended' = [ended EXCEPT ![s] = "cut"]
  /\ UNCHANGED <<sent, got, shut, missed>>

Miss(s) ==
  /\ MayMiss /\ shut[Other(s)] /\ ended[s] = "open"
  /\ missed' = [missed EXCEPT ![s] = TRUE]
  /\ UNCHANGED <<sent, got, shut, ended>>

Spec ==
  Init /\ [][\E s \in Ends : Write(s) \/ Shut(s) \/ Deliver(s) \/ End(s) \/ Miss(s)]_vars
=============================================================================
