------------------------------ MODULE MCSharing -----------------------------
(* Two exchanges in either thread, and a variable to move each C++ object  *)
(* to.                                                                     *)
EXTENDS Sharing
=============================================================================
