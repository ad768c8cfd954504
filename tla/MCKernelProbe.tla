--------------------------- MODULE MCKernelProbe ---------------------------
(* A name that begins again inside itself, and every file of up to six     *)
(* bytes of its letters; a buffer that holds the name and one byte more.   *)
EXTENDS KernelProbe

MCWant == <<"a", "a", "b">>
MCDepFiles == UNION {[1 .. n -> {"a", "b"}] : n \in 0 .. 6}
MCBuiltinFiles == {<<>>, <<"b", "a">>, <<"a", "a", "a", "b">>}
=============================================================================
