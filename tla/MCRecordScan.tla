---------------------------- MODULE MCRecordScan ----------------------------
(* Streams of up to four records whose bodies are empty or a few bytes,    *)
(* and one with a body whose length needs both bytes of its head.          *)
EXTENDS RecordScan

CONSTANTS Bodies, MaxRecords, LongBody

Cumulative(s) == [k \in 1 .. Len(s) |->
  LET total[i \in 0 .. k] == IF i = 0 THEN 0 ELSE total[i - 1] + HeadLen + s[i]
  IN  total[k]]

MCStreams ==
  {Cumulative(s) : s \in UNION {[1 .. n -> Bodies] : n \in 0 .. MaxRecords}
                         \union {<<1, LongBody, 0>>}}
=============================================================================
