----------------------------- MODULE MCHostFiles -----------------------------
EXTENDS HostFiles

Together(p, q) == [x \in Procs |-> IF x = 1 THEN p ELSE q]
MCWorkloads ==
  {Together({"atomic"}, {"atomic"}), Together({"atomic", "append"}, {"read"}),
   Together({"append"}, {"append"}),
   Together({"atomic"}, {"append"}), Together({"append_nosync", "write"}, {"read"}),
   Together({"mkdir"}, {"mkdir"})}
=============================================================================
