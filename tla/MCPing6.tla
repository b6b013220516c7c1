------------------------------ MODULE MCPing6 ------------------------------
(* ping6 -c 1 -G 2,1: two sizes, one request each. *)
EXTENDS Ping6

MCOptions ==
  {[count |-> 1, preload |-> 0, sweepmin |-> 1, sweepmax |-> 2, sweepincr |-> 1,
    flood |-> FALSE, once |-> FALSE, numeric |-> FALSE, v6 |-> TRUE]}
=============================================================================
