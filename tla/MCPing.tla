------------------------------- MODULE MCPing -------------------------------
(* Plain, once, flood, preload and sweep command lines of ping and ping6. *)
EXTENDS Ping6

Plain == [count |-> 0, preload |-> 0, sweepmin |-> 0, sweepmax |-> 0, sweepincr |-> 1,
          flood |-> FALSE, once |-> FALSE, numeric |-> FALSE, v6 |-> FALSE]

MCOptions ==
  {Plain,
   [Plain EXCEPT !.once = TRUE, !.numeric = TRUE],
   [Plain EXCEPT !.count = 5],
   [Plain EXCEPT !.count = 3, !.preload = 4],
   [Plain EXCEPT !.count = 4, !.flood = TRUE],
   [Plain EXCEPT !.count = 2, !.sweepmax = 2, !.preload = 2],
   [Plain EXCEPT !.sweepmin = 1, !.sweepmax = 6, !.sweepincr = 2],
   [Plain EXCEPT !.v6 = TRUE, !.once = TRUE],
   [Plain EXCEPT !.v6 = TRUE, !.count = 4, !.preload = 2],
   [Plain EXCEPT !.v6 = TRUE, !.count = 3, !.flood = TRUE],
   [Plain EXCEPT !.v6 = TRUE, !.count = 2, !.sweepmax = 2]}
=============================================================================
