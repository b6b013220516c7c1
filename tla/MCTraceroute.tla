---------------------------- MODULE MCTraceroute ----------------------------
EXTENDS Traceroute

Line(p, b, n, f, m) == [prog |-> p, base |-> b, nprobes |-> n, first_ttl |-> f, max_ttl |-> m]

\* Numbers past a u_char and past the field, short and long rounds of probes.
MCOptions == {Line("traceroute", 0, 2, 1, 3), Line("traceroute", 10, 2, 1, 2),
              Line("traceroute", 0, 4, 2, 3), Line("traceroute", 0, 1, 1, 3),
              Line("traceroute", 0, 3, 1, 2),
              Line("traceroute6", 10, 2, 1, 3), Line("traceroute6", 0, 4, 1, 1),
              Line("none", 0, 2, 1, 2)}
=============================================================================
