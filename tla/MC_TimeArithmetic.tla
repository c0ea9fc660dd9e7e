------------------------- MODULE MC_TimeArithmetic -------------------------
(* 2 ns per us, 3 us per ms, 2 ms per s: 12 ns per second; 8-bit "longs"   *)
(* made of two 4-bit halves.                                               *)
EXTENDS TimeArithmetic

MCSeconds == {0, 1, 2, 20, 40, 60}
=============================================================================
