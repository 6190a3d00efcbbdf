------------------------------ MODULE MCRuntime ------------------------------
(***************************************************************************)
(* Calls of the runtime: amounts that stay within a cap, reach it and are  *)
(* given back, nested traces, and texts around the size of their chunks.    *)
(***************************************************************************)
EXTENDS Runtime

MCAmounts == {3, -2, 4095}
MCCaps    == {0, 3}
MCTexts   == {0, 1, 4, 9}
MCSizes   == {-1, 0, 1, 2, 7, 8, 16}
==============================================================================
