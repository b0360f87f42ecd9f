--------------------------- MODULE MCSimPrefetch ---------------------------
(***************************************************************************)
(* A small instance of SimPrefetch: pages of two words, two of them in the *)
(* ROM and one past its end, every byte different.                          *)
(***************************************************************************)
EXTENDS SimCheck

DistinctBytes == [k \in 0 .. 2 * End - 1 |-> k]
FF == <<0, 255>>
=============================================================================
