---------------------------- MODULE MCSdramBench ----------------------------
(***************************************************************************)
(* Small instance of SdramBench for TLC.                                   *)
(***************************************************************************)
EXTENDS SdramBench

Rd(a)     == [we |-> FALSE, addr |-> a, data |-> 0]
Wr(a, v)  == [we |-> TRUE, addr |-> a, data |-> v]
OwnAddress == [a \in Addr |-> a]
Undriven      == [k \in 0 .. MaxLen |-> 0]
\* A writer and two readers of a word in the middle of the bursts.
InTheBurst == [i \in Client |-> CASE i = 0 -> {Wr(1, 1), Wr(1, 5)}
                                  [] i = 1 -> {Rd(1)}
                                  [] OTHER -> {Rd(1)}]
\* The bench's bursts are reads.
ReadBursts == {[we |-> FALSE, addr |-> 0, len |-> 3]}
=============================================================================
