---------------------------- MODULE MCSdramCtrl ----------------------------
(***************************************************************************)
(* Small instances of SdramCtrl, with the history of SdramWaits, for TLC.  *)
(***************************************************************************)
EXTENDS SdramWaits

Read(a)     == [we |-> FALSE, addr |-> a, data |-> 0]
Burst(w, a, n) == [we |-> w, addr |-> a, len |-> n]

(* The words hold their own address at first, row data is 10 + index.       *)
OwnAddress == [a \in Addr |-> a]
TenPlus    == [k \in 0 .. MaxLen |-> 10 + k]

(* Every client reads a word of its own. *)
OwnWord == [i \in Client |-> {Read(i)}]

(* A read of five words, over several chunks and across a row, and a write  *)
(* that starts on the last column of a row.                                 *)
MixedBursts == {Burst(FALSE, 2, 5), Burst(TRUE, 3, 3)}
ReadBursts  == {Burst(FALSE, 0, 1), Burst(FALSE, 1, 3)}

(* This instance meets the hypotheses of the theorems about the chip's      *)
(* timings, about chunks, and about whole bursts.                           *)
ASSUME TheoremsApply == ChipKeepsUp /\ WholeStartUp /\ RefreshesFarApart /\ WordsApart
=============================================================================
