---------------------------- MODULE MCSdramLive ----------------------------
(***************************************************************************)
(* A small instance of SdramCtrl, without the history, for liveness and    *)
(* the memory port.                                                        *)
(***************************************************************************)
EXTENDS SdramCtrl

OwnAddress == [a \in Addr |-> a]
TenPlus    == [k \in 0 .. MaxLen |-> 10 + k]
\* A writer and a reader of one word.
OneWord    == [i \in Client |-> {[we |-> i = 1, addr |-> 0, data |-> i]}]
OneBurst   == {[we |-> FALSE, addr |-> 1, len |-> 3]}

(* The writer's word is outside the burst, as the theorem about whole       *)
(* bursts asks.                                                             *)
ASSUME TheoremsApply == ChipKeepsUp /\ WholeStartUp /\ WordsApart
=============================================================================
