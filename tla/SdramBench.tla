----------------------------- MODULE SdramBench -----------------------------
(***************************************************************************)
(* The scoreboard of sim/tb_sdram.cpp around rtl/sdram_ctrl.sv: a shadow   *)
(* memory that takes a write when it is acknowledged, against which every  *)
(* word read is compared when it is delivered.  Its clients (BenchPorts in *)
(* SdramCtrl) are quicker than the machine's: a new request may take the   *)
(* place of the acknowledged one without a clock in between.  c_req and    *)
(* b_req are the bench's "busy" flags.                                     *)
(***************************************************************************)
EXTENDS SdramWaits

VARIABLES shadow,      \* the bench's memory
          bgot,        \* the burst words that have come
          complaints   \* what the bench has printed

bvars == <<wvars, shadow, bgot, complaints>>

Acked == {i \in Client : c_ack'[i]}
Writers == {i \in Acked : c_req[i] /\ c_cmd[i].we}
Readers == {i \in Acked : c_req[i] /\ ~c_cmd[i].we}

ShadowAfter == [a \in Addr |-> IF \E i \in Writers : c_cmd[i].addr = a
                               THEN c_cmd[CHOOSE i \in Writers : c_cmd[i].addr = a].data
                               ELSE shadow[a]]

(* The checks of one iteration: acknowledges, then the burst word (the      *)
(* writes acknowledged on the same clock are in the shadow), then b_done.   *)
RandomChecks ==
    {"spurious ack" : i \in {j \in Acked : ~c_req[j]}}
    \cup {"MISMATCH" : i \in {j \in Readers : rdata' # shadow[c_cmd[j].addr]}}

BurstChecks ==
    CASE ~b_wr' -> {}
      [] b_wr' /\ ~b_req -> {"spurious burst word"}
      [] b_wr' /\ b_req /\ b_idx' >= b_cmd.len -> {"burst idx out of range"}
      [] OTHER -> IF b_data' # ShadowAfter[(b_cmd.addr + b_idx') % AddrSize]
                  THEN {"BURST MISMATCH"} ELSE {}

Got == IF b_wr' /\ b_req THEN bgot \cup {b_idx'} ELSE bgot

DoneChecks ==
    CASE ~b_done' -> {}
      [] b_done' /\ ~b_req -> {"spurious b_done"}
      [] OTHER -> IF 0 .. b_cmd.len - 1 \subseteq Got THEN {} ELSE {"never delivered"}

Scoreboard ==
    /\ shadow' = ShadowAfter
    /\ bgot' = IF b_done' \/ ~b_req THEN {} ELSE Got
    /\ complaints' = complaints \cup RandomChecks \cup BurstChecks \cup DoneChecks

BInit == WInit /\ shadow = InitMem /\ bgot = {} /\ complaints = {}
BNext == WNext /\ Scoreboard
BSpec == BInit /\ [][BNext]_bvars

-----------------------------------------------------------------------------
(* The bench prints nothing: with clients that leave no clock between two   *)
(* requests, every acknowledge, word and b_done is due, every word is the   *)
(* one last written (in the order of the acknowledges), and every burst is  *)
(* whole when b_done rises.                                                 *)
NoComplaint == complaints = {}

(* A write is acknowledged on the very clock the chip takes it: the shadow, *)
(* which follows the acknowledges, is never behind or ahead of the chip, so *)
(* the order of the acknowledges is the order of the accesses.              *)
ShadowIsChip == shadow = mem
=============================================================================
