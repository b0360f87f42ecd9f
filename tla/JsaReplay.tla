----------------------------- MODULE JsaReplay -----------------------------
(***************************************************************************)
(* The sound board of SoundLatch under a second driver: sim/jsa/tb_jsa.cpp,*)
(* which replays the commands and resets a reference machine sent, at the  *)
(* times it sent them, with its model of the 68k's hold-off (JSA_STALL),   *)
(* and reads an answer some time after it raises the interrupt.            *)
(*                                                                         *)
(* The bench sets the board's inputs from the outputs after the last edge, *)
(* so its strobes depend on the primed latches.                            *)
(***************************************************************************)
EXTENDS SoundLatch, Sequences, SequencesExt

CONSTANTS RESP,       \* clocks from the interrupt to the read (8 us)
          MaxDue      \* bound: events the replay may be late by

ASSUME ReplayAssumption == RESP \in Nat \ {0} /\ MaxDue \in Nat \ {0}

VARIABLES driver,     \* who drives the board: the 68k or the bench
          due,        \* ev[ei ..]: the events whose time has come
          resp_wait

replay == <<due, resp_wait>>
rvars  == <<vars, driver, replay>>

(* An event of the recording falls due.                                     *)
Arrivals == {<<>>} \cup (IF Len(due) = MaxDue THEN {} ELSE {<<"SRESET">>, <<"CMD">>})

(* One turn of the replay loop: resets are applied at once, and the first   *)
(* command ends the turn, written or held back.                             *)
Replay ==
    \E arrival \in Arrivals :
       LET queue == due \o arrival
           resets == {i \in DOMAIN queue : \A j \in 1 .. i : queue[j] = "SRESET"}
           rest == SubSeq(queue, Cardinality(resets) + 1, Len(queue))
           held == rest # <<>> /\ cmd_pending' /\ snd_stall < STALL
           writes == rest # <<>> /\ ~held
       IN /\ snd_reset' = (resets # {})
          /\ snd_cmd_wr' = writes
          /\ IF writes THEN snd_cmd' \in Command /\ commands' = 1 - commands
                       ELSE UNCHANGED <<snd_cmd, commands>>
          /\ due' = IF writes THEN Tail(rest) ELSE rest
          /\ snd_stall' = IF held THEN snd_stall + 1 ELSE 0

(* The interrupt is taken, and the answer read, a few microseconds later.   *)
Answers ==
    LET w == IF resp_full' /\ resp_wait = 0 THEN RESP ELSE resp_wait
    IN /\ resp_wait' = IF w > 0 THEN w - 1 ELSE 0
       /\ snd_resp_rd' = (w = 1)
       /\ IF snd_resp_rd /\ resp_full THEN replied' = resp_byte /\ replies' = 1 - replies
                                       ELSE UNCHANGED <<replied, replies>>

Driven ==
    /\ Board /\ Replay /\ Answers
    /\ UNCHANGED <<bus, gap, driver>>

Machine == Next /\ UNCHANGED <<driver, replay>>

RInit == Init /\ driver \in {"68k", "bench"} /\ due = <<>> /\ resp_wait = 0
RNext == (driver = "68k" /\ Machine) \/ (driver = "bench" /\ Driven)

RSpec == RInit /\ [][RNext]_rvars
(* The clock never stops, and step tokens keep coming for a waiting access. *)
RFairSpec == RSpec /\ WF_rvars(RNext) /\ WF_rvars(RNext /\ bus # "none" /\ bus' # bus)

-----------------------------------------------------------------------------
(* A dead sound board can wedge neither the 68k nor the replay.             *)
NeverWedged == (bus = "write" ~> bus = "none") /\ (snd_stall # 0 ~> snd_stall = 0)
=============================================================================
