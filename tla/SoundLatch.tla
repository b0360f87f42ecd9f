----------------------------- MODULE SoundLatch -----------------------------
(***************************************************************************)
(* The latches between the 68010 and the 6502 of the sound board           *)
(* (rtl/jsa/jsa2.sv) and the 68010's side of them (rtl/stunrun_main.sv).   *)
(* Every step is one clock.  The 6502 (modules/cpu-t65/T65.vhd) moves on    *)
(* its enable and samples NMI_n once per cycle; the game's programs are     *)
(* external: the 68k's may write, read or reset the board at any time, and  *)
(* the sound board's NMI handler reads the command latch once.              *)
(***************************************************************************)
EXTENDS Integers

CONSTANTS Cycle,      \* clocks of a 6502 cycle (53.6)
          GUARD,      \* 6502 cycles a write is held off after the read (8)
          HOLD,       \* 6502 cycles of a board reset (15)
          STALL,      \* clocks after which a held write goes ahead (8192)
          Latency,    \* cycles within which a live 6502 has read a command
          GAP,        \* clocks the 68k's bus rests after an access
          Command,    \* the bytes the 68k sends
          Answer,     \* the bytes the 6502 sends
          Empty       \* no byte

ASSUME SoundAssumption ==
    /\ Cycle \in Nat \ {0} /\ GUARD \in Nat \ {0} /\ HOLD \in Nat \ {0}
    /\ STALL \in Nat \ {0} /\ Latency \in Nat /\ Latency > 3 /\ GAP \in Nat
    /\ Empty \notin Command \cup Answer

(* A live 6502 is done with a command, guard included, before a held write  *)
(* times out: 43 us and 8 cycles (47.5 us) against 85 us.                   *)
ASSUME InTime == (Latency + GUARD + 2) * Cycle < STALL

VARIABLES
  tick,                            \* clocks until the 6502 is enabled
  rst_cnt, rst_pend,               \* the board reset
  cmd_full, cmd_byte, cmd_guard,   \* the command latch
  resp_full, resp_byte,            \* the response latch
  alive,                           \* the 6502: is its program running?
  NMI_n_o, NMIAct, NMI_entered,    \* the T65's edge detector
  owes, age, heard,                \* its handler: about to read, since when, last byte
  bus, gap,                        \* the 68k's access and the rest after the last
  snd_cmd_wr, snd_cmd, snd_resp_rd, snd_reset,   \* its strobes
  snd_stall,                       \* clocks a command write has been held
  replied,                         \* the last byte its program has read
  commands, hearings,              \* history: writes and reads of the command latch,
  answers, replies,                \*   and of the response latch, modulo 2
  sampled,                         \* history: a cycle of the 6502 since the last reset
  deaf                             \* history: a command came before that, see NeverDeaf

reset   == <<rst_cnt, rst_pend>>
latches == <<cmd_full, cmd_byte, cmd_guard, resp_full, resp_byte>>
nmi     == <<NMI_n_o, NMIAct, NMI_entered, sampled>>
handler == <<alive, owes, age, heard, hearings, answers>>
m68k    == <<bus, gap, snd_cmd_wr, snd_cmd, snd_resp_rd, snd_reset, snd_stall,
             replied, replies, commands>>
vars    == <<tick, reset, latches, nmi, handler, m68k, deaf>>

cen_cpu   == tick = 0
board_rst == rst_cnt # 0

cmd_pendingUnguarded == cmd_full                                 \* mutant
cmd_pending == cmd_full \/ cmd_guard # 0

-----------------------------------------------------------------------------
(* The board: reset, and the two latches.                                   *)

BoardReset ==
    IF cen_cpu
    THEN /\ rst_cnt' = IF rst_pend \/ snd_reset THEN HOLD
                       ELSE IF rst_cnt # 0 THEN rst_cnt - 1 ELSE 0
         /\ rst_pend' = FALSE
    ELSE rst_pend' = (rst_pend \/ snd_reset) /\ UNCHANGED rst_cnt

(* rd: the 6502 reads 280a; wr: it writes byte to 2a02.                     *)

CommandLatch(rd) ==
    IF board_rst
    THEN cmd_full' = FALSE /\ cmd_byte' = Empty /\ cmd_guard' = 0
    ELSE /\ cmd_full' = (snd_cmd_wr \/ (cmd_full /\ ~rd))
         /\ cmd_byte' = IF snd_cmd_wr THEN snd_cmd ELSE cmd_byte
         /\ cmd_guard' = IF rd THEN GUARD
                         ELSE IF cen_cpu /\ cmd_guard # 0 THEN cmd_guard - 1 ELSE cmd_guard

(* mutant: the 68k's read wins over a byte written on the same clock *)
ResponseLatchReadWins(wr, byte) ==
    IF board_rst
    THEN resp_full' = FALSE /\ resp_byte' = Empty
    ELSE /\ resp_full' = ((wr \/ resp_full) /\ ~snd_resp_rd)
         /\ resp_byte' = IF wr THEN byte ELSE resp_byte

ResponseLatch(wr, byte) ==
    IF board_rst
    THEN resp_full' = FALSE /\ resp_byte' = Empty
    ELSE /\ resp_full' = (wr \/ (resp_full /\ ~snd_resp_rd))
         /\ resp_byte' = IF wr THEN byte ELSE resp_byte

-----------------------------------------------------------------------------
(* The 6502.  An edge is seen when NMI_n was high on one enable and is low  *)
(* on the next; entering the handler clears it one enable later.            *)

Sampled ==
    /\ sampled' = TRUE /\ NMI_n_o' = ~cmd_full
    /\ NMIAct' = ((NMIAct \/ (NMI_n_o /\ cmd_full)) /\ ~NMI_entered)

(* A live 6502 that is about to read does so within its Latency.            *)
Late == \/ owes /\ age + 1 >= Latency
        \/ NMIAct /\ ~NMI_entered /\ age + 2 >= Latency

Aged == age' = IF ~cmd_full THEN 0 ELSE IF age < Latency THEN age + 1 ELSE age

Quiet == CommandLatch(FALSE) /\ ResponseLatch(FALSE, Empty)

Run == /\ ~Late /\ Sampled /\ NMI_entered' = FALSE /\ Aged /\ Quiet
       /\ UNCHANGED <<alive, owes, heard, hearings, answers>>

Enter == /\ NMIAct /\ ~NMI_entered /\ ~owes
         /\ Sampled /\ NMI_entered' = TRUE /\ owes' = TRUE /\ Aged /\ Quiet
         /\ UNCHANGED <<alive, heard, hearings, answers>>

ReadCommand == /\ owes
               /\ Sampled /\ NMI_entered' = FALSE /\ owes' = FALSE /\ age' = 0
               /\ heard' = cmd_byte /\ hearings' = 1 - hearings
               /\ CommandLatch(TRUE) /\ ResponseLatch(FALSE, Empty)
               /\ UNCHANGED <<alive, answers>>

Reply == /\ ~Late /\ Sampled /\ NMI_entered' = FALSE /\ Aged
         /\ answers' = 1 - answers
         /\ CommandLatch(FALSE) /\ \E byte \in Answer : ResponseLatch(TRUE, byte)
         /\ UNCHANGED <<alive, owes, heard, hearings>>

(* The sound program may hang; only a reset helps then.  The core goes on.  *)
Hang == /\ Sampled /\ NMI_entered' = FALSE /\ alive' = FALSE /\ age' = 0 /\ owes' = FALSE
        /\ Quiet /\ UNCHANGED <<heard, hearings, answers>>

Hung == ~board_rst /\ cen_cpu /\ ~alive
        /\ Sampled /\ NMI_entered' = FALSE /\ Quiet /\ UNCHANGED handler

(* Res_n clears the pending interrupt at once, but not the sampled NMI_n.   *)
InReset == /\ board_rst
           /\ NMIAct' = FALSE /\ sampled' = FALSE /\ UNCHANGED <<NMI_n_o, NMI_entered>>
           /\ owes' = FALSE /\ age' = 0
           /\ alive' = (rst_cnt' = 0 \/ alive)
           /\ Quiet /\ UNCHANGED <<heard, hearings, answers>>

Idle == ~board_rst /\ ~cen_cpu /\ Quiet /\ UNCHANGED <<nmi, handler>>

Enabled == ~board_rst /\ cen_cpu /\ alive

(* A command that reaches the latch after a reset and before the 6502's     *)
(* first cycle, while NMI_n is still held as sampled low before the reset.  *)
Deafens == snd_cmd_wr /\ ~sampled /\ ~cen_cpu /\ ~NMI_n_o

Board == /\ tick' = IF tick = 0 THEN Cycle - 1 ELSE tick - 1
         /\ BoardReset
         /\ deaf' = (~board_rst /\ (deaf \/ Deafens))
         /\ \/ InReset
            \/ Idle
            \/ Hung
            \/ Enabled /\ (Run \/ Enter \/ ReadCommand \/ Reply \/ Hang)
-----------------------------------------------------------------------------
(* The 68k.  Its bus sequencer samples an access when the step tokens allow *)
(* it; a command write also waits for snd_block.                            *)

snd_blockNever == FALSE                                          \* mutant
snd_block == bus = "write" /\ cmd_pending /\ snd_stall < STALL

(* mutant: the timer of a held write never runs *)
StallTimerStuck == snd_stall' = 0
StallTimer == snd_stall' = IF bus # "write" THEN 0
                           ELSE IF snd_block THEN snd_stall + 1 ELSE snd_stall

NoStrobes == snd_cmd_wr' = FALSE /\ snd_resp_rd' = FALSE /\ snd_reset' = FALSE
Rests == gap' = IF gap > 0 THEN gap - 1 ELSE 0

Compute == /\ bus = "none" /\ NoStrobes /\ Rests
           /\ UNCHANGED <<snd_cmd, replied, replies, commands>>
           /\ bus' \in {"none"} \cup (IF gap > 0 THEN {} ELSE {"reset", "write", "read"})

HeldOff == /\ bus = "write" /\ snd_block /\ NoStrobes
           /\ UNCHANGED <<bus, gap, snd_cmd, replied, replies, commands>>

Unpaced == /\ bus \in {"write", "read", "reset"} /\ ~snd_block /\ NoStrobes
           /\ UNCHANGED <<bus, gap, snd_cmd, replied, replies, commands>>

WriteCommand == /\ bus = "write" /\ ~snd_block
                /\ snd_cmd_wr' = TRUE /\ snd_cmd' \in Command /\ commands' = 1 - commands
                /\ bus' = "none" /\ gap' = GAP
                /\ snd_resp_rd' = FALSE /\ snd_reset' = FALSE /\ UNCHANGED <<replied, replies>>

StartRead == /\ bus = "read" /\ bus' = "B_RAM_RD"
             /\ snd_resp_rd' = TRUE /\ snd_cmd_wr' = FALSE /\ snd_reset' = FALSE
             /\ UNCHANGED <<gap, snd_cmd, replied, replies, commands>>

(* data_in is sampled on the clock on which snd_resp_rd empties the latch.  *)
(* The program may read an empty latch, as it does to drain it.             *)
FinishRead ==
    /\ bus = "B_RAM_RD" /\ bus' = "none" /\ gap' = GAP /\ NoStrobes
    /\ replied' = IF resp_full THEN resp_byte ELSE replied
    /\ replies' = IF resp_full THEN 1 - replies ELSE replies
    /\ UNCHANGED <<snd_cmd, commands>>

ResetBoard == /\ bus = "reset"
              /\ snd_reset' = TRUE /\ snd_cmd_wr' = FALSE /\ snd_resp_rd' = FALSE
              /\ bus' = "none" /\ gap' = GAP
              /\ UNCHANGED <<snd_cmd, replied, replies, commands>>

Next == /\ Board /\ StallTimer
        /\ \/ Compute \/ HeldOff \/ Unpaced \/ WriteCommand
           \/ StartRead \/ FinishRead \/ ResetBoard

(* After the core reset, which holds the board in reset as well.            *)
Init ==
    /\ tick = Cycle - 1 /\ rst_cnt = HOLD /\ rst_pend = FALSE
    /\ cmd_full = FALSE /\ cmd_byte = Empty /\ cmd_guard = 0
    /\ resp_full = FALSE /\ resp_byte = Empty
    /\ alive = TRUE /\ sampled = FALSE /\ deaf = FALSE
    /\ NMI_n_o \in BOOLEAN /\ NMIAct = FALSE /\ NMI_entered = FALSE
    /\ owes = FALSE /\ age = 0 /\ heard = Empty
    /\ bus = "none" /\ gap = 0 /\ snd_cmd_wr = FALSE /\ snd_cmd = Empty
    /\ snd_resp_rd = FALSE /\ snd_reset = FALSE /\ snd_stall = 0
    /\ replied = Empty /\ commands = 0 /\ hearings = 0 /\ answers = 0 /\ replies = 0

Spec == Init /\ [][Next]_vars

-----------------------------------------------------------------------------
(* A command in the latch of a running 6502 is one it will notice: its      *)
(* falling edge is still to be sampled, or was, or the handler is on its    *)
(* way.  Otherwise "the latch then stays full for good and every later      *)
(* command is ignored".  The guard keeps the write away from the read, but  *)
(* not from a reset: where a reset has cut off a cycle with NMI_n low, a    *)
(* command that is written when it is over, and before the 6502's first     *)
(* cycle, makes no edge.                                                    *)
NeverDeaf == alive /\ ~board_rst /\ cmd_full =>
                 NMI_n_o \/ (NMIAct /\ ~NMI_entered) \/ owes \/ deaf

Commands == INSTANCE Mailbox WITH
    Byte <- Command, puts <- commands, taken <- heard, takes <- hearings,
    listening <- alive /\ ~deaf, resetting <- board_rst,
    box <- IF snd_cmd_wr THEN snd_cmd ELSE IF cmd_full THEN cmd_byte ELSE Empty

(* No command is overwritten before a running 6502 has read it, but by a    *)
(* reset of the board, and none is read twice, although the latch has no    *)
(* handshake of its own.                                                    *)
EveryCommandHeard == Commands!Spec

Responses == INSTANCE Mailbox WITH
    Byte <- Answer, puts <- answers, taken <- replied, takes <- replies,
    listening <- FALSE, resetting <- board_rst,
    box <- IF resp_full THEN resp_byte ELSE Empty

(* A byte the 6502 writes on the very clock the 68k empties the latch is    *)
(* not lost: the 68k gets the old one and the interrupt stays.              *)
NoAnswerLost == Responses!Spec

(* A command is taken by a 6502 that keeps running, unless it is deaf.      *)
CommandsTaken == cmd_full ~> ~cmd_full \/ ~alive \/ deaf
=============================================================================
