-------------------------- MODULE SoundLatchProofs --------------------------
(***************************************************************************)
(* Theorems about SoundLatch, for every length of a 6502 cycle, guard,     *)
(* hold, timeout and latency within the assumptions of the module: of the  *)
(* two timing assumptions InTime is what the proofs of NeverDeaf and       *)
(* EveryCommandHeard rest on.                                              *)
(***************************************************************************)
EXTENDS SoundLatch, TLAPS

SoundTypeOK ==
    /\ tick \in 0 .. Cycle - 1 /\ rst_cnt \in 0 .. HOLD /\ rst_pend \in BOOLEAN
    /\ cmd_full \in BOOLEAN /\ cmd_guard \in 0 .. GUARD /\ resp_full \in BOOLEAN
    /\ alive \in BOOLEAN /\ sampled \in BOOLEAN /\ deaf \in BOOLEAN
    /\ NMI_n_o \in BOOLEAN /\ NMIAct \in BOOLEAN /\ NMI_entered \in BOOLEAN
    /\ owes \in BOOLEAN /\ age \in 0 .. Latency
    /\ bus \in {"none", "write", "read", "B_RAM_RD", "reset"} /\ snd_stall \in Nat
    /\ snd_cmd_wr \in BOOLEAN /\ snd_resp_rd \in BOOLEAN /\ snd_reset \in BOOLEAN

(* Bytes in the latches are bytes that were sent.                           *)
BytesOK ==
    /\ snd_cmd_wr => snd_cmd \in Command
    /\ cmd_full => cmd_byte \in Command
    /\ resp_full => resp_byte \in Answer

(* The 68k's accesses and their strobes.                                    *)
InOrder ==
    /\ bus = "write" => ~snd_cmd_wr
    /\ bus = "B_RAM_RD" <=> snd_resp_rd

(* The interrupt of a command: pending only while it is in the latch, and   *)
(* given up by the edge detector only to a handler that will read.  What a  *)
(* reset leaves of a handler's entry is gone with the first cycle.          *)
OneInterrupt ==
    /\ NMIAct /\ ~NMI_entered => cmd_full /\ ~owes
    /\ owes => cmd_full /\ ~NMI_n_o
    /\ sampled /\ alive /\ ~board_rst /\ NMI_entered => owes
    /\ NMI_entered => ~NMI_n_o
    /\ ~sampled => ~NMIAct /\ ~owes

(* A deaf board has a command in its latch and no interrupt to come.        *)
NoEdge == deaf => cmd_full /\ ~NMI_n_o /\ ~NMIAct /\ ~owes

(* NMI_n is sampled high before the guard lets the next command in.         *)
SampledHigh ==
    sampled /\ ~board_rst /\ ~cmd_full /\ cmd_guard < GUARD => NMI_n_o

(* A command is only written into an empty latch, and one that a running    *)
(* 6502 has seen empty if it has seen it at all.                            *)
WrittenHeard ==
    snd_cmd_wr /\ alive /\ ~deaf /\ ~board_rst => ~cmd_full /\ (NMI_n_o \/ ~sampled)

(* Timing: a running 6502 reads within its latency ...                      *)
InLatency ==
    /\ ~cmd_full => age = 0
    /\ NMI_n_o => age = 0
    /\ alive /\ ~board_rst /\ NMIAct /\ ~NMI_entered => age + 2 <= Latency
    /\ alive /\ ~board_rst /\ owes => age + 1 <= Latency

(* ... and a held write has not waited longer than the command was in the   *)
(* latch, or than the slowest read and the guard so far.                    *)
SinceEnable == Cycle - 1 - tick
StallBounded ==
    alive /\ ~deaf /\ bus = "write" =>
        /\ cmd_full => snd_stall <= age * Cycle + SinceEnable
        /\ ~cmd_full /\ cmd_guard # 0 =>
              snd_stall <= (Latency + GUARD - cmd_guard) * Cycle + SinceEnable

LatchInv ==
    /\ SoundTypeOK /\ BytesOK /\ InOrder
    /\ OneInterrupt /\ NoEdge /\ NeverDeaf /\ SampledHigh /\ WrittenHeard /\ InLatency /\ StallBounded

-----------------------------------------------------------------------------
(* A clock is one of the board and one of the 68k.                          *)
Cycle6502 == Run \/ Enter \/ ReadCommand \/ Reply \/ Hang
Bus68k == Compute \/ HeldOff \/ Unpaced \/ WriteCommand \/ StartRead \/ FinishRead \/ ResetBoard

LEMMA NextParts ==
  ASSUME Next
  PROVE  Board /\ StallTimer /\ Bus68k
BY DEF Next, Bus68k

LEMMA BoardParts ==
  ASSUME Board
  PROVE  /\ BoardReset /\ tick' = (IF tick = 0 THEN Cycle - 1 ELSE tick - 1)
         /\ deaf' = (~board_rst /\ (deaf \/ Deafens))
         /\ board_rst => InReset
         /\ ~board_rst => Idle \/ Hung \/ (Enabled /\ Cycle6502)
BY DEF Board, InReset, Idle, Hung, Enabled, Cycle6502

(* What a hung 6502 does.                                                   *)
LEMMA HungStep ==
  ASSUME Hung
  PROVE  /\ ~alive /\ ~alive' /\ ~Enabled /\ Quiet /\ UNCHANGED handler
         /\ NMI_n_o' <=> ~cmd_full
         /\ NMIAct' <=> (NMIAct \/ (NMI_n_o /\ cmd_full)) /\ ~NMI_entered
         /\ ~NMI_entered' /\ sampled'
BY DEF Hung, Sampled, handler, Enabled

(* The board only turns deaf by a command that comes before the 6502's      *)
(* first cycle, and not again before the next reset.                        *)
LEMMA DeafStep ==
  ASSUME SoundTypeOK, Board
  PROVE  /\ deaf' \in BOOLEAN
         /\ deaf' <=> ~board_rst /\ (deaf \/ Deafens)
<1>1. deaf' = (~board_rst /\ (deaf \/ Deafens))
  BY BoardParts
<1> QED
  BY <1>1, Zenon

LEMMA LatencyLong == Latency \in Nat /\ 0 + 2 <= Latency /\ 1 + 2 <= Latency
BY SoundAssumption

(* Products of a cycle.                                                     *)
LEMMA TimesMonotone ==
  ASSUME NEW a \in Nat, NEW b \in Nat, a <= b
  PROVE  a * Cycle <= b * Cycle
<1>1. b * Cycle = a * Cycle + (b - a) * Cycle /\ (b - a) * Cycle \in Nat
  BY SoundAssumption
<1> QED
  BY <1>1, SoundAssumption

LEMMA TimesNext ==
  ASSUME NEW a \in Nat
  PROVE  /\ (a + 1) * Cycle = a * Cycle + Cycle
         /\ a * Cycle \in Nat
BY SoundAssumption

(* The clock and the board's reset.                                         *)
LEMMA ResetStep ==
  ASSUME SoundTypeOK, Board
  PROVE  /\ tick' \in 0 .. Cycle - 1 /\ rst_cnt' \in 0 .. HOLD /\ rst_pend' \in BOOLEAN
         /\ ~rst_pend /\ ~snd_reset /\ ~board_rst => ~rst_pend' /\ ~board_rst'
<1> USE SoundAssumption DEF SoundTypeOK
<1>1. tick' \in 0 .. Cycle - 1
  BY BoardParts
<1>2. BoardReset
  BY BoardParts
<1>3. rst_cnt' \in 0 .. HOLD
  BY <1>2 DEF BoardReset
<1>4. rst_pend' \in BOOLEAN
  BY <1>2 DEF BoardReset
<1>5. ASSUME ~rst_pend, ~snd_reset, ~board_rst PROVE ~rst_pend' /\ ~board_rst'
  BY <1>2, <1>5 DEF BoardReset, board_rst
<1> QED
  BY <1>1, <1>3, <1>4, <1>5

(* The command latch: a reset clears it, a write fills it, and only the     *)
(* handler's read empties it.                                               *)
LEMMA CommandStep ==
  ASSUME SoundTypeOK, Board
  PROVE  /\ cmd_full' \in BOOLEAN /\ cmd_guard' \in 0 .. GUARD
         /\ board_rst => ~cmd_full'
         /\ ~board_rst /\ ~(Enabled /\ ReadCommand) =>
               /\ cmd_full' <=> snd_cmd_wr \/ cmd_full
               /\ cmd_guard' = IF cen_cpu /\ cmd_guard # 0 THEN cmd_guard - 1 ELSE cmd_guard
         /\ ~board_rst /\ Enabled /\ ReadCommand =>
               (cmd_full' <=> snd_cmd_wr) /\ cmd_guard' = GUARD
         /\ ~board_rst => cmd_byte' = IF snd_cmd_wr THEN snd_cmd ELSE cmd_byte
<1> USE SoundAssumption DEF SoundTypeOK
<1>1. CASE board_rst
  <2>1. CommandLatch(FALSE)
    BY <1>1, BoardParts DEF InReset, Quiet
  <2>2. cmd_full' = FALSE /\ cmd_guard' = 0
    BY <1>1, <2>1 DEF CommandLatch
  <2>3. 0 \in 0 .. GUARD
    OBVIOUS
  <2>4. cmd_full' \in BOOLEAN /\ ~cmd_full'
    BY <2>2, Zenon
  <2>5. cmd_guard' \in 0 .. GUARD
    BY <2>2, <2>3
  <2> QED
    BY <1>1, <2>4, <2>5
<1>2. CASE ~board_rst /\ Enabled /\ ReadCommand
  <2>1. CommandLatch(TRUE)
    BY <1>2 DEF ReadCommand
  <2> QED
    BY <1>2, <2>1 DEF CommandLatch
<1>3. CASE ~board_rst /\ ~(Enabled /\ ReadCommand)
  <2>1. CommandLatch(FALSE)
    BY <1>3, BoardParts, HungStep DEF Idle, Cycle6502, Run, Enter, Reply, Hang, Quiet
  <2> QED
    BY <1>3, <2>1 DEF CommandLatch
<1> QED
  BY <1>1, <1>2, <1>3

(* The response latch.                                                      *)
LEMMA ResponseStep ==
  ASSUME SoundTypeOK, Board
  PROVE  /\ resp_full' \in BOOLEAN
         /\ board_rst => ~resp_full'
         /\ ~board_rst /\ Enabled /\ Reply =>
               resp_full' /\ resp_byte' \in Answer /\ answers' = 1 - answers
         /\ ~board_rst /\ ~(Enabled /\ Reply) =>
               /\ resp_full' <=> resp_full /\ ~snd_resp_rd
               /\ resp_byte' = resp_byte
         /\ ~(Enabled /\ Reply) => answers' = answers
<1>1. CASE board_rst
  <2>1. ResponseLatch(FALSE, Empty) /\ answers' = answers /\ ~Enabled
    BY <1>1, BoardParts DEF InReset, Quiet, Enabled
  <2> QED
    BY <1>1, <2>1 DEF ResponseLatch
<1>2. CASE ~board_rst /\ Enabled /\ Reply
  <2>1. PICK byte \in Answer : ResponseLatch(TRUE, byte)
    BY <1>2 DEF Reply
  <2>2. answers' = 1 - answers
    BY <1>2 DEF Reply
  <2> QED
    BY <1>2, <2>1, <2>2 DEF ResponseLatch
<1>3. CASE ~board_rst /\ ~(Enabled /\ Reply)
  <2>1. ResponseLatch(FALSE, Empty) /\ answers' = answers
    BY <1>3, BoardParts, HungStep DEF Idle, Cycle6502, Run, Enter, ReadCommand, Hang, Quiet, handler
  <2> QED
    BY <1>3, <2>1 DEF ResponseLatch
<1> QED
  BY <1>1, <1>2, <1>3

(* The 6502's own state.                                                    *)
LEMMA HandlerTypes ==
  ASSUME SoundTypeOK, Board
  PROVE  /\ alive' \in BOOLEAN /\ sampled' \in BOOLEAN /\ NMI_n_o' \in BOOLEAN
         /\ NMIAct' \in BOOLEAN /\ NMI_entered' \in BOOLEAN
         /\ owes' \in BOOLEAN /\ age' \in 0 .. Latency
<1> DEFINE HandlerFlags == /\ alive \in BOOLEAN /\ sampled \in BOOLEAN /\ owes \in BOOLEAN
                           /\ NMI_n_o \in BOOLEAN /\ NMIAct \in BOOLEAN /\ NMI_entered \in BOOLEAN
<1>1. InReset \/ Idle \/ Hung \/ Cycle6502
  BY BoardParts
<1>2. Sampled => NMI_n_o' \in BOOLEAN /\ NMIAct' \in BOOLEAN /\ sampled' \in BOOLEAN
  BY Zenon DEF Sampled
<1>3. HandlerFlags
  BY DEF SoundTypeOK
<1>4. HandlerFlags'
  <2>1. CASE InReset
    BY <1>3, <2>1, Zenon DEF InReset
  <2>2. CASE Idle
    BY <1>3, <2>2, Zenon DEF Idle, nmi, handler
  <2>3. CASE Cycle6502
    BY <1>2, <1>3, <2>3, Zenon DEF Cycle6502, Run, Enter, ReadCommand, Reply, Hang
  <2>4. CASE Hung
    BY <1>2, <1>3, <2>4, Zenon DEF Hung, handler
  <2> QED
    BY <1>1, <2>1, <2>2, <2>3, <2>4
<1>5. age' \in 0 .. Latency
  <2>1. Aged => age' \in 0 .. Latency
    BY SoundAssumption DEF Aged, SoundTypeOK
  <2>2. 0 \in 0 .. Latency /\ age \in 0 .. Latency
    BY SoundAssumption DEF SoundTypeOK
  <2>3. (age' = 0 \/ age' = age \/ Aged)
    BY <1>1 DEF InReset, Idle, Hung, handler, Cycle6502, Run, Enter, ReadCommand, Reply, Hang
  <2> QED
    BY <2>1, <2>2, <2>3
<1> QED
  BY <1>4, <1>5

(* The 68k's own state.                                                     *)
LEMMA BusTypes ==
  ASSUME SoundTypeOK, Bus68k, StallTimer
  PROVE  /\ bus' \in {"none", "write", "read", "B_RAM_RD", "reset"} /\ snd_stall' \in Nat
         /\ snd_cmd_wr' \in BOOLEAN /\ snd_resp_rd' \in BOOLEAN /\ snd_reset' \in BOOLEAN
<1> USE DEF SoundTypeOK
<1>1. snd_stall' \in Nat
  BY DEF StallTimer
<1>2. CASE Compute
  BY <1>1, <1>2 DEF Compute, NoStrobes
<1>3. CASE HeldOff \/ Unpaced
  BY <1>1, <1>3 DEF HeldOff, Unpaced, NoStrobes
<1>4. CASE WriteCommand
  BY <1>1, <1>4 DEF WriteCommand
<1>5. CASE StartRead
  BY <1>1, <1>5 DEF StartRead
<1>6. CASE FinishRead
  BY <1>1, <1>6 DEF FinishRead, NoStrobes
<1>7. CASE ResetBoard
  BY <1>1, <1>7 DEF ResetBoard
<1> QED
  BY <1>2, <1>3, <1>4, <1>5, <1>6, <1>7 DEF Bus68k

LEMMA TypesStep ==
  ASSUME SoundTypeOK, Next
  PROVE  SoundTypeOK'
<1>1. Board /\ StallTimer /\ Bus68k
  BY NextParts
<1> QED
  BY <1>1, ResetStep, CommandStep, ResponseStep, HandlerTypes, BusTypes, DeafStep DEF SoundTypeOK

-----------------------------------------------------------------------------
(* What each access of the 68k does to the bus and the strobes.             *)
LEMMA BusStep ==
  ASSUME Bus68k
  PROVE  /\ snd_cmd_wr' => WriteCommand
         /\ bus' = "write" => ~snd_cmd_wr'
         /\ bus' = "B_RAM_RD" <=> snd_resp_rd'
         /\ WriteCommand => bus = "write"
<1>1. CASE Compute
  BY <1>1 DEF Compute, NoStrobes, WriteCommand
<1>2. CASE HeldOff
  BY <1>2 DEF HeldOff, NoStrobes, WriteCommand
<1>3. CASE Unpaced
  BY <1>3 DEF Unpaced, NoStrobes, WriteCommand
<1>4. CASE WriteCommand
  BY <1>4 DEF WriteCommand
<1>5. CASE StartRead
  BY <1>5 DEF StartRead, WriteCommand
<1>6. CASE FinishRead
  BY <1>6 DEF FinishRead, NoStrobes, WriteCommand
<1>7. CASE ResetBoard
  BY <1>7 DEF ResetBoard, WriteCommand
<1> QED
  BY <1>1, <1>2, <1>3, <1>4, <1>5, <1>6, <1>7 DEF Bus68k

LEMMA OrderStep ==
  ASSUME Next
  PROVE  InOrder'
BY NextParts, BusStep DEF InOrder

LEMMA BytesStep ==
  ASSUME SoundTypeOK, BytesOK, Next
  PROVE  BytesOK'
<1> USE DEF BytesOK
<1>1. Board /\ Bus68k
  BY NextParts
<1>2. snd_cmd_wr' => snd_cmd' \in Command
  BY <1>1, BusStep DEF WriteCommand
<1>3. cmd_full' => cmd_byte' \in Command
  BY <1>1, CommandStep
<1>4. resp_full' => resp_byte' \in Answer
  BY <1>1, ResponseStep
<1> QED
  BY <1>2, <1>3, <1>4

-----------------------------------------------------------------------------
(* What a cycle of the 6502 does to the edge detector and the handler.      *)
LEMMA CycleStep ==
  ASSUME Cycle6502
  PROVE  /\ NMI_n_o' <=> ~cmd_full
         /\ NMIAct' <=> (NMIAct \/ (NMI_n_o /\ cmd_full)) /\ ~NMI_entered
         /\ NMI_entered' => Enter
         /\ sampled'
         /\ Enter => NMIAct /\ ~NMI_entered /\ ~owes /\ owes' /\ NMI_entered'
         /\ owes' => owes \/ Enter
         /\ ReadCommand => owes /\ ~owes'
         /\ owes /\ ~owes' /\ alive' => ReadCommand
         /\ alive' => alive
         /\ Hang => ~alive'
<1> USE DEF Sampled
<1>1. CASE Run
  BY <1>1 DEF Run, Enter, ReadCommand, Hang
<1>2. CASE Enter
  BY <1>2 DEF Enter, ReadCommand, Hang
<1>3. CASE ReadCommand
  BY <1>3 DEF Enter, ReadCommand, Hang
<1>4. CASE Reply
  BY <1>4 DEF Reply, Enter, ReadCommand, Hang
<1>5. CASE Hang
  BY <1>5 DEF Enter, ReadCommand, Hang
<1> QED
  BY <1>1, <1>2, <1>3, <1>4, <1>5 DEF Cycle6502

LEMMA InterruptStep ==
  ASSUME SoundTypeOK, OneInterrupt, Next
  PROVE  OneInterrupt'
<1> USE DEF OneInterrupt
<1>1. Board
  BY NextParts
<1>2. CASE board_rst
  <2>1. ~NMIAct' /\ ~owes' /\ ~sampled' /\ NMI_entered' = NMI_entered /\ NMI_n_o' = NMI_n_o
    BY <1>1, <1>2, BoardParts DEF InReset
  <2> QED
    BY <2>1
<1>3. CASE ~board_rst /\ Idle
  <2>1. cmd_full => cmd_full'
    BY <1>1, <1>3, CommandStep DEF Idle, Enabled
  <2>2. UNCHANGED <<nmi, handler>>
    BY <1>3 DEF Idle
  <2> QED
    BY <1>3, <2>1, <2>2 DEF nmi, handler
<1>4. CASE ~board_rst /\ Hung
  <2>1. cmd_full => cmd_full'
    BY <1>1, <1>4, HungStep, CommandStep
  <2>2. owes' = owes
    BY <1>4, HungStep DEF handler
  <2> QED
    BY <1>4, <2>1, <2>2, HungStep
<1>5. CASE ~board_rst /\ Enabled /\ Cycle6502
  <2>1. cmd_full /\ ~ReadCommand => cmd_full'
    BY <1>1, <1>5, CommandStep
  <2>2. NMIAct' /\ ~NMI_entered' => cmd_full' /\ ~owes'
    BY <1>5, <2>1, CycleStep
  <2>3. owes' => cmd_full' /\ ~NMI_n_o'
    BY <1>5, <2>1, CycleStep
  <2>4. (NMI_entered' => owes' /\ ~NMI_n_o') /\ sampled'
    BY <1>5, CycleStep
  <2> QED
    BY <2>2, <2>3, <2>4
<1> QED
  BY <1>1, <1>2, <1>3, <1>4, <1>5, BoardParts

LEMMA NoEdgeStep ==
  ASSUME SoundTypeOK, OneInterrupt, NoEdge, Next
  PROVE  NoEdge'
<1> SUFFICES ASSUME deaf' PROVE cmd_full' /\ ~NMI_n_o' /\ ~NMIAct' /\ ~owes'
  BY DEF NoEdge
<1>1. Board /\ ~board_rst /\ (deaf \/ Deafens)
  BY NextParts, DeafStep
<1>2. CASE Idle
  <2>1. /\ cmd_full' <=> snd_cmd_wr \/ cmd_full
        /\ UNCHANGED <<nmi, handler>>
    BY <1>1, <1>2, CommandStep DEF Idle, Enabled
  <2> QED
    BY <1>1, <2>1 DEF Deafens, NoEdge, OneInterrupt, nmi, handler
<1>3. CASE ~Idle
  <2>1. deaf
    BY <1>1, <1>3, BoardParts, HungStep DEF Deafens, Enabled, Hung
  <2>2. cmd_full /\ ~NMI_n_o /\ ~NMIAct /\ ~owes
    BY <2>1 DEF NoEdge
  <2>3. CASE Hung
    <3>1. cmd_full' /\ owes' = owes
      BY <1>1, <2>2, <2>3, CommandStep, HungStep DEF handler
    <3> QED
      BY <2>2, <2>3, <3>1, HungStep
  <2>4. CASE Enabled /\ Cycle6502
    <3>1. ~ReadCommand /\ ~Enter
      BY <2>2, <2>4, CycleStep
    <3>2. cmd_full'
      BY <1>1, <2>2, <3>1, CommandStep
    <3> QED
      BY <2>2, <2>4, <3>1, <3>2, CycleStep
  <2> QED
    BY <1>1, <1>3, <2>3, <2>4, BoardParts
<1> QED
  BY <1>2, <1>3

(* A board that is still listening on the next clock.                       *)
LEMMA Running ==
  ASSUME SoundTypeOK, Next, alive', ~deaf', ~board_rst
  PROVE  /\ alive /\ ~deaf /\ ~Deafens
         /\ Idle \/ (Enabled /\ Cycle6502)
<1>1. Board
  BY NextParts
<1>2. Idle \/ (Enabled /\ Cycle6502)
  BY <1>1, BoardParts, HungStep
<1>3. alive
  BY <1>2, CycleStep DEF Idle, handler
<1> QED
  BY <1>1, <1>2, <1>3, DeafStep

LEMMA NeverDeafStep ==
  ASSUME SoundTypeOK, OneInterrupt, WrittenHeard, NeverDeaf, Next
  PROVE  NeverDeaf'
<1> SUFFICES ASSUME alive', ~board_rst', cmd_full', ~deaf'
             PROVE  NMI_n_o' \/ (NMIAct' /\ ~NMI_entered') \/ owes'
  BY DEF NeverDeaf
<1>1. Board
  BY NextParts
<1>2. ~board_rst
  BY <1>1, CommandStep
<1>3. alive /\ ~deaf /\ ~Deafens /\ (Idle \/ (Enabled /\ Cycle6502))
  BY <1>2, Running
<1>4. CASE Idle
  <2>1. UNCHANGED <<nmi, handler>> /\ ~cen_cpu
    BY <1>4 DEF Idle
  <2>2. cmd_full \/ snd_cmd_wr
    BY <1>1, <1>2, <1>4, CommandStep DEF Idle, Enabled
  <2>3. CASE cmd_full
    BY <1>2, <1>3, <2>1, <2>3 DEF nmi, handler, NeverDeaf
  <2>4. CASE ~cmd_full
    <3>1. NMI_n_o
      BY <1>2, <1>3, <2>1, <2>2, <2>4 DEF WrittenHeard, Deafens
    <3> QED
      BY <2>1, <3>1 DEF nmi
  <2> QED
    BY <2>3, <2>4
<1>5. CASE Enabled /\ Cycle6502
  <2>1. CASE ~cmd_full
    BY <1>5, <2>1, CycleStep
  <2>2. CASE cmd_full
    <3>1. ~snd_cmd_wr
      BY <1>2, <1>3, <2>2 DEF WrittenHeard
    <3>2. ~ReadCommand
      BY <1>1, <1>2, <1>5, <3>1, CommandStep
    <3>3. CASE owes
      BY <1>5, <3>2, <3>3, CycleStep
    <3>4. CASE ~owes
      <4>1. NMI_n_o \/ (NMIAct /\ ~NMI_entered)
        BY <1>2, <1>3, <2>2, <3>4 DEF NeverDeaf
      <4>2. ~NMI_entered
        BY <4>1 DEF OneInterrupt
      <4>3. NMIAct'
        BY <1>5, <2>2, <4>1, <4>2, CycleStep
      <4> QED
        BY <1>5, <4>3, CycleStep
    <3> QED
      BY <3>3, <3>4
  <2> QED
    BY <2>1, <2>2
<1> QED
  BY <1>3, <1>4, <1>5

LEMMA SampledStep ==
  ASSUME SoundTypeOK, SampledHigh, Next
  PROVE  SampledHigh'
<1> SUFFICES ASSUME sampled', ~board_rst', ~cmd_full', cmd_guard' < GUARD
             PROVE  NMI_n_o'
  BY DEF SampledHigh
<1>1. Board
  BY NextParts
<1>2. ~board_rst
  BY <1>1, BoardParts DEF InReset
<1>3. ~(Enabled /\ ReadCommand)
  BY <1>1, <1>2, CommandStep, SoundAssumption
<1>4. ~cmd_full
  BY <1>1, <1>2, <1>3, CommandStep
<1>5. CASE Idle
  <2>1. sampled /\ NMI_n_o' = NMI_n_o
    BY <1>5 DEF Idle, nmi
  <2>2. cmd_guard' = cmd_guard
    BY <1>1, <1>2, <1>3, <1>5, CommandStep DEF Idle
  <2> QED
    BY <1>2, <1>4, <2>1, <2>2 DEF SampledHigh
<1>6. CASE Hung \/ (Enabled /\ Cycle6502)
  BY <1>4, <1>6, CycleStep, HungStep
<1> QED
  BY <1>1, <1>2, <1>5, <1>6, BoardParts

-----------------------------------------------------------------------------
(* Timing.                                                                  *)
LEMMA LatencyStep ==
  ASSUME SoundTypeOK, OneInterrupt, InLatency, Next
  PROVE  InLatency'
<1> USE DEF InLatency
<1>1. Board
  BY NextParts
<1>2. CASE board_rst
  <2>1. age' = 0 /\ ~NMIAct' /\ ~owes'
    BY <1>1, <1>2, BoardParts DEF InReset
  <2> QED
    BY <2>1
<1>3. CASE ~board_rst /\ Idle
  <2>1. UNCHANGED <<nmi, handler>>
    BY <1>3 DEF Idle
  <2>2. cmd_full => cmd_full'
    BY <1>1, <1>3, CommandStep DEF Idle, Enabled
  <2> QED
    BY <1>3, <2>1, <2>2 DEF nmi, handler
<1>4. CASE ~board_rst /\ Enabled /\ Cycle6502
  <2>1. cmd_full /\ ~ReadCommand => cmd_full'
    BY <1>1, <1>4, CommandStep
  <2>2. ~cmd_full \/ ReadCommand \/ Hang => age' = 0
    BY <1>4 DEF Cycle6502, Run, Enter, ReadCommand, Reply, Hang, Aged
  <2>3. age' <= age + 1
    <3>1. age' = 0 \/ Aged
      BY <1>4 DEF Cycle6502, Run, Enter, ReadCommand, Reply, Hang
    <3> QED
      BY <3>1, SoundAssumption DEF SoundTypeOK, Aged
  <2>4. (~cmd_full' => age' = 0) /\ (NMI_n_o' => age' = 0)
    BY <1>4, <2>1, <2>2, CycleStep
  <2>5. ASSUME NMIAct', ~NMI_entered' PROVE age' + 2 <= Latency \/ ~alive'
    <3>1. CASE ~cmd_full \/ ReadCommand \/ Hang
      BY <2>2, <3>1, SoundAssumption
    <3>2. CASE cmd_full /\ NMI_n_o
      <4>1. age = 0 /\ age' \in Nat
        BY <1>1, <3>2, HandlerTypes, LatencyLong
      <4>2. age' = 0 \/ age' = 1
        BY <2>3, <4>1
      <4> QED
        BY <4>2, LatencyLong
    <3>3. CASE cmd_full /\ ~NMI_n_o /\ ~ReadCommand /\ ~Hang
      <4>1. NMIAct /\ ~NMI_entered
        BY <1>4, <2>5, <3>3, CycleStep
      <4>2. ~Enter
        BY <2>5 DEF Enter
      <4>3. ~Late
        BY <1>4, <3>3, <4>2 DEF Cycle6502, Run, Reply
      <4>4. ~(age + 2 >= Latency)
        BY <4>1, <4>3 DEF Late
      <4> QED
        BY <2>3, <4>4, SoundAssumption, HandlerTypes, <1>1 DEF SoundTypeOK
    <3> QED
      BY <3>1, <3>2, <3>3
  <2>6. ASSUME owes' PROVE age' + 1 <= Latency \/ ~alive'
    <3>1. CASE ~cmd_full \/ ReadCommand \/ Hang
      BY <2>2, <3>1, SoundAssumption
    <3>2. CASE Enter
      <4>1. age + 2 <= Latency
        BY <1>4, <3>2, CycleStep DEF Enabled
      <4> QED
        BY <2>3, <4>1, SoundAssumption, HandlerTypes, <1>1 DEF SoundTypeOK
    <3>3. CASE cmd_full /\ ~Enter /\ ~ReadCommand /\ ~Hang
      <4>1. owes
        BY <1>4, <2>6, <3>3, CycleStep
      <4>2. ~Late
        BY <1>4, <3>3 DEF Cycle6502, Run, Reply
      <4>3. ~(age + 1 >= Latency)
        BY <4>1, <4>2 DEF Late
      <4> QED
        BY <2>3, <4>3, SoundAssumption, HandlerTypes, <1>1 DEF SoundTypeOK
    <3> QED
      BY <3>1, <3>2, <3>3
  <2> QED
    BY <2>4, <2>5, <2>6
<1>5. CASE ~board_rst /\ Hung
  <2>1. (cmd_full => cmd_full') /\ age' = age /\ ~alive'
    BY <1>1, <1>5, CommandStep, HungStep DEF handler
  <2> QED
    BY <1>5, <2>1, HungStep
<1> QED
  BY <1>1, <1>2, <1>3, <1>4, <1>5, BoardParts

(* A held write finds the latch free before it times out.                   *)
LEMMA ReadInTime ==
  ASSUME SoundTypeOK, StallBounded, alive, ~deaf, bus = "write", cmd_pending
  PROVE  snd_stall < STALL
<1> USE SoundAssumption DEF SoundTypeOK
<1>2. SinceEnable \in 0 .. Cycle - 1
  BY DEF SinceEnable
<1>3. (Latency + GUARD + 2) * Cycle < STALL
  BY InTime
<1>4. CASE cmd_full
  <2>2. snd_stall <= age * Cycle + SinceEnable
    BY <1>4 DEF StallBounded
  <2>3. age * Cycle <= (Latency + GUARD + 1) * Cycle
    BY TimesMonotone
  <2>4. (Latency + GUARD + 2) * Cycle = (Latency + GUARD + 1) * Cycle + Cycle
    BY TimesNext
  <2>5. age * Cycle \in Nat /\ (Latency + GUARD + 1) * Cycle \in Nat
    OBVIOUS
  <2> QED
    BY <1>2, <1>3, <2>2, <2>3, <2>4, <2>5
<1>5. CASE ~cmd_full /\ cmd_guard # 0
  <2> DEFINE w == Latency + GUARD - cmd_guard
  <2>1. snd_stall <= w * Cycle + SinceEnable
    BY <1>5 DEF StallBounded
  <2>2. w \in Nat /\ w <= Latency + GUARD + 1
    OBVIOUS
  <2> HIDE DEF w
  <2>3. w * Cycle <= (Latency + GUARD + 1) * Cycle
    BY <2>2, TimesMonotone
  <2>4. (Latency + GUARD + 2) * Cycle = (Latency + GUARD + 1) * Cycle + Cycle
    BY TimesNext
  <2>5. w * Cycle \in Nat /\ (Latency + GUARD + 1) * Cycle \in Nat
    BY <2>2
  <2> QED
    BY <1>2, <1>3, <2>1, <2>3, <2>4, <2>5
<1> QED
  BY <1>4, <1>5 DEF cmd_pending

LEMMA WrittenStep ==
  ASSUME SoundTypeOK, InOrder, OneInterrupt, SampledHigh, StallBounded, Next
  PROVE  WrittenHeard'
<1> SUFFICES ASSUME snd_cmd_wr', alive', ~deaf', ~board_rst'
             PROVE  ~cmd_full' /\ (NMI_n_o' \/ ~sampled')
  BY DEF WrittenHeard
<1>1. Board /\ Bus68k
  BY NextParts
<1>2. bus = "write" /\ ~snd_block /\ ~snd_cmd_wr
  BY <1>1, BusStep DEF WriteCommand, InOrder
<1>3. CASE board_rst
  BY <1>1, <1>3, CommandStep, BoardParts DEF InReset
<1>4. CASE ~board_rst
  <2>1. alive /\ ~deaf /\ (Idle \/ (Enabled /\ Cycle6502))
    BY <1>4, Running
  <2>2. ~cmd_pending
    BY <1>2, <2>1, ReadInTime DEF snd_block
  <2>3. ~cmd_full /\ cmd_guard = 0
    BY <2>2 DEF cmd_pending
  <2>4. ~cmd_full'
    BY <1>1, <1>2, <1>4, <2>3, CommandStep
  <2>5. NMI_n_o \/ ~sampled
    BY <1>4, <2>3, SoundAssumption DEF SampledHigh
  <2>6. NMI_n_o' \/ ~sampled'
    BY <2>1, <2>3, <2>5, CycleStep DEF Idle, nmi
  <2> QED
    BY <2>4, <2>6
<1> QED
  BY <1>3, <1>4

LEMMA SinceEnableStep ==
  ASSUME SoundTypeOK, Board
  PROVE  /\ SinceEnable \in Nat /\ SinceEnable' \in Nat
         /\ tick # 0 => SinceEnable' = SinceEnable + 1
         /\ tick = 0 => SinceEnable' = 0 /\ SinceEnable + 1 = Cycle
BY BoardParts, SoundAssumption DEF SoundTypeOK, SinceEnable

LEMMA StallStep ==
  ASSUME SoundTypeOK, InOrder, OneInterrupt, NeverDeaf, InLatency, StallBounded, Next
  PROVE  StallBounded'
<1> SUFFICES ASSUME alive', ~deaf', bus' = "write"
             PROVE  /\ cmd_full' => snd_stall' <= age' * Cycle + SinceEnable'
                    /\ ~cmd_full' /\ cmd_guard' # 0 =>
                          snd_stall' <= (Latency + GUARD - cmd_guard') * Cycle + SinceEnable'
  BY DEF StallBounded
<1>1. Board /\ Bus68k /\ StallTimer
  BY NextParts
<1>0. CASE board_rst
  <2>1. CommandLatch(FALSE)
    BY <1>0, <1>1, BoardParts DEF InReset, Quiet
  <2> QED
    BY <1>0, <2>1 DEF CommandLatch
<1> SUFFICES ASSUME ~board_rst
             PROVE  /\ cmd_full' => snd_stall' <= age' * Cycle + SinceEnable'
                    /\ ~cmd_full' /\ cmd_guard' # 0 =>
                          snd_stall' <= (Latency + GUARD - cmd_guard') * Cycle + SinceEnable'
  BY <1>0
<1>2. alive /\ ~deaf /\ ~board_rst /\ (Idle \/ (Enabled /\ Cycle6502))
  BY Running
<1>3. /\ age \in Nat /\ age' \in Nat /\ SinceEnable \in Nat /\ SinceEnable' \in Nat
      /\ Latency + GUARD - cmd_guard \in Nat /\ Latency + GUARD - cmd_guard' \in Nat
      /\ snd_stall \in Nat /\ cmd_guard \in 0 .. GUARD /\ cmd_guard' \in 0 .. GUARD
  BY <1>1, SinceEnableStep, HandlerTypes, CommandStep, SoundAssumption DEF SoundTypeOK
<1>4. CASE bus # "write"
  <2>1. snd_stall' = 0
    BY <1>1, <1>4 DEF StallTimer
  <2>2. age' * Cycle \in Nat /\ (Latency + GUARD - cmd_guard') * Cycle \in Nat
    BY <1>3, TimesNext
  <2> QED
    BY <1>3, <2>1, <2>2
<1>5. CASE bus = "write"
  <2>1. snd_stall' <= snd_stall + 1 /\ snd_stall' \in Nat
    BY <1>1, <1>3, <1>5 DEF StallTimer
  <2>2. ~snd_cmd_wr
    BY <1>5 DEF InOrder
  <2>3. CASE tick # 0
    <3>1. Idle /\ ~Enabled
      BY <1>2, <2>3 DEF Enabled, cen_cpu
    <3>2. age' = age /\ (cmd_full' <=> cmd_full) /\ cmd_guard' = cmd_guard
      BY <1>1, <1>2, <2>2, <2>3, <3>1, CommandStep DEF Idle, handler, cen_cpu
    <3>3. SinceEnable' = SinceEnable + 1
      BY <1>1, <2>3, SinceEnableStep
    <3>4. age * Cycle \in Nat /\ (Latency + GUARD - cmd_guard) * Cycle \in Nat
      BY <1>3, TimesNext
    <3>5. CASE cmd_full
      <4>1. snd_stall <= age * Cycle + SinceEnable
        BY <1>2, <1>5, <3>5 DEF StallBounded
      <4> QED
        BY <1>3, <2>1, <3>2, <3>3, <3>4, <3>5, <4>1
    <3>6. CASE ~cmd_full /\ cmd_guard # 0
      <4>1. snd_stall <= (Latency + GUARD - cmd_guard) * Cycle + SinceEnable
        BY <1>2, <1>5, <3>6 DEF StallBounded
      <4> QED
        BY <1>3, <2>1, <3>2, <3>3, <3>4, <3>6, <4>1
    <3> QED
      BY <3>2, <3>5, <3>6
  <2>4. CASE tick = 0
    <3>1. Enabled /\ Cycle6502 /\ cen_cpu
      BY <1>2, <2>4 DEF Idle, Enabled, cen_cpu
    <3>2. SinceEnable' = 0 /\ SinceEnable + 1 = Cycle
      BY <1>1, <2>4, SinceEnableStep
    <3>3. CASE cmd_full
      <4>1. snd_stall <= age * Cycle + SinceEnable
        BY <1>2, <1>5, <3>3 DEF StallBounded
      <4>2. age + 1 <= Latency
        <5>1. NMI_n_o \/ (NMIAct /\ ~NMI_entered) \/ owes
          BY <1>2, <3>3, Zenon DEF NeverDeaf
        <5>2. age = 0 \/ age + 2 <= Latency \/ age + 1 <= Latency
          BY <1>2, <5>1, Zenon DEF InLatency
        <5> QED
          BY <1>3, <5>2, LatencyLong
      <4>3. (age + 1) * Cycle = age * Cycle + Cycle /\ age * Cycle \in Nat
        BY <1>3, TimesNext
      <4>4. snd_stall' <= (age + 1) * Cycle
        BY <1>3, <2>1, <3>2, <4>1, <4>3
      <4>5. CASE ReadCommand
        <5>1. ~cmd_full' /\ cmd_guard' = GUARD
          BY <1>1, <1>2, <2>2, <3>1, <4>5, CommandStep
        <5>2. (age + 1) * Cycle <= Latency * Cycle
          BY <1>3, <4>2, TimesMonotone, SoundAssumption
        <5>3. Latency + GUARD - GUARD = Latency /\ Latency * Cycle \in Nat
          BY SoundAssumption
        <5> QED
          <6>1. (Latency + GUARD - cmd_guard') * Cycle = Latency * Cycle
            <7>1. Latency + GUARD - cmd_guard' = Latency
              BY <5>1, <5>3
            <7> QED
              BY <7>1
          <6>2. (age + 1) * Cycle \in Nat
            BY <1>3, <4>3, SoundAssumption
          <6>3. snd_stall' <= (Latency + GUARD - cmd_guard') * Cycle + SinceEnable'
            BY <2>1, <3>2, <4>4, <5>2, <5>3, <6>1, <6>2
          <6> QED
            BY <5>1, <6>3, Zenon
      <4>6. CASE ~ReadCommand
        <5>1. cmd_full'
          BY <1>1, <1>2, <3>3, <4>6, CommandStep
        <5>2. ~Hang
          BY <3>1, CycleStep
        <5>3. Aged
          BY <3>1, <4>6, <5>2 DEF Cycle6502, Run, Enter, Reply
        <5>4. age' = age + 1
          <6>1. age' = IF age < Latency THEN age + 1 ELSE age
            BY <3>3, <5>3, Zenon DEF Aged
          <6>2. age < Latency
            BY <1>3, <4>2, SoundAssumption
          <6> QED
            BY <6>1, <6>2, Zenon
        <5>5. age' * Cycle = (age + 1) * Cycle /\ (age + 1) * Cycle \in Nat
          BY <1>3, <4>3, <5>4, SoundAssumption
        <5>6. snd_stall' <= age' * Cycle + SinceEnable'
          BY <2>1, <3>2, <4>4, <5>5
        <5> QED
          BY <5>1, <5>6, Zenon
      <4> QED
        BY <4>5, <4>6
    <3>4. CASE ~cmd_full
      <4>1. ~ReadCommand
        BY <3>4 DEF ReadCommand, OneInterrupt
      <4>2. ~cmd_full' /\ cmd_guard' = (IF cmd_guard # 0 THEN cmd_guard - 1 ELSE cmd_guard)
        BY <1>1, <1>2, <2>2, <3>1, <3>4, <4>1, CommandStep
      <4>3. CASE cmd_guard # 0
        <5> DEFINE w == Latency + GUARD - cmd_guard
        <5>1. snd_stall <= w * Cycle + SinceEnable
          BY <1>2, <1>5, <3>4, <4>3 DEF StallBounded
        <5>2. w \in Nat /\ Latency + GUARD - cmd_guard' = w + 1
          BY <1>3, <4>2, <4>3, SoundAssumption
        <5> HIDE DEF w
        <5>3. (w + 1) * Cycle = w * Cycle + Cycle /\ w * Cycle \in Nat
          BY <5>2, TimesNext
        <5>4. snd_stall' <= (w + 1) * Cycle
          BY <1>3, <2>1, <3>2, <5>1, <5>3
        <5> QED
          BY <2>1, <3>2, <4>2, <5>2, <5>3, <5>4, SoundAssumption
      <4> QED
        BY <4>2, <4>3
    <3> QED
      BY <3>3, <3>4
  <2> QED
    BY <2>3, <2>4
<1> QED
  BY <1>4, <1>5

-----------------------------------------------------------------------------
LEMMA LatchInitInv == Init => LatchInv
<1> SUFFICES ASSUME Init PROVE LatchInv
  OBVIOUS
<1> USE SoundAssumption DEF Init
<1>1. SoundTypeOK
  <2>1. /\ tick \in 0 .. Cycle - 1 /\ rst_cnt \in 0 .. HOLD /\ cmd_guard \in 0 .. GUARD
        /\ age \in 0 .. Latency /\ snd_stall \in Nat
        /\ bus \in {"none", "write", "read", "B_RAM_RD", "reset"}
    OBVIOUS
  <2>2. /\ rst_pend \in BOOLEAN /\ cmd_full \in BOOLEAN /\ resp_full \in BOOLEAN
        /\ alive \in BOOLEAN /\ sampled \in BOOLEAN /\ deaf \in BOOLEAN
        /\ NMI_n_o \in BOOLEAN /\ NMIAct \in BOOLEAN /\ NMI_entered \in BOOLEAN
        /\ owes \in BOOLEAN /\ snd_cmd_wr \in BOOLEAN /\ snd_resp_rd \in BOOLEAN
        /\ snd_reset \in BOOLEAN
    BY Zenon
  <2> QED
    BY <2>1, <2>2 DEF SoundTypeOK
<1>2. BytesOK /\ InOrder /\ OneInterrupt /\ NoEdge /\ NeverDeaf
  BY DEF BytesOK, InOrder, OneInterrupt, NoEdge, NeverDeaf
<1>3. SampledHigh /\ WrittenHeard /\ InLatency /\ StallBounded
  BY DEF SampledHigh, WrittenHeard, InLatency, StallBounded
<1> QED
  BY <1>1, <1>2, <1>3 DEF LatchInv

LEMMA LatchNextInv == LatchInv /\ [Next]_vars => LatchInv'
<1> SUFFICES ASSUME LatchInv, [Next]_vars PROVE LatchInv'
  OBVIOUS
<1> USE DEF LatchInv
<1>1. CASE Next
  BY <1>1, TypesStep, BytesStep, OrderStep, InterruptStep, NoEdgeStep, NeverDeafStep, SampledStep,
     WrittenStep, LatencyStep, StallStep
<1>2. CASE UNCHANGED vars
  <2>1. /\ SoundTypeOK' = SoundTypeOK /\ BytesOK' = BytesOK /\ InOrder' = InOrder
        /\ OneInterrupt' = OneInterrupt /\ NoEdge' = NoEdge /\ NeverDeaf' = NeverDeaf
        /\ SampledHigh' = SampledHigh /\ WrittenHeard' = WrittenHeard
        /\ InLatency' = InLatency /\ StallBounded' = StallBounded
    BY <1>2 DEF vars, reset, latches, nmi, handler, m68k, SoundTypeOK, BytesOK, InOrder,
                OneInterrupt, NoEdge, NeverDeaf, SampledHigh, WrittenHeard, InLatency, StallBounded,
                board_rst, SinceEnable
  <2> QED
    BY <2>1
<1> QED
  BY <1>1, <1>2

(* The inductive invariant of the latches.                                  *)
LEMMA LatchInvariant == Spec => []LatchInv
BY LatchInitInv, LatchNextInv, PTL DEF Spec

(* A command the 68k has written into the latch of a running 6502 is one it *)
(* will notice, whatever the phase of its clock, the resets of the board    *)
(* and its own pace (jsa2.sv, cmd_pending and the guard).                   *)
THEOREM SoundNeverDeaf == Spec => []NeverDeaf
<1>1. LatchInv => NeverDeaf
  BY DEF LatchInv
<1> QED
  BY <1>1, LatchInvariant, PTL

-----------------------------------------------------------------------------
(* The mailboxes.                                                           *)
CommandBox == IF snd_cmd_wr THEN snd_cmd ELSE IF cmd_full THEN cmd_byte ELSE Empty

LEMMA CommandMailStep ==
  ASSUME LatchInv, Next
  PROVE  [Commands!Next]_Commands!vars
<1> USE DEF LatchInv
<1> DEFINE P == Commands!Put \/ Commands!Take \/ Commands!Clear \/ Commands!Falter
<1>1. Board /\ Bus68k
  BY NextParts
<1>2. (commands' = 1 - commands /\ snd_cmd' \in Command /\ snd_cmd_wr') \/
      (commands' = commands /\ ~snd_cmd_wr' /\ snd_cmd' = snd_cmd)
  BY <1>1 DEF Bus68k, Compute, HeldOff, Unpaced, WriteCommand, StartRead, FinishRead, ResetBoard,
              NoStrobes
<1>3. IF Enabled /\ ReadCommand THEN heard' = cmd_byte /\ hearings' = 1 - hearings
                                ELSE UNCHANGED <<heard, hearings>>
  <2>1. CASE board_rst
    BY <1>1, <2>1, BoardParts DEF InReset, Enabled
  <2>2. CASE ~board_rst
    BY <1>1, <2>2, BoardParts, HungStep DEF Idle, handler, Enabled, Cycle6502, Run, Enter, ReadCommand,
       Reply, Hang
  <2> QED
    BY <2>1, <2>2
<1>4. Empty \notin Command
  BY SoundAssumption
<1>5. Enabled /\ ReadCommand => cmd_full /\ ~snd_cmd_wr /\ ~board_rst
  BY DEF Enabled, ReadCommand, OneInterrupt, NoEdge, WrittenHeard
<1>6. CASE snd_cmd_wr'
  <2>1. WriteCommand /\ bus = "write" /\ ~snd_cmd_wr /\ ~snd_block
    BY <1>1, <1>6, BusStep DEF InOrder, WriteCommand
  <2>2. alive /\ ~deaf => ~cmd_full
    BY <2>1, ReadInTime DEF snd_block, cmd_pending
  <2>3. ~(Enabled /\ ReadCommand)
    BY <2>2 DEF Enabled, ReadCommand, OneInterrupt, NoEdge
  <2>4. Commands!Put
    BY <1>2, <1>3, <1>6, <2>1, <2>2, <2>3 DEF Commands!Put, Commands!Written
  <2> QED
    BY <2>4 DEF Commands!Next
<1>7. CASE ~snd_cmd_wr' /\ board_rst
  <2>1. ~cmd_full' /\ UNCHANGED <<heard, hearings>>
    BY <1>1, <1>3, <1>5, <1>7, CommandStep
  <2>2. Commands!Clear
    BY <1>2, <1>7, <2>1 DEF Commands!Clear
  <2> QED
    BY <2>2 DEF Commands!Next
<1>8. CASE ~snd_cmd_wr' /\ ~board_rst /\ Enabled /\ ReadCommand
  <2>1. ~cmd_full' /\ heard' = cmd_byte /\ hearings' = 1 - hearings /\ cmd_full /\ ~snd_cmd_wr /\ cmd_byte \in Command
    BY <1>1, <1>3, <1>5, <1>8, CommandStep DEF BytesOK
  <2>2. Commands!Take
    BY <1>2, <1>4, <1>8, <2>1 DEF Commands!Take, Commands!Read
  <2> QED
    BY <2>2 DEF Commands!Next
<1>9. CASE ~snd_cmd_wr' /\ ~board_rst /\ ~(Enabled /\ ReadCommand)
  <2>1. /\ UNCHANGED <<heard, hearings>> /\ (cmd_full' <=> snd_cmd_wr \/ cmd_full)
        /\ cmd_byte' = IF snd_cmd_wr THEN snd_cmd ELSE cmd_byte
    BY <1>1, <1>3, <1>9, CommandStep
  <2>2. Commands!Falter
    BY <1>2, <1>9, <2>1 DEF Commands!Falter
  <2> QED
    BY <2>2 DEF Commands!Next
<1> QED
  BY <1>6, <1>7, <1>8, <1>9

(* No command is lost or read twice by a 6502 that runs: the latch and its  *)
(* guard implement a mailbox, wherever the 68k's writes and resets fall; a  *)
(* board reset clears it, and a deaf board (NeverDeaf) does not listen.     *)
THEOREM SoundEveryCommandHeard == Spec => EveryCommandHeard
<1>1. Init => Commands!Init
  BY DEF Init, Commands!Init
<1>2. LatchInv /\ [Next]_vars => [Commands!Next]_Commands!vars
  <2>1. CASE UNCHANGED vars
    BY <2>1 DEF vars, reset, latches, handler, m68k, Commands!vars, board_rst
  <2> QED
    BY <2>1, CommandMailStep
<1> QED
  BY <1>1, <1>2, LatchInvariant, PTL DEF Spec, EveryCommandHeard, Commands!Spec

LEMMA ResponseMailStep ==
  ASSUME LatchInv, Next
  PROVE  [Responses!Next]_Responses!vars
<1> USE DEF LatchInv
<1>1. Board /\ Bus68k
  BY NextParts
<1>2. IF FinishRead /\ resp_full THEN replied' = resp_byte /\ replies' = 1 - replies
                                ELSE UNCHANGED <<replied, replies>>
  BY <1>1 DEF Bus68k, Compute, HeldOff, Unpaced, WriteCommand, StartRead, FinishRead, ResetBoard
<1>3. snd_resp_rd <=> FinishRead
  <2>1. snd_resp_rd <=> bus = "B_RAM_RD"
    BY DEF InOrder
  <2> QED
    BY <1>1, <2>1 DEF Bus68k, Compute, HeldOff, Unpaced, WriteCommand, StartRead, FinishRead, ResetBoard
<1>4. resp_full => resp_byte # Empty
  BY SoundAssumption DEF BytesOK
<1>5. CASE ~board_rst /\ Enabled /\ Reply
  <2>1. resp_full' /\ resp_byte' \in Answer /\ answers' = 1 - answers
    BY <1>1, <1>5, ResponseStep
  <2>2. Responses!Put \/ Responses!TakePut
    BY <1>2, <1>4, <2>1 DEF Responses!Put, Responses!TakePut, Responses!Written, Responses!Read
  <2> QED
    BY <2>2 DEF Responses!Next
<1>6. CASE board_rst
  <2>1. ~resp_full' /\ answers' = answers
    BY <1>1, <1>6, ResponseStep DEF Enabled
  <2>2. Responses!Take \/ Responses!Clear
    BY <1>2, <1>4, <1>6, <2>1 DEF Responses!Take, Responses!Read, Responses!Clear
  <2> QED
    BY <2>2 DEF Responses!Next
<1>7. CASE ~board_rst /\ ~(Enabled /\ Reply)
  <2>1. /\ resp_full' <=> resp_full /\ ~snd_resp_rd
        /\ resp_byte' = resp_byte /\ answers' = answers
    BY <1>1, <1>7, ResponseStep
  <2>2. Responses!Take \/ Responses!Falter
    BY <1>2, <1>3, <1>4, <2>1 DEF Responses!Take, Responses!Read, Responses!Falter
  <2> QED
    BY <2>2 DEF Responses!Next
<1> QED
  BY <1>5, <1>6, <1>7

(* No byte the 6502 sends is lost or read twice, whichever clocks the two   *)
(* accesses of the response latch fall on.                                  *)
THEOREM SoundNoAnswerLost == Spec => NoAnswerLost
<1>1. Init => Responses!Init
  BY DEF Init, Responses!Init
<1>2. LatchInv /\ [Next]_vars => [Responses!Next]_Responses!vars
  <2>1. CASE UNCHANGED vars
    BY <2>1 DEF vars, reset, latches, handler, m68k, Responses!vars, board_rst
  <2> QED
    BY <2>1, ResponseMailStep
<1> QED
  BY <1>1, <1>2, LatchInvariant, PTL DEF Spec, NoAnswerLost, Responses!Spec
=============================================================================
