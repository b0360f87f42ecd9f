-------------------------------- MODULE Som --------------------------------
(***************************************************************************)
(* The SOM buffer: two banks in one dual-port RAM, written by the ADSP     *)
(* through an auto-incremented pointer (src/rtl/stunrun_core.sv) and read  *)
(* by the 68k, which also flips the banks (src/rtl/stunrun_main.sv); and   *)
(* the shadow that TB_SOMTRACE (sim/tb_system.cpp) keeps of it.            *)
(*                                                                         *)
(* Every step is one clock, both processors move together, and nothing     *)
(* says when either flips, seeks, writes or reads: the order they keep is  *)
(* in the two game programs.  Where both ports meet in one word the RAM    *)
(* (no_rw_check) reads anything.                                           *)
(***************************************************************************)
EXTENDS Integers

CONSTANTS Size,          \* words of a bank (8192)
          Data, CpuData, \* what the ADSP writes, and the 68k
          Gap            \* clocks between two bus cycles of the 68k (4)

ASSUME SomAssumption == Size \in Nat \ {0} /\ Gap \in Nat /\ Data \cup CpuData \subseteq Nat

Undefined == -1
Cells == {0, 1} \X (0 .. Size - 1)

VARIABLES
    som, som_ptr, io,                 \* the RAM, the pointer, the ADSP's IO write of this clock
    adsp_bank, bst, step_gap,         \* the 68k
    som_addr, som_we, som_wdata, som_rdata_b,
    shadow, foreign                   \* TB_SOMTRACE; history: cells the 68k has written

port    == <<som_addr, som_we, som_wdata>>
somvars == <<som, som_ptr, io, adsp_bank, bst, step_gap, port, som_rdata_b, shadow, foreign>>

NoIO == [op |-> "none", arg |-> 0]
IO == {NoIO} \cup {[op |-> "latch", arg |-> d] : d \in Data} \cup {[op |-> "clk", arg |-> p] : p \in 0 .. Size - 1}

(* mutant: the ADSP writes the bank the 68k is looking at *)
som_addr_aSame == <<adsp_bank, som_ptr>>
som_addr_a == <<1 - adsp_bank, som_ptr>>    \* "the bank the 68k is *not* looking at"

Ram ==
    /\ som' = [c \in Cells |-> IF som_we /\ c = som_addr THEN som_wdata
                               ELSE IF io.op = "latch" /\ c = som_addr_a THEN io.arg ELSE som[c]]
    /\ IF io.op = "latch" /\ som_addr_a = som_addr THEN som_rdata_b' \in {som[som_addr], Undefined}
       ELSE som_rdata_b' = som[som_addr]

(* The ADSP's side: SOMLATCH writes and steps the pointer, SOMCLK sets it.  *)
(* A cycle of the core takes several clocks.                                *)
Adsp == /\ io' \in IF io = NoIO THEN IO ELSE {NoIO}
        /\ som_ptr' = CASE io.op = "latch" -> (som_ptr + 1) % Size
                        [] io.op = "clk"   -> io.arg
                        [] io.op = "none"  -> som_ptr

(* TB_SOMTRACE sees the write after the clock that raises it.               *)
TracedBank == 1 - adsp_bank'
Trace == /\ shadow' = IF io'.op = "latch" THEN [shadow EXCEPT ![<<TracedBank, som_ptr'>>] = io'.arg] ELSE shadow
         /\ foreign' = (foreign \cup (IF som_we THEN {som_addr} ELSE {}))
                         \ (IF io'.op = "latch" THEN {<<TracedBank, som_ptr'>>} ELSE {})

-----------------------------------------------------------------------------
(* The 68k's side: bus cycles of which only those of the SOM and the bank   *)
(* latch are told apart.                                                    *)
Ready == bst = "IDLE" /\ step_gap = 0
Rests == step_gap' = IF step_gap > 0 THEN step_gap - 1 ELSE 0
Quiet == som_we' = FALSE /\ UNCHANGED <<som_addr, som_wdata>>

Compute == /\ bst = "IDLE" /\ Rests /\ Quiet /\ UNCHANGED <<bst, adsp_bank>>

Flip == /\ Ready /\ adsp_bank' \in {0, 1} /\ step_gap' = Gap /\ Quiet
        /\ UNCHANGED <<bst>>

Write == /\ Ready /\ \E a \in 0 .. Size - 1, d \in CpuData : som_addr' = <<adsp_bank, a>> /\ som_wdata' = d
         /\ som_we' = TRUE /\ step_gap' = Gap /\ UNCHANGED <<bst, adsp_bank>>

(* mutant: the registered address is read as if it were the live bus *)
ReadEarly == /\ Ready /\ \E a \in 0 .. Size - 1 : som_addr' = <<adsp_bank, a>>
             /\ som_we' = FALSE /\ bst' = "RAM_RD" /\ UNCHANGED <<step_gap, adsp_bank, som_wdata>>
Read == /\ Ready /\ \E a \in 0 .. Size - 1 : som_addr' = <<adsp_bank, a>>
        /\ som_we' = FALSE /\ bst' = "RAM_RD1" /\ UNCHANGED <<step_gap, adsp_bank, som_wdata>>

Settle == /\ bst = "RAM_RD1" /\ bst' = "RAM_RD"
        /\ Quiet /\ UNCHANGED <<step_gap, adsp_bank>>

Sample == /\ bst = "RAM_RD" /\ bst' = "IDLE" /\ step_gap' = Gap
          /\ Quiet /\ UNCHANGED <<adsp_bank>>

(* mreset, the watchdog's one clock or longer; the ADSP's pulse ends with it *)
Reset == /\ som_ptr' = 0 /\ io' = NoIO /\ adsp_bank' = 0 /\ bst' = "IDLE" /\ step_gap' = Gap
         /\ Quiet /\ Ram /\ Trace

SomInit ==
    /\ som = [c \in Cells |-> 0] /\ shadow = som /\ foreign = {} /\ som_ptr = 0 /\ io = NoIO
    /\ adsp_bank = 0 /\ bst = "IDLE" /\ step_gap = 0 /\ som_addr = <<0, 0>> /\ som_we = FALSE
    /\ som_wdata = 0 /\ som_rdata_b = 0

Machine == Compute \/ Flip \/ Write \/ Read \/ Settle \/ Sample
SomNext == (Ram /\ Adsp /\ Machine /\ Trace) \/ Reset
SomSpec == SomInit /\ [][SomNext]_somvars

-----------------------------------------------------------------------------
(* The 68k gets the word of the cell it asked for, not that of the read     *)
(* before, and never from a cell the ADSP is writing at that moment,        *)
(* however the ADSP writes and whoever flips what when.                     *)
ReadRight == bst = "RAM_RD" => som_rdata_b = som[som_addr]

(* The shadow the trace bench prints is the buffer: only a write that is    *)
(* under way, or one the 68k made, tells them apart.                        *)
ShadowTrue == \A c \in Cells \ foreign :
                 shadow[c] = IF io.op = "latch" /\ c = som_addr_a THEN io.arg ELSE som[c]
=============================================================================
