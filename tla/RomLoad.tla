------------------------------ MODULE RomLoad ------------------------------
(***************************************************************************)
(* How the machine is filled before it runs: sim/tb_system.cpp plays the   *)
(* Pocket, a byte every eight clocks and then, if there is a save file,    *)
(* the ZRAM; src/rtl/stunrun_core.sv routes the bytes, those for the SDRAM *)
(* through a FIFO that has no full flag; the controller, with nothing else *)
(* to do but refresh, writes them one by one.                              *)
(*                                                                         *)
(* Every step is one clock, but for the save file (one step a byte).       *)
(***************************************************************************)
EXTENDS Integers, Sequences

CONSTANTS Program, Sim, Jsa, Zram,   \* ends of the regions of the image, in bytes
          Depth,                     \* entries of the FIFO (64)
          Interval,                  \* clocks between two refreshes, at least (750)
          Drain,                     \* clocks the bench waits after the last byte (2000)
          Saves                      \* the save files it may be given, <<>> for none

ASSUME LoadAssumption ==
    /\ {Program, Sim, Jsa, Zram, Interval, Drain} \subseteq Nat /\ Depth \in Nat \ {0}
    /\ Program <= Sim /\ Sim <= Jsa /\ Jsa < Zram
    /\ Program % 2 = 0 /\ Sim % 2 = 0 /\ Jsa % 2 = 0 /\ Zram % 4 = 0 /\ Jsa % 4 = 0
    /\ \A z \in Saves : z = <<>> \/ Len(z) = Zram - Jsa

Period  == 8                          \* clocks of a byte
ZBank    == (Zram - Jsa) \div 2        \* 200E, then 210E
rom(b)  == b + 1                      \* every byte of the image differs
ZWords  == 0 .. ZBank - 1
Missing == 0

VARIABLES
    stage, byte, clk, sav,            \* the bench: download, drain, save, run
    dl_we_d, wfifo, wf_wp, wf_rp,     \* the FIFO
    c_req, c_cmd, c_ack,              \* client 4
    state, cmd, since,                \* the controller; since: clocks after its last refresh
    words, jsa, zram                  \* the memories

benchvars == <<stage, byte, clk, sav>>
fifo      == <<dl_we_d, wfifo, wf_wp, wf_rp, c_req, c_cmd>>
sdram     == <<c_ack, state, cmd, since, words>>
loadvars  == <<benchvars, fifo, sdram, jsa, zram>>

dl_we     == stage = "download" /\ clk < 2
dl_pulse  == dl_we /\ ~dl_we_d

-----------------------------------------------------------------------------
(* The FIFO in front of client 4, and the byte lanes: "68010 ROM is         *)
(* big-endian: the even byte sits on D15:8; the SIM and OKI images are      *)
(* little-endian byte streams".                                             *)
Entry == wfifo[wf_rp % Depth]
Empty == wf_wp = wf_rp
Lane(addr) == IF (addr < Program) = (addr % 2 = 0) THEN "high" ELSE "low"

(* mutant: the next byte is popped while the last one still waits *)
PopsBusy == ~Empty
Pops == ~c_req /\ ~Empty

Fifo ==
    /\ dl_we_d' = dl_we
    /\ LET push == dl_pulse /\ byte < Sim
       IN /\ wfifo' = IF push THEN [wfifo EXCEPT ![wf_wp % Depth] = <<byte, rom(byte)>>] ELSE wfifo
          /\ wf_wp' = IF push THEN (wf_wp + 1) % (2 * Depth) ELSE wf_wp
    /\ wf_rp' = IF Pops THEN (wf_rp + 1) % (2 * Depth) ELSE wf_rp
    /\ c_cmd' = IF Pops THEN [word |-> Entry[1] \div 2, lane |-> Lane(Entry[1]), data |-> Entry[2]] ELSE c_cmd
    /\ c_req' = (Pops \/ (c_req /\ ~c_ack))

(* Byte o of 200E lands at 2o and byte o of 210E at 2o + 1.                 *)
ZAddress(o) == <<o % ZBank, IF o < ZBank THEN "high" ELSE "low">>

Direct ==
    /\ jsa' = IF dl_pulse /\ Sim <= byte /\ byte < Jsa THEN [jsa EXCEPT ![byte - Sim] = rom(byte)] ELSE jsa
    /\ zram' = IF dl_pulse /\ Jsa <= byte /\ byte < Zram THEN [zram EXCEPT ![ZAddress(byte - Jsa)] = rom(byte)] ELSE zram

(* The controller: a write is seven clocks, and holds up the refresh.       *)
Following == [arb |-> "open1", open1 |-> "open2", open2 |-> "wait3",
              wait3 |-> "wait2", wait2 |-> "wait1", wait1 |-> "idle",
              ref6 |-> "ref5", ref5 |-> "ref4", ref4 |-> "ref3", ref3 |-> "ref2",
              ref2 |-> "ref1", ref1 |-> "ref0", ref0 |-> "idle"]
Controller ==
    LET next == IF state # "idle" THEN Following[state]
                ELSE IF since >= Interval THEN "ref6"
                ELSE IF c_req /\ ~c_ack THEN "arb" ELSE "idle"
    IN /\ state' = next
       /\ since' = IF next = "ref6" THEN 0 ELSE since + 1
       /\ cmd' = IF state = "arb" THEN c_cmd ELSE cmd
       /\ c_ack' = (state = "open2")
       /\ words' = IF state = "open2" THEN [words EXCEPT ![<<cmd.word, cmd.lane>>] = cmd.data] ELSE words

Clocked == Fifo /\ Direct /\ Controller

-----------------------------------------------------------------------------
(* The bench.  It has waited for the SDRAM to be ready.                     *)
Byte == /\ stage = "download" /\ Clocked /\ UNCHANGED sav
        /\ clk' = (clk + 1) % Period
        /\ byte' = IF clk = Period - 1 THEN byte + 1 ELSE byte
        /\ stage' = IF byte' = Zram THEN "drain" ELSE stage

Wait == /\ stage = "drain" /\ Clocked /\ UNCHANGED sav
        /\ clk' = IF clk < Drain THEN clk + 1 ELSE 0
        /\ byte' = IF clk < Drain THEN byte ELSE 0
        /\ stage' = IF clk < Drain THEN stage ELSE IF sav = <<>> THEN "run" ELSE "save"

(* The save file is the ZRAM as the 68k sees it: the high byte first.       *)
SavePlace(b) == <<b \div 2, IF b % 2 = 0 THEN "high" ELSE "low">>

Save == /\ stage = "save"
        /\ zram' = [zram EXCEPT ![SavePlace(byte)] = sav[byte + 1]]
        /\ byte' = byte + 1 /\ stage' = IF byte' = Len(sav) THEN "run" ELSE stage
        /\ UNCHANGED <<clk, sav, fifo, sdram, jsa>>

LoadInit(save, late) ==
    /\ stage = "download" /\ byte = 0 /\ clk = 0 /\ sav = save
    /\ dl_we_d = FALSE /\ wfifo = [n \in 0 .. Depth - 1 |-> <<0, Missing>>] /\ wf_wp = 0 /\ wf_rp = 0
    /\ c_req = FALSE /\ c_cmd = [word |-> 0, lane |-> "low", data |-> Missing] /\ c_ack = FALSE
    /\ state = "idle" /\ cmd = c_cmd /\ since = late
    /\ words = [c \in (0 .. Sim \div 2 - 1) \X {"high", "low"} |-> Missing]
    /\ jsa = [b \in 0 .. Jsa - Sim - 1 |-> Missing]
    /\ zram = [c \in ZWords \X {"high", "low"} |-> Missing]
LoadNext == Byte \/ Wait \/ Save
LoadSpec == (\E z \in Saves, n \in 0 .. Interval : LoadInit(z, n)) /\ [][LoadNext]_loadvars

-----------------------------------------------------------------------------
(* The check of TB_ZRAM: word w is {200e[w], 210e[w]}.                      *)
ZramWords == \A w \in ZWords : /\ zram[<<w, "high">>] = rom(Jsa + w)
                                /\ zram[<<w, "low">>] = rom(Jsa + ZBank + w)

(* When the reset is let go every byte is where its reader looks for it, in *)
(* the order its reader expects, none is still on the way or was overrun in *)
(* the FIFO, and a save file has replaced the factory defaults.             *)
ImageLoaded ==
    stage = "run" =>
      /\ \A w \in 0 .. Sim \div 2 - 1 :
            LET high == words[<<w, "high">>]
                low  == words[<<w, "low">>]
            IN IF 2 * w < Program THEN high = rom(2 * w) /\ low = rom(2 * w + 1)
               ELSE low = rom(2 * w) /\ high = rom(2 * w + 1)
      /\ \A b \in DOMAIN jsa : jsa[b] = rom(Sim + b)
      /\ IF sav = <<>> THEN ZramWords
         ELSE \A w \in ZWords : /\ zram[<<w, "high">>] = sav[2 * w + 1]
                                /\ zram[<<w, "low">>] = sav[2 * w + 2]

-----------------------------------------------------------------------------
(* What the FIFO without a full flag needs: two entries, and refreshes so   *)
(* far apart that the clock gained on every byte makes up for the eight     *)
(* that one refresh takes.  The core has 64 entries and 750 clocks.         *)
FifoSuffices == Depth >= 2 /\ Interval >= 64
=============================================================================
