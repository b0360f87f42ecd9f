---------------------------- MODULE SimPrefetch ----------------------------
(***************************************************************************)
(* rtl/stunrun_core.sv: the SIM serial ROM of the ADSP board, kept in the  *)
(* SDRAM and read one word ahead.  Every step is one rising edge of the    *)
(* 96 MHz clock: the glue, the ADSP core's IO cycle (rtl/adsp/adsp2100.sv) *)
(* and the SDRAM port of client 2 move together.  The port answers as late *)
(* as it likes (module SdramCtrl shows that it answers).                   *)
(***************************************************************************)
EXTENDS Integers

CONSTANTS PageSize,     \* words of an eprom page (64 K)
          Pages,        \* values of the 2-bit page register
          End,          \* first word index past the ROM (0x30000)
          Image,        \* the ROM image in bytes
          PastEnd,      \* what is read past the end (0x00ff)
          Rest,         \* clocks between two IO cycles of the ADSP, at least
          Resets        \* the resets that strike: none, long, watchdog, adsp

Offset == 0 .. PageSize - 1
Page   == 0 .. Pages - 1

ASSUME SimAssumption ==
    /\ PageSize \in Nat \ {0} /\ Pages \in Nat \ {0}
    /\ End \in Nat /\ Rest \in Nat \ {0} /\ Resets \in {"none", "long", "watchdog", "adsp"}
    /\ Image \in [0 .. 2 * End - 1 -> Int]
    /\ PastEnd \in Int \X Int

VARIABLES
  sim_addr, mp,                            \* the ADSP's address and page registers
  sim_next_idx, sim_valid, sim_word,       \* the one-word buffer
  sim_fetching, rd_pend,
  c_req, c_addr, c_ack, sd_rdata,          \* the port of client 2
  access,                                  \* what the port is doing with the request
  io, io_pending_rd, rest, got,            \* the ADSP's IO cycle
  mreset,                                  \* the machine reset of this clock
  adsp_reset                               \* the 68k's latch: it sets it and lets go

buffer == <<sim_next_idx, sim_valid, sim_word, sim_fetching>>
memory == <<c_ack, sd_rdata, access>>
adsp   == <<io, io_pending_rd, rest, got>>
vars   == <<sim_addr, mp, buffer, rd_pend, c_req, c_addr, memory, adsp, mreset, adsp_reset>>

NoIO == [op |-> "none", arg |-> 0]
IO   == {NoIO, [op |-> "read", arg |-> 0]}
          \cup {[op |-> "seek", arg |-> a] : a \in Offset}
          \cup {[op |-> "page", arg |-> p] : p \in Page}

(* The SDRAM port is little-endian: the odd byte of the image comes high.   *)
Stored(i) == IF i < End THEN <<Image[2 * i + 1], Image[2 * i]>> ELSE PastEnd
Swapped(w) == <<w[2], w[1]>>

sim_idx    == mp * PageSize + sim_addr
sim_hit    == sim_valid /\ sim_next_idx = sim_idx
sim_rd_now == io.op = "read"
sim_consume == (sim_rd_now \/ rd_pend) /\ sim_hit
io_waitRegistered == rd_pend /\ ~sim_hit                         \* mutant
io_wait    == (sim_rd_now \/ rd_pend) /\ ~sim_hit

-----------------------------------------------------------------------------
(* The glue: what one clock does to the buffer and the registers.           *)

(* mutant: only an empty buffer is filled, a stale one is kept *)
StartsFetchWhenEmpty == ~sim_fetching /\ ~sim_valid /\ sim_idx < End
StartsFetch == ~sim_fetching /\ ~sim_hit /\ sim_idx < End
FillsPastEnd == ~sim_fetching /\ ~sim_hit /\ sim_idx >= End
Arrives == sim_fetching /\ c_ack

(* mutant: the buffer is retargeted without dropping sim_valid *)
PrefetchKeepsValid ==
    /\ sim_fetching' = IF StartsFetch THEN TRUE ELSE sim_fetching /\ ~Arrives
    /\ sim_next_idx' = IF StartsFetch \/ FillsPastEnd THEN sim_idx ELSE sim_next_idx
    /\ sim_valid' = (sim_valid \/ Arrives \/ FillsPastEnd)
    /\ sim_word' = IF Arrives THEN Swapped(sd_rdata)
                   ELSE IF FillsPastEnd THEN PastEnd ELSE sim_word
    /\ c_req' = (StartsFetch \/ (c_req /\ ~Arrives))
    /\ c_addr' = IF StartsFetch THEN sim_idx ELSE c_addr

Prefetch ==
    /\ sim_fetching' = (StartsFetch \/ (sim_fetching /\ ~Arrives))
    /\ sim_next_idx' = IF StartsFetch \/ FillsPastEnd THEN sim_idx ELSE sim_next_idx
    /\ sim_valid' = (Arrives \/ FillsPastEnd \/ (sim_valid /\ ~StartsFetch))
    /\ sim_word' = IF Arrives THEN Swapped(sd_rdata)
                   ELSE IF FillsPastEnd THEN PastEnd ELSE sim_word
    /\ c_req' = (StartsFetch \/ (c_req /\ ~Arrives))
    /\ c_addr' = IF StartsFetch THEN sim_idx ELSE c_addr

(* A register write overrides the advance; a read past the end stays put.   *)
Registers ==
    /\ sim_addr' = IF io.op = "seek" THEN io.arg
                   ELSE IF sim_consume /\ sim_idx < End THEN (sim_addr + 1) % PageSize
                   ELSE sim_addr
    /\ mp' = IF io.op = "page" THEN io.arg ELSE mp

Pending == rd_pend' = ((rd_pend \/ sim_rd_now) /\ ~sim_consume)

ResetGlue ==
    /\ sim_addr' = 0 /\ mp' = 0 /\ sim_next_idx' = 0
    /\ sim_valid' = FALSE /\ sim_fetching' = FALSE /\ rd_pend' = FALSE /\ c_req' = FALSE
    /\ UNCHANGED <<sim_word, c_addr>>

(* The port: the winner of the arbitration is registered, its address is    *)
(* sampled a clock later, and it is answered some time after that -- even   *)
(* when the request has been withdrawn meanwhile.                           *)
NoAccess == [phase |-> "idle", addr |-> 0]

Port ==
    \/ /\ access.phase = "idle" /\ c_req /\ ~c_ack
       /\ access' = [access EXCEPT !.phase = "granted"]
       /\ c_ack' = FALSE /\ UNCHANGED sd_rdata
    \/ /\ access.phase = "granted" /\ access' = [phase |-> "open", addr |-> c_addr]
       /\ c_ack' = FALSE /\ UNCHANGED sd_rdata
    \/ /\ access.phase = "open" /\ access' = NoAccess
       /\ c_ack' = TRUE /\ sd_rdata' = Stored(access.addr)
    \/ /\ access.phase # "granted" /\ c_ack' = FALSE /\ UNCHANGED <<access, sd_rdata>>

(* A long machine reset outlasts any access (the PLL, the download, the     *)
(* menu); the watchdog's lasts one clock.  The 68k's latch comes out of it  *)
(* set, and the rebooted 68k releases the ADSP long after the access the    *)
(* reset has cut off.  The 68k may also reset the ADSP alone.               *)
PortQuiet == access = NoAccess /\ ~c_ack
Settled   == ~sim_fetching /\ PortQuiet

MachineReset == /\ mreset' \in {FALSE, (Resets \in {"long", "watchdog"})}
                /\ mreset /\ Resets = "long" /\ (c_req \/ ~PortQuiet) => mreset'
                /\ \E hit \in {FALSE, (Resets = "adsp")} :
                      adsp_reset' = (mreset \/ hit \/ (adsp_reset /\ ~Settled))

Glue == /\ Port
        /\ MachineReset
        /\ IF mreset THEN ResetGlue ELSE Prefetch /\ Registers /\ Pending

-----------------------------------------------------------------------------
(* The core is reset by either (adsp2100 adsp: .reset(mreset | adsp_reset)). *)
held == mreset \/ adsp_reset

(* The ADSP's IO cycle: a read samples io_rdata in the clock io_rd is       *)
(* raised, or in the first later clock in which io_wait is low.             *)

Issue == /\ Glue /\ ~io_pending_rd /\ rest = 0 /\ ~held
         /\ \E cycle \in IO \ {NoIO} : io' = cycle /\ io_pending_rd' = (cycle.op = "read")
         /\ rest' = Rest /\ UNCHANGED got

Sample == /\ Glue /\ io_pending_rd /\ ~io_wait /\ ~held
          /\ got' = sim_word /\ io_pending_rd' = FALSE
          /\ io' = NoIO /\ UNCHANGED rest

Stall == /\ Glue /\ io_pending_rd /\ io_wait /\ ~held
         /\ io' = NoIO /\ UNCHANGED <<io_pending_rd, rest, got>>

Compute == /\ Glue /\ ~io_pending_rd /\ ~held
           /\ io' = NoIO /\ rest' = IF rest > 0 THEN rest - 1 ELSE 0
           /\ UNCHANGED <<io_pending_rd, got>>

Held == /\ Glue /\ held
        /\ io' = NoIO /\ io_pending_rd' = FALSE /\ rest' = Rest /\ UNCHANGED got

Init ==
    /\ sim_addr = 0 /\ mp = 0 /\ sim_next_idx = 0 /\ sim_valid = FALSE
    /\ sim_word = PastEnd /\ sim_fetching = FALSE /\ rd_pend = FALSE
    /\ c_req = FALSE /\ c_addr = 0 /\ c_ack = FALSE /\ sd_rdata = PastEnd
    /\ access = NoAccess /\ io = NoIO /\ io_pending_rd = FALSE /\ rest = Rest /\ got = PastEnd
    /\ mreset = FALSE /\ adsp_reset = FALSE

Next == Issue \/ Sample \/ Stall \/ Compute \/ Held

Spec == Init /\ [][Next]_vars

(* The clock never stops and no reset is ever owed; the port makes progress. *)
FairSpec == Spec /\ WF_vars(Next /\ (mreset' => mreset)) /\ WF_vars(Next /\ access' # access)

-----------------------------------------------------------------------------
(* The buffer is only called valid when it holds the word of its index, as  *)
(* the ADSP must see it: "the buffer does not hold this word until the      *)
(* SDRAM answers".  A fetch for an index the ADSP has since moved away from *)
(* may still be under way, and the ADSP may come back to that index.        *)
BufferTrue ==
    sim_valid /\ sim_next_idx < End => sim_word = Swapped(Stored(sim_next_idx))

(* The board keeps a read pending exactly as long as the core waits for it, *)
(* so that no word is consumed twice or by nobody.                          *)
PendingTogether == rd_pend => io_pending_rd

Stream == INSTANCE SimStream WITH page <- mp, offset <- sim_addr, cycle <- io,
                                  reading <- io_pending_rd, reset <- mreset

(* The prefetched ROM is the serial ROM: whatever the SDRAM's delays, each  *)
(* read gets the word of the current index and advances it once, in the     *)
(* step that ends it; and nothing else moves the index but the cycle that   *)
(* writes a register, to what it writes, and a machine reset, to 0.         *)
StreamsInOrder == Stream!Spec

(* A read of the ROM is answered.                                           *)
ReadsAnswered == io_pending_rd ~> ~io_pending_rd
=============================================================================
