----------------------------- MODULE SimStream -----------------------------
(***************************************************************************)
(* What the ADSP board's /SIMBUF register promises (docs/hardware.md: "next *)
(* SIM word sim[eprom_base + sim_address++], 0xff past the end"): reads    *)
(* deliver the words of the ROM image one after the other, from wherever   *)
(* the address and page registers were last written.  The ADSP's IO cycle  *)
(* is part of the interface, so that a register moves in the cycle that    *)
(* writes it and a word is taken by the read that asked for it.  Nothing   *)
(* is said of prefetching, of the SDRAM, or of how long a read waits.      *)
(***************************************************************************)
EXTENDS Integers

CONSTANTS PageSize, Pages, End, Image, PastEnd

VARIABLES page, offset,   \* the registers
          got,            \* the word the last read has got
          cycle,          \* the IO cycle on the ADSP's bus: [op, arg]
          reading,        \* a read has been raised and has not got its word
          reset           \* the machine reset, an input

state == <<page, offset, got, cycle, reading>>
vars  == <<state, reset>>

NoCycle == [op |-> "none", arg |-> 0]
Cycle == {[op |-> "read", arg |-> 0]}
            \cup {[op |-> "seek", arg |-> a] : a \in 0 .. PageSize - 1}
            \cup {[op |-> "page", arg |-> p] : p \in 0 .. Pages - 1}

Index == page * PageSize + offset

(* The image holds a word high byte first. *)
Word(i) == IF i < End THEN <<Image[2 * i], Image[2 * i + 1]>> ELSE PastEnd

Init == /\ page = 0 /\ offset = 0 /\ got = PastEnd
        /\ cycle = NoCycle /\ reading = FALSE /\ reset = FALSE

(* The ADSP raises an IO cycle, a read only when the last one is answered.  *)
Raise == /\ ~reset /\ ~reading /\ cycle = NoCycle
         /\ \E c \in Cycle : cycle' = c /\ reading' = (c.op = "read")
         /\ UNCHANGED <<page, offset, got>>

(* A write of the address or of the page register.                          *)
Seek == /\ ~reset /\ cycle.op = "seek"
        /\ offset' = cycle.arg /\ cycle' = NoCycle
        /\ UNCHANGED <<page, got, reading>>

Turn == /\ ~reset /\ cycle.op = "page"
        /\ page' = cycle.arg /\ cycle' = NoCycle
        /\ UNCHANGED <<offset, got, reading>>

(* The read gets the word of the index and advances it, and is over.        *)
Take == /\ ~reset /\ reading
        /\ got' = Word(Index)
        /\ offset' = IF Index < End THEN (offset + 1) % PageSize ELSE offset
        /\ reading' = FALSE /\ cycle' = NoCycle
        /\ UNCHANGED page

Wait == ~reset /\ reading /\ cycle' = NoCycle /\ UNCHANGED <<page, offset, got, reading>>

Idle == ~reset /\ ~reading /\ cycle = NoCycle /\ UNCHANGED state

(* A reset drops the cycle and clears the registers.                        *)
Reboot == /\ reset
          /\ page' = 0 /\ offset' = 0 /\ cycle' = NoCycle /\ reading' = FALSE
          /\ UNCHANGED got

Next == Raise \/ Seek \/ Turn \/ Take \/ Wait \/ Idle \/ Reboot

Spec == Init /\ [][Next]_vars
=============================================================================
