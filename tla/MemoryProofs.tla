---------------------------- MODULE MemoryProofs ----------------------------
(***************************************************************************)
(* Theorems about the memories the machine is filled into and works in:    *)
(* Som, for every size of a bank, every data and every distance between    *)
(* the bus cycles of the 68k; and RomLoad, for every size of the regions   *)
(* and of the FIFO.                                                        *)
(***************************************************************************)
EXTENDS Som, RomLoad, TLAPS

SomTypeOK ==
    /\ som \in [Cells -> Int] /\ shadow \in [Cells -> Int] /\ foreign \subseteq Cells
    /\ som_ptr \in 0 .. Size - 1 /\ io \in IO
    /\ adsp_bank \in {0, 1} /\ bst \in {"IDLE", "RAM_RD1", "RAM_RD"} /\ step_gap \in Nat
    /\ som_addr \in Cells /\ som_we \in BOOLEAN /\ som_wdata \in Int /\ som_rdata_b \in Int

(* While a read is under way the port writes nothing and looks at the bank  *)
(* the 68k has: it cannot flip before the word is sampled.                  *)
ReadUndisturbed == bst # "IDLE" => ~som_we /\ som_addr[1] = adsp_bank

SomInv == SomTypeOK /\ ReadUndisturbed /\ ReadRight /\ ShadowTrue

-----------------------------------------------------------------------------
(* The next request of either side is well typed, and the ADSP's write      *)
(* lands in the other bank.                                                 *)
LEMMA PointerWraps ==
  ASSUME NEW p \in 0 .. Size - 1
  PROVE  (p + 1) % Size \in 0 .. Size - 1
BY SomAssumption

LEMMA WriteCell ==
  ASSUME SomTypeOK
  PROVE  som_addr_a \in Cells /\ som_addr_a[1] = 1 - adsp_bank
BY DEF SomTypeOK, som_addr_a, Cells

(* The IO write of a clock: a latch carries a word, a seek a pointer.       *)
LEMMA IOTypes ==
  ASSUME NEW w \in IO
  PROVE  /\ w.op \in {"none", "latch", "clk"}
         /\ w.op = "latch" => w.arg \in Int
         /\ w.op = "clk" => w.arg \in 0 .. Size - 1
BY SomAssumption DEF IO, NoIO

LEMMA NoIOTypes == NoIO \in IO /\ NoIO.op = "none"
BY DEF IO, NoIO

(* The memory keeps its type whatever the two ports do.                     *)
LEMMA RamTypes ==
  ASSUME SomTypeOK, Ram
  PROVE  som' \in [Cells -> Int] /\ som_rdata_b' \in Int
<1>1. io.op = "latch" => io.arg \in Int
  BY IOTypes DEF SomTypeOK
<1>2. som' \in [Cells -> Int]
  BY <1>1 DEF SomTypeOK, Ram
<1>3. som[som_addr] \in Int /\ Undefined \in Int
  BY DEF SomTypeOK, Undefined
<1> QED
  BY <1>2, <1>3 DEF Ram

(* The shadow and the set of foreign cells keep theirs.                     *)
LEMMA TraceTypes ==
  ASSUME SomTypeOK, Trace, io' \in IO, som_ptr' \in 0 .. Size - 1, adsp_bank' \in {0, 1}
  PROVE  /\ shadow' \in [Cells -> Int] /\ foreign' \subseteq Cells
         /\ <<TracedBank, som_ptr'>> \in Cells /\ TracedBank = som_addr_a'[1]
         /\ <<TracedBank, som_ptr'>> = som_addr_a'
<1>1. io'.op = "latch" => io'.arg \in Int
  BY IOTypes
<1>2. <<TracedBank, som_ptr'>> \in Cells
  BY DEF Cells, TracedBank
<1>3. shadow' \in [Cells -> Int]
  BY <1>1, <1>2 DEF SomTypeOK, Trace
<1>4. foreign' \subseteq Cells
  BY DEF SomTypeOK, Trace
<1> QED
  BY <1>2, <1>3, <1>4 DEF som_addr_a, TracedBank

(* What the ADSP's side and the 68k's side assign is well typed.            *)
LEMMA AdspTypes ==
  ASSUME SomTypeOK, Adsp
  PROVE  io' \in IO /\ som_ptr' \in 0 .. Size - 1
<1>1. io' \in IO
  BY NoIOTypes DEF SomTypeOK, Adsp
<1>2. io.op \in {"none", "latch", "clk"} /\ (io.op = "clk" => io.arg \in 0 .. Size - 1)
  BY IOTypes DEF SomTypeOK
<1>3. (som_ptr + 1) % Size \in 0 .. Size - 1
  BY PointerWraps DEF SomTypeOK
<1>4. som_ptr' \in 0 .. Size - 1
  BY <1>2, <1>3 DEF SomTypeOK, Adsp
<1> QED
  BY <1>1, <1>4

CpuTyped ==
    /\ adsp_bank \in {0, 1} /\ bst \in {"IDLE", "RAM_RD1", "RAM_RD"} /\ step_gap \in Nat
    /\ som_addr \in Cells /\ som_we \in BOOLEAN /\ som_wdata \in Int

(* A step of the 68k's side, and what the read under way needs of it.       *)
LEMMA MachineSteps ==
  ASSUME SomTypeOK, ReadUndisturbed, Machine
  PROVE  CpuTyped' /\ ReadUndisturbed'
         /\ (bst' = "RAM_RD" => bst = "RAM_RD1" /\ som_addr' = som_addr)
<1> USE SomAssumption DEF SomTypeOK, ReadUndisturbed, CpuTyped
<1>1. CASE Compute
  <2>1. step_gap' \in Nat
    BY <1>1 DEF Compute, Rests
  <2> QED
    BY <1>1, <2>1 DEF Compute, Quiet
<1>2. CASE Flip
  BY <1>2 DEF Flip, Ready, Quiet
<1>3. CASE Write
  <2>1. PICK a \in 0 .. Size - 1, d \in CpuData : som_addr' = <<adsp_bank, a>> /\ som_wdata' = d
    BY <1>3 DEF Write
  <2> QED
    BY <1>3, <2>1 DEF Write, Ready, Cells
<1>4. CASE Read
  <2>1. PICK a \in 0 .. Size - 1 : som_addr' = <<adsp_bank, a>>
    BY <1>4 DEF Read
  <2> QED
    BY <1>4, <2>1 DEF Read, Ready, Cells
<1>5. CASE Settle
  BY <1>5 DEF Settle, Quiet
<1>6. CASE Sample
  BY <1>6 DEF Sample, Quiet
<1> QED
  BY <1>1, <1>2, <1>3, <1>4, <1>5, <1>6 DEF Machine

(* One clock of the memory and of the trace keeps the shadow true: what the *)
(* shadow took a clock early is what the memory takes now.                  *)
LEMMA ShadowStep ==
  ASSUME SomTypeOK, ShadowTrue, Ram, Trace,
         io' \in IO, som_ptr' \in 0 .. Size - 1, adsp_bank' \in {0, 1}
  PROVE  ShadowTrue'
<1>1. shadow' \in [Cells -> Int] /\ foreign' \subseteq Cells
      /\ <<TracedBank, som_ptr'>> = som_addr_a' /\ <<TracedBank, som_ptr'>> \in Cells
  BY TraceTypes
<1>2. SUFFICES ASSUME NEW c \in Cells, c \notin foreign'
               PROVE  shadow'[c] = IF io'.op = "latch" /\ c = som_addr_a' THEN io'.arg ELSE som'[c]
  BY DEF ShadowTrue
<1>3. CASE io'.op = "latch" /\ c = som_addr_a'
  <2>1. shadow' = [shadow EXCEPT ![<<TracedBank, som_ptr'>>] = io'.arg]
    BY <1>3 DEF Trace
  <2> QED
    BY <2>1, <1>1, <1>3 DEF SomTypeOK
<1>4. CASE ~(io'.op = "latch" /\ c = som_addr_a')
  <2>1. c \notin foreign /\ ~(som_we /\ c = som_addr)
    BY <1>1, <1>2, <1>4 DEF Trace
  <2>2. shadow'[c] = shadow[c]
    BY <1>1, <1>4 DEF Trace, SomTypeOK
  <2>3. shadow[c] = IF io.op = "latch" /\ c = som_addr_a THEN io.arg ELSE som[c]
    BY <2>1 DEF ShadowTrue
  <2>4. som'[c] = IF io.op = "latch" /\ c = som_addr_a THEN io.arg ELSE som[c]
    BY <2>1 DEF Ram
  <2> QED
    BY <1>4, <2>2, <2>3, <2>4
<1> QED
  BY <1>3, <1>4

(* The word a read settles on is the one its cell keeps.                    *)
LEMMA ReadStep ==
  ASSUME SomTypeOK, ReadUndisturbed, Ram, bst = "RAM_RD1"
  PROVE  som_rdata_b' = som'[som_addr]
<1>1. som_addr_a # som_addr /\ ~som_we
  BY WriteCell DEF ReadUndisturbed, SomTypeOK
<1>2. som_rdata_b' = som[som_addr]
  BY <1>1 DEF Ram
<1>3. som'[som_addr] = som[som_addr]
  BY <1>1 DEF Ram, SomTypeOK
<1> QED
  BY <1>2, <1>3

-----------------------------------------------------------------------------
LEMMA SomInitInv == SomInit => SomInv
<1> SUFFICES ASSUME SomInit PROVE SomInv
  OBVIOUS
<1> USE SomAssumption DEF SomInit
<1>1. <<0, 0>> \in Cells
  BY DEF Cells
<1>2. SomTypeOK
  <2>1. som \in [Cells -> Int] /\ shadow \in [Cells -> Int] /\ foreign \subseteq Cells
    OBVIOUS
  <2>2. som_ptr \in 0 .. Size - 1 /\ io \in IO
    BY NoIOTypes
  <2>3. /\ adsp_bank \in {0, 1} /\ bst \in {"IDLE", "RAM_RD1", "RAM_RD"} /\ step_gap \in Nat
        /\ som_wdata \in Int /\ som_rdata_b \in Int
    OBVIOUS
  <2>4. som_addr \in Cells /\ som_we \in BOOLEAN
    BY <1>1, ZenonT(20)
  <2> QED
    BY <2>1, <2>2, <2>3, <2>4 DEF SomTypeOK
<1>3. ReadUndisturbed /\ ReadRight
  BY DEF ReadUndisturbed, ReadRight
<1>4. ShadowTrue
  BY DEF ShadowTrue, NoIO
<1> QED
  BY <1>2, <1>3, <1>4 DEF SomInv

LEMMA SomNextInv == SomInv /\ [SomNext]_somvars => SomInv'
<1> SUFFICES ASSUME SomInv, [SomNext]_somvars PROVE SomInv'
  OBVIOUS
<1>1. SomTypeOK /\ ReadUndisturbed /\ ReadRight /\ ShadowTrue
  BY DEF SomInv
<1>2. CASE Ram /\ Adsp /\ Machine /\ Trace
  <2>1. io' \in IO /\ som_ptr' \in 0 .. Size - 1
    BY <1>1, <1>2, AdspTypes
  <2>2. /\ CpuTyped' /\ ReadUndisturbed'
        /\ bst' = "RAM_RD" => bst = "RAM_RD1" /\ som_addr' = som_addr
    BY <1>1, <1>2, MachineSteps
  <2>3. adsp_bank' \in {0, 1}
    BY <2>2 DEF CpuTyped
  <2>4. SomTypeOK'
    BY <1>1, <1>2, <2>1, <2>2, <2>3, RamTypes, TraceTypes DEF SomTypeOK, CpuTyped
  <2>5. ReadRight'
    BY <1>1, <1>2, <2>2, ReadStep DEF ReadRight
  <2>6. ShadowTrue'
    BY <1>1, <1>2, <2>1, <2>3, ShadowStep
  <2> QED
    BY <2>2, <2>4, <2>5, <2>6 DEF SomInv
<1>3. CASE Reset
  <2>1. io' \in IO /\ som_ptr' \in 0 .. Size - 1 /\ adsp_bank' \in {0, 1} /\ bst' = "IDLE"
    BY <1>3, NoIOTypes, SomAssumption DEF Reset
  <2>2. som' \in [Cells -> Int] /\ som_rdata_b' \in Int
        /\ shadow' \in [Cells -> Int] /\ foreign' \subseteq Cells
    BY <1>1, <1>3, <2>1, RamTypes, TraceTypes DEF Reset
  <2>3. SomTypeOK'
    BY <1>1, <1>3, <2>1, <2>2, SomAssumption DEF SomTypeOK, Reset, Quiet
  <2>4. ReadUndisturbed' /\ ReadRight'
    BY <2>1 DEF ReadUndisturbed, ReadRight
  <2>5. ShadowTrue'
    BY <1>1, <1>3, <2>1, ShadowStep DEF Reset
  <2> QED
    BY <2>3, <2>4, <2>5 DEF SomInv
<1>4. CASE UNCHANGED somvars
  BY <1>1, <1>4 DEF somvars, port, SomInv, SomTypeOK, ReadUndisturbed, ReadRight, ShadowTrue, som_addr_a
<1> QED
  BY <1>2, <1>3, <1>4 DEF SomNext

(* The inductive invariant of the SOM buffer.                               *)
LEMMA SomInvariant == SomSpec => []SomInv
BY SomInitInv, SomNextInv, PTL DEF SomSpec

(* Double buffering works: the word the 68k samples is the one its cell     *)
(* holds, however the two processors interleave (stunrun_core.sv:215-239,   *)
(* stunrun_main.sv bus states RAM_RD1 and RAM_RD).                          *)
THEOREM SomReadRight == SomSpec => []ReadRight
<1>1. SomInv => ReadRight
  BY DEF SomInv
<1> QED
  BY <1>1, SomInvariant, PTL

(* What TB_SOMTRACE prints is what the buffer will hold (tb_system.cpp).    *)
THEOREM SomShadowTrue == SomSpec => []ShadowTrue
<1>1. SomInv => ShadowTrue
  BY DEF SomInv
<1> QED
  BY <1>1, SomInvariant, PTL

-----------------------------------------------------------------------------
(* How the machine is filled: RomLoad.                                      *)

(* The bytes that have left the bench, and those of them for the SDRAM.     *)
Sent   == IF stage = "download" THEN IF clk = 0 THEN byte ELSE byte + 1 ELSE Zram
Pushed == IF Sent < Sim THEN Sent ELSE Sim

(* The bytes in the FIFO, those popped, and those in memory.                *)
Queued  == IF wf_rp <= wf_wp THEN wf_wp - wf_rp ELSE wf_wp - wf_rp + 2 * Depth
Popped  == Pushed - Queued
Serving == state \in {"arb", "open1", "open2"}
Asking  == c_req /\ ~Serving /\ state # "wait3"
Stored  == IF Asking \/ Serving THEN Popped - 1 ELSE Popped

Cell(k)    == <<k \div 2, Lane(k)>>
Command(k) == [word |-> k \div 2, lane |-> Lane(k), data |-> rom(k)]

States == {"idle", "arb", "open1", "open2", "wait3", "wait2", "wait1",
           "ref6", "ref5", "ref4", "ref3", "ref2", "ref1", "ref0"}
LoadTypeOK ==
    /\ stage \in {"download", "drain", "save", "run"} /\ state \in States
    /\ byte \in Nat /\ clk \in Nat /\ since \in Nat /\ c_req \in BOOLEAN /\ sav \in Saves
    /\ wf_wp \in 0 .. 2 * Depth - 1 /\ wf_rp \in 0 .. 2 * Depth - 1
    /\ DOMAIN wfifo = 0 .. Depth - 1 /\ DOMAIN jsa = 0 .. Jsa - Sim - 1
    /\ DOMAIN words = (0 .. Sim \div 2 - 1) \X {"high", "low"}
    /\ DOMAIN zram = ZWords \X {"high", "low"}

(* The strobe of a byte is one clock; the acknowledge belongs to the clock  *)
(* after the write, and the request falls on the next.                      *)
Strobes ==
    /\ stage = "download" => byte < Zram /\ clk < Period /\ (dl_we_d <=> clk \in {1, 2})
    /\ stage # "download" => ~dl_we_d
    /\ c_ack <=> state = "wait3"
    /\ Serving \/ state = "wait3" => c_req
    /\ state = "wait2" => ~c_req

(* The FIFO holds the bytes between the last popped and the last pushed.    *)
FifoHolds ==
    /\ Queued <= Depth /\ Popped \in Nat
    /\ \A j \in 0 .. Queued - 1 :
          wfifo[(wf_rp + j) % Depth] = <<Popped + j, rom(Popped + j)>>
    /\ Asking \/ Serving => Popped >= 1 /\ c_cmd = Command(Popped - 1)
    /\ state \in {"open1", "open2"} => cmd = c_cmd

(* What is stored is stored right.                                          *)
StoredRight ==
    /\ \A k \in 0 .. Stored - 1 : words[Cell(k)] = rom(k)
    /\ \A b \in Sim .. Jsa - 1 : b < Sent => jsa[b - Sim] = rom(b)
    /\ stage \in {"download", "drain"} \/ sav = <<>> =>
          \A o \in 0 .. Zram - Jsa - 1 : Jsa + o < Sent => zram[ZAddress(o)] = rom(Jsa + o)
    /\ stage \in {"save", "run"} /\ sav # <<>> =>
          \A b \in 0 .. Zram - Jsa - 1 : stage = "run" \/ b < byte => zram[SavePlace(b)] = sav[b + 1]
    /\ stage = "save" => byte < Len(sav) /\ sav # <<>>

(* The clocks until everything sent so far is stored and the controller is  *)
(* idle, if no refresh falls due: seven a byte, one more when it has to be  *)
(* popped first.                                                            *)
Rest == [idle |-> 0, arb |-> 6, open1 |-> 5, open2 |-> 4, wait3 |-> 3, wait2 |-> 2, wait1 |-> 1,
         ref6 |-> 7, ref5 |-> 6, ref4 |-> 5, ref3 |-> 4, ref2 |-> 3, ref1 |-> 2, ref0 |-> 1]
Waiting == Queued + IF Asking THEN 1 ELSE 0
Left    == 7 * Waiting + IF state = "idle" /\ ~c_req /\ Queued > 0 THEN 1 ELSE Rest[state]

(* A byte every eight clocks gains one of them; a refresh loses eight.      *)
Behind == Left - (IF clk = 0 THEN 0 ELSE Period - clk) - 1
KeepsPace == stage = "download" =>
            /\ Behind <= 8
            /\ Behind <= 0 \/ 8 * Behind <= 64 + (IF clk = 0 THEN Period ELSE clk) - since

(* The regions that bypass the FIFO leave it time to empty: Elapsed clocks     *)
(* after the last byte for it, at most one refresh has come in between.     *)
AllStored == Waiting = 0 /\ ~Serving
Elapsed == clk + Period * ((IF stage = "download" THEN byte ELSE Zram) - Sim)
Empties ==
    /\ stage \in {"save", "run"} => AllStored
    /\ stage \in {"download", "drain"} /\ Elapsed >= 0 =>
          \/ AllStored
          \/ Left <= 9 - Elapsed
          \/ Left <= 17 - Elapsed /\ since < Elapsed

LoadInv == LoadTypeOK /\ Strobes /\ FifoHolds /\ StoredRight /\ KeepsPace /\ Empties

-----------------------------------------------------------------------------
(* Slots of the FIFO.                                                       *)
LEMMA Remainder ==
  ASSUME NEW n \in Nat \ {0}, NEW q \in Int, NEW r \in 0 .. n - 1
  PROVE  (n * q + r) % n = r
OBVIOUS

LEMMA SmallRemainder ==
  ASSUME NEW n \in Nat \ {0}, NEW x \in 0 .. 4 * n - 1
  PROVE  (x % n) = IF x < n THEN x ELSE IF x < 2 * n THEN x - n
                   ELSE IF x < 3 * n THEN x - 2 * n ELSE x - 3 * n
<1>1. CASE x < n
  <2>1. (n * 0 + x) % n = x
    BY <1>1, Remainder
  <2> QED BY <1>1, <2>1
<1>2. CASE n <= x /\ x < 2 * n
  <2>1. (n * 1 + (x - n)) % n = x - n
    BY <1>2, Remainder
  <2> QED BY <1>2, <2>1
<1>3. CASE 2 * n <= x /\ x < 3 * n
  <2>1. (n * 2 + (x - 2 * n)) % n = x - 2 * n
    BY <1>3, Remainder
  <2> QED BY <1>3, <2>1
<1>4. CASE 3 * n <= x
  <2>1. (n * 3 + (x - 3 * n)) % n = x - 3 * n
    BY <1>4, Remainder
  <2> QED BY <1>4, <2>1
<1> QED
  BY <1>1, <1>2, <1>3, <1>4

LEMMA NextAround ==
  ASSUME NEW d \in Nat \ {0}, NEW p \in 0 .. d - 1
  PROVE  ((p + 1) % d) = IF p + 1 = d THEN 0 ELSE p + 1
<1>1. CASE p + 1 = d
  <2>1. ((d * 1 + 0) % d) = 0
    BY Remainder
  <2> QED BY <1>1, <2>1
<1>2. CASE p + 1 # d
  <2>1. ((d * 0 + (p + 1)) % d) = p + 1
    BY <1>2, Remainder
  <2> QED BY <1>2, <2>1
<1> QED
  BY <1>1, <1>2

(* The slot of a place counted from the start of the FIFO's two rounds.     *)
Fold(x) == IF x < Depth THEN x ELSE IF x < 2 * Depth THEN x - Depth
           ELSE IF x < 3 * Depth THEN x - 2 * Depth ELSE x - 3 * Depth

LEMMA SlotIsFold ==
  ASSUME NEW x \in 0 .. 4 * Depth - 1
  PROVE  (x % Depth) = Fold(x)
<1>1. Depth \in Nat \ {0}
  BY LoadAssumption
<1>2. (x % Depth) = IF x < Depth THEN x ELSE IF x < 2 * Depth THEN x - Depth
                    ELSE IF x < 3 * Depth THEN x - 2 * Depth ELSE x - 3 * Depth
  BY <1>1, SmallRemainder
<1> QED
  BY <1>2 DEF Fold

(* The pointers run twice around the FIFO.                                  *)
LEMMA PointerStep ==
  ASSUME NEW p \in 0 .. 2 * Depth - 1
  PROVE  /\ ((p + 1) % (2 * Depth)) = IF p + 1 = 2 * Depth THEN 0 ELSE p + 1
         /\ ((p + 1) % (2 * Depth)) \in 0 .. 2 * Depth - 1
         /\ (p % Depth) \in 0 .. Depth - 1
<1> DEFINE d == 2 * Depth
<1>1. Depth \in Nat \ {0} /\ d \in Nat \ {0}
  BY LoadAssumption
<1>2. ((p + 1) % d) = IF p + 1 = d THEN 0 ELSE p + 1
  <2> HIDE DEF d
  <2>1. p \in 0 .. d - 1
    BY DEF d
  <2> QED
    BY <1>1, <2>1, NextAround
<1>3. (IF p + 1 = 2 * Depth THEN 0 ELSE p + 1) \in 0 .. 2 * Depth - 1
  BY <1>1
<1>4. (p % Depth) = Fold(p)
  BY <1>1, SlotIsFold
<1>5. Fold(p) \in 0 .. Depth - 1
  BY <1>1 DEF Fold
<1> QED
  BY <1>2, <1>3, <1>4, <1>5

LEMMA Slots ==
  ASSUME NEW p \in 0 .. 2 * Depth - 1, NEW q \in 0 .. 2 * Depth - 1,
         NEW n \in 0 .. Depth, q = p + n \/ q = p + n - 2 * Depth
  PROVE  /\ (q % Depth) = ((p + n) % Depth)
         /\ \A j \in 0 .. n - 1 : n < Depth => ((p + j) % Depth) # (q % Depth)
<1>1. Depth \in Nat \ {0}
  BY LoadAssumption
<1>2. (q % Depth) = Fold(q) /\ ((p + n) % Depth) = Fold(p + n)
  <2>1. q \in 0 .. 4 * Depth - 1 /\ p + n \in 0 .. 4 * Depth - 1
    BY <1>1
  <2> QED BY <2>1, SlotIsFold
<1>3. Fold(q) = Fold(p + n)
  BY <1>1 DEF Fold
<1>4. ASSUME NEW j \in 0 .. n - 1, n < Depth PROVE ((p + j) % Depth) # (q % Depth)
  <2>1. p + j \in 0 .. 4 * Depth - 1
    BY <1>1, <1>4
  <2>2. ((p + j) % Depth) = Fold(p + j)
    BY <2>1, SlotIsFold
  <2>3. Fold(p + j) # Fold(q)
    BY <1>1, <1>4 DEF Fold
  <2> QED BY <1>2, <2>2, <2>3
<1> QED
  BY <1>2, <1>3, <1>4

LEMMA NextSlots ==
  ASSUME NEW p \in 0 .. 2 * Depth - 1, NEW j \in 0 .. Depth - 1
  PROVE  ((((p + 1) % (2 * Depth)) + j) % Depth) = ((p + (j + 1)) % Depth)
<1> DEFINE next == (p + 1) % (2 * Depth)
<1>1. Depth \in Nat \ {0}
  BY LoadAssumption
<1>2. next = (IF p + 1 = 2 * Depth THEN 0 ELSE p + 1)
  BY PointerStep
<1> HIDE DEF next
<1>3. next + j \in 0 .. 4 * Depth - 1 /\ p + (j + 1) \in 0 .. 4 * Depth - 1
  BY <1>1, <1>2
<1>4. ((next + j) % Depth) = Fold(next + j) /\ ((p + (j + 1)) % Depth) = Fold(p + (j + 1))
  BY <1>3, SlotIsFold
<1>5. Fold(next + j) = Fold(p + (j + 1))
  BY <1>1, <1>2 DEF Fold
<1> QED
  BY <1>4, <1>5 DEF next

-----------------------------------------------------------------------------
(* The cells of two bytes of the SDRAM differ.                              *)
LEMMA CellsApart ==
  ASSUME NEW k \in Nat, NEW l \in Nat, k # l
  PROVE  Cell(k) # Cell(l)
<1>1. k = 2 * (k \div 2) + (k % 2) /\ l = 2 * (l \div 2) + (l % 2) /\ (k % 2) \in {0, 1} /\ (l % 2) \in {0, 1}
  OBVIOUS
<1>2. Program = 2 * (Program \div 2) /\ Program \in Nat
  BY LoadAssumption
<1>3. SUFFICES ASSUME k \div 2 = l \div 2 PROVE Lane(k) # Lane(l)
  BY DEF Cell
<1>4. (k % 2 = 0) # (l % 2 = 0)
  BY <1>1, <1>3
<1>5. (k < Program) = (l < Program)
  BY <1>1, <1>2, <1>3
<1> QED
  BY <1>4, <1>5 DEF Lane

LEMMA CellInside ==
  ASSUME NEW k \in 0 .. Sim - 1
  PROVE  Cell(k) \in (0 .. Sim \div 2 - 1) \X {"high", "low"}
<1>1. k \div 2 \in 0 .. Sim \div 2 - 1
  BY LoadAssumption
<1> QED
  BY <1>1 DEF Cell, Lane

-----------------------------------------------------------------------------
(* A clock of the bench, and of the FIFO.                                   *)
Pushes == dl_pulse /\ byte < Sim
One(happens) == IF happens THEN 1 ELSE 0

LEMMA PulseFacts ==
  ASSUME LoadTypeOK, Strobes
  PROVE  dl_pulse <=> stage = "download" /\ clk = 0
BY DEF LoadTypeOK, Strobes, dl_pulse, dl_we

LEMMA SentMoves ==
  ASSUME LoadTypeOK, Strobes, Byte \/ Wait
  PROVE  /\ Sent \in Nat /\ Pushed \in Nat
         /\ Sent' = Sent + One(dl_pulse)
         /\ Pushed' = Pushed + One(Pushes)
         /\ dl_pulse => Sent = byte
         /\ Pushes => Pushed = byte
<1>0. byte \in Nat /\ clk \in Nat /\ Sim \in Nat /\ Zram \in Nat
  BY LoadAssumption DEF LoadTypeOK
<1>1. dl_pulse <=> stage = "download" /\ clk = 0
  BY PulseFacts
<1>2. Sent \in Nat /\ Sim \in Nat /\ Zram \in Nat
  BY <1>0 DEF Sent
<1>3. Sent' = Sent + One(dl_pulse)
  <2>3. One(dl_pulse) = IF stage = "download" /\ clk = 0 THEN 1 ELSE 0
    BY <1>1 DEF One, dl_pulse, dl_we
  <2>1. CASE Byte
    <3>1. stage = "download" /\ byte < Zram /\ clk < 8
      BY <2>1 DEF Byte, Strobes, Period
    <3>2. CASE clk = 7
      <4>1. byte' = byte + 1 /\ clk' = 0 /\ stage' = IF byte' = Zram THEN "drain" ELSE stage
        BY <2>1, <3>2 DEF Byte, Period
      <4> QED BY <1>0, <2>3, <3>1, <3>2, <4>1 DEF Sent
    <3>3. CASE clk # 7
      <4>1. byte' = byte /\ clk' = clk + 1 /\ stage' = stage
        BY <1>0, <2>1, <3>1, <3>3 DEF Byte, Period
      <4> QED BY <1>0, <2>3, <3>1, <3>3, <4>1 DEF Sent
    <3> QED BY <3>2, <3>3
  <2>2. CASE Wait
    BY <1>0, <2>2, <2>3 DEF Wait, Sent
  <2> QED BY <2>1, <2>2
<1>4. dl_pulse => Sent = byte
  BY <1>1 DEF Sent
<1>5. Pushed' = Pushed + One(Pushes) /\ (Pushes => Pushed = byte)
  BY <1>1, <1>2, <1>3, <1>4 DEF Pushed, Pushes, One
<1>6. Pushed \in Nat
  BY <1>2 DEF Pushed
<1> QED
  BY <1>2, <1>3, <1>4, <1>5, <1>6

LEMMA QueueMoves ==
  ASSUME LoadTypeOK, FifoHolds, Fifo, Pushes => Queued < Depth
  PROVE  /\ wf_wp' \in 0 .. 2 * Depth - 1 /\ wf_rp' \in 0 .. 2 * Depth - 1
         /\ Queued \in 0 .. Depth /\ Queued' \in 0 .. Depth
         /\ Queued' = Queued + One(Pushes) - One(Pops)
         /\ Pops <=> ~c_req /\ Queued > 0
<1> USE LoadAssumption DEF LoadTypeOK
<1>1. /\ wf_wp' = IF Pushes THEN (wf_wp + 1) % (2 * Depth) ELSE wf_wp
      /\ wf_rp' = IF Pops THEN (wf_rp + 1) % (2 * Depth) ELSE wf_rp
  BY DEF Fifo, Pushes
<1>2. /\ wf_wp' = IF Pushes THEN (IF wf_wp + 1 = 2 * Depth THEN 0 ELSE wf_wp + 1) ELSE wf_wp
      /\ wf_rp' = IF Pops THEN (IF wf_rp + 1 = 2 * Depth THEN 0 ELSE wf_rp + 1) ELSE wf_rp
  BY <1>1, PointerStep
<1>3. Depth \in Nat \ {0} /\ wf_wp \in 0 .. 2 * Depth - 1 /\ wf_rp \in 0 .. 2 * Depth - 1
  OBVIOUS
<1>4. Queued \in 0 .. Depth
  BY <1>3 DEF Queued, FifoHolds
<1>5. Pops <=> ~c_req /\ Queued > 0
  BY <1>3 DEF Pops, Empty, Queued
<1>6. wf_wp' \in 0 .. 2 * Depth - 1 /\ wf_rp' \in 0 .. 2 * Depth - 1
  BY <1>2, <1>3
<1>7. Queued' = Queued + One(Pushes) - One(Pops)
  <2>1. Queued' = IF wf_rp' <= wf_wp' THEN wf_wp' - wf_rp' ELSE wf_wp' - wf_rp' + 2 * Depth
    BY DEF Queued
  <2> QED
    BY <1>2, <1>3, <1>4, <1>5, <2>1 DEF Queued, One
<1>8. Queued' \in 0 .. Depth
  <2>1. One(Pushes) = (IF Pushes THEN 1 ELSE 0) /\ One(Pops) = (IF Pops THEN 1 ELSE 0)
    BY DEF One
  <2>2. CASE Pops
    BY <1>3, <1>4, <1>5, <1>7, <2>1, <2>2
  <2>3. CASE ~Pops /\ Pushes
    BY <1>3, <1>4, <1>7, <2>1, <2>3
  <2>4. CASE ~Pops /\ ~Pushes
    BY <1>3, <1>4, <1>7, <2>1, <2>4
  <2> QED BY <2>2, <2>3, <2>4
<1> QED
  BY <1>4, <1>5, <1>6, <1>7, <1>8

LEMMA FifoMoves ==
  ASSUME LoadTypeOK, Strobes, FifoHolds, Byte \/ Wait, Pushes => Queued < Depth
  PROVE  /\ Popped' = Popped + One(Pops) /\ Popped' \in Nat
         /\ \A j \in 0 .. Queued' - 1 :
               wfifo'[((wf_rp' + j) % Depth)] = <<Popped' + j, rom(Popped' + j)>>
         /\ DOMAIN wfifo' = 0 .. Depth - 1
         /\ Pops => c_cmd' = Command(Popped)
         /\ ~Pops => c_cmd' = c_cmd
<1>1. Fifo /\ Depth \in Nat \ {0}
  BY LoadAssumption DEF Byte, Wait, Clocked
<1>2. /\ wf_wp' \in 0 .. 2 * Depth - 1 /\ wf_rp' \in 0 .. 2 * Depth - 1
      /\ Queued \in 0 .. Depth /\ Queued' \in 0 .. Depth
      /\ Queued' = Queued + One(Pushes) - One(Pops)
      /\ Pops <=> ~c_req /\ Queued > 0
  BY <1>1, QueueMoves
<1>3. Pushed \in Nat /\ Pushed' = Pushed + One(Pushes) /\ (Pushes => Pushed = byte)
  BY SentMoves
<1>4. One(Pops) \in {0, 1} /\ One(Pushes) \in {0, 1}
  BY DEF One
<1>5. Popped' = Popped + One(Pops)
  <2>1. Popped = Pushed - Queued /\ Popped' = Pushed' - Queued'
    BY DEF Popped
  <2> QED BY <1>2, <1>3, <1>4, <2>1
<1>6. Popped \in Nat /\ Popped' \in Nat
  BY <1>4, <1>5 DEF FifoHolds
<1>7. wf_rp \in 0 .. 2 * Depth - 1 /\ wf_wp \in 0 .. 2 * Depth - 1 /\ DOMAIN wfifo = 0 .. Depth - 1
  BY DEF LoadTypeOK
<1>8. wf_wp = wf_rp + Queued \/ wf_wp = wf_rp + Queued - 2 * Depth
  BY <1>1, <1>7 DEF Queued
<1>9. /\ (wf_wp % Depth) = ((wf_rp + Queued) % Depth)
      /\ \A j \in 0 .. Queued - 1 : Queued < Depth => ((wf_rp + j) % Depth) # (wf_wp % Depth)
  BY <1>2, <1>7, <1>8, Slots
<1>10. wfifo' = IF Pushes THEN [wfifo EXCEPT ![wf_wp % Depth] = <<byte, rom(byte)>>] ELSE wfifo
  BY <1>1 DEF Fifo, Pushes
<1>11. (wf_wp % Depth) \in 0 .. Depth - 1
  BY <1>7, PointerStep
(* The places of before the clock, the new one included.                    *)
<1>12. ASSUME NEW j \in 0 .. Queued + One(Pushes) - 1
       PROVE  wfifo'[((wf_rp + j) % Depth)] = <<Popped + j, rom(Popped + j)>>
  <2>1. Popped + Queued = Pushed
    BY <1>2, <1>3 DEF Popped
  <2>2. CASE j < Queued
    <3>1. j \in 0 .. Queued - 1
      BY <1>2, <1>4, <2>2
    <3>2. wfifo[((wf_rp + j) % Depth)] = <<Popped + j, rom(Popped + j)>>
      BY <3>1 DEF FifoHolds
    <3>3. Pushes => ((wf_rp + j) % Depth) # (wf_wp % Depth)
      BY <1>9, <3>1
    <3>4. wfifo'[((wf_rp + j) % Depth)] = wfifo[((wf_rp + j) % Depth)]
      <4> DEFINE p == (wf_rp + j) % Depth
      <4> DEFINE q == wf_wp % Depth
      <4>1. p \in 0 .. Depth - 1
        <5>1. wf_rp + j \in 0 .. 4 * Depth - 1
          BY <1>1, <1>2, <1>7, <3>1
        <5>2. p = Fold(wf_rp + j)
          BY <5>1, SlotIsFold
        <5> HIDE DEF p
        <5> QED BY <1>1, <5>1, <5>2 DEF Fold
      <4>2. Pushes => p # q
        BY <3>3
      <4>3. wfifo' = IF Pushes THEN [wfifo EXCEPT ![q] = <<byte, rom(byte)>>] ELSE wfifo
        BY <1>10
      <4> HIDE DEF p, q
      <4>4. wfifo'[p] = wfifo[p]
        BY <1>7, <4>1, <4>2, <4>3
      <4> QED BY <4>4 DEF p
    <3> QED BY <3>2, <3>4
  <2>3. CASE ~(j < Queued)
    <3>1. Pushes /\ j = Queued
      BY <1>2, <2>3 DEF One
    <3>2. Popped + j = byte
      BY <1>3, <2>1, <3>1
    <3>3. wfifo'[(wf_wp % Depth)] = <<byte, rom(byte)>>
      <4> DEFINE q == wf_wp % Depth
      <4>1. q \in DOMAIN wfifo /\ wfifo' = [wfifo EXCEPT ![q] = <<byte, rom(byte)>>]
        BY <1>7, <1>10, <1>11, <3>1
      <4> HIDE DEF q
      <4>2. wfifo'[q] = <<byte, rom(byte)>>
        BY <4>1
      <4> QED BY <4>2 DEF q
    <3> QED BY <1>9, <3>1, <3>2, <3>3
  <2> QED BY <2>2, <2>3
<1>13. ASSUME NEW j \in 0 .. Queued' - 1
       PROVE  wfifo'[((wf_rp' + j) % Depth)] = <<Popped' + j, rom(Popped' + j)>>
  <2>1. CASE ~Pops
    <3>1. wf_rp' = wf_rp /\ One(Pops) = 0
      BY <1>1, <2>1 DEF Fifo, One
    <3>2. j \in 0 .. Queued + One(Pushes) - 1 /\ Popped' = Popped
      BY <1>2, <1>4, <1>5, <1>6, <3>1
    <3> QED BY <1>12, <3>1, <3>2
  <2>2. CASE Pops
    <3>1. wf_rp' = (wf_rp + 1) % (2 * Depth) /\ One(Pops) = 1
      BY <1>1, <2>2 DEF Fifo, One
    <3>2. j + 1 \in 0 .. Queued + One(Pushes) - 1 /\ j \in 0 .. Depth - 1
      BY <1>1, <1>2, <1>4, <3>1
    <3>3. ((wf_rp' + j) % Depth) = ((wf_rp + (j + 1)) % Depth)
      BY <1>7, <3>1, <3>2, NextSlots
    <3>4. Popped' + j = Popped + (j + 1)
      BY <1>5, <1>6, <3>1, <3>2
    <3>5. wfifo'[((wf_rp + (j + 1)) % Depth)] = <<Popped + (j + 1), rom(Popped + (j + 1))>>
      BY <1>12, <3>2
    <3> QED BY <3>3, <3>4, <3>5
  <2> QED BY <2>1, <2>2
<1>14. ASSUME Pops PROVE c_cmd' = Command(Popped)
  <2>1. 0 \in 0 .. Queued - 1 /\ wf_rp + 0 = wf_rp /\ Popped + 0 = Popped
    BY <1>2, <1>6, <1>7, <1>14
  <2>2. wfifo[((wf_rp + 0) % Depth)] = <<Popped + 0, rom(Popped + 0)>>
    BY <2>1 DEF FifoHolds
  <2>3. Entry = <<Popped, rom(Popped)>>
    BY <2>1, <2>2 DEF Entry
  <2>4. Entry[1] = Popped /\ Entry[2] = rom(Popped)
    BY <2>3
  <2> QED
    BY <1>1, <1>14, <2>4 DEF Fifo, Command
<1>15. ~Pops => c_cmd' = c_cmd
  BY <1>1 DEF Fifo
<1>16. DOMAIN wfifo' = 0 .. Depth - 1
  BY <1>7, <1>10
<1> QED
  BY <1>5, <1>6, <1>13, <1>14, <1>15, <1>16

-----------------------------------------------------------------------------
(* A clock of the controller.                                               *)
LEMMA NextState ==
  ASSUME LoadTypeOK, Controller
  PROVE  /\ state = "idle" => state' = IF since >= Interval THEN "ref6"
                                       ELSE IF c_req /\ ~c_ack THEN "arb" ELSE "idle"
         /\ (state = "arb" => state' = "open1")     /\ (state = "open1" => state' = "open2")
         /\ (state = "open2" => state' = "wait3")   /\ (state = "wait3" => state' = "wait2")
         /\ (state = "wait2" => state' = "wait1")   /\ (state = "wait1" => state' = "idle")
         /\ (state = "ref6" => state' = "ref5")     /\ (state = "ref5" => state' = "ref4")
         /\ (state = "ref4" => state' = "ref3")     /\ (state = "ref3" => state' = "ref2")
         /\ (state = "ref2" => state' = "ref1")     /\ (state = "ref1" => state' = "ref0")
         /\ (state = "ref0" => state' = "idle")
         /\ state' \in States
BY DEF Controller, Following, LoadTypeOK, States

LEMMA StateBefore ==
  ASSUME LoadTypeOK, Controller
  PROVE  /\ state' = "arb" => state = "idle" /\ c_req /\ ~c_ack
         /\ (state' = "open1" <=> state = "arb") /\ (state' = "open2" <=> state = "open1")
         /\ (state' = "wait3" <=> state = "open2") /\ (state' = "wait2" <=> state = "wait3")
         /\ (state' = "ref6" <=> state = "idle" /\ since >= Interval)
<1> DEFINE due == since >= Interval
<1> DEFINE asked == c_req /\ ~c_ack
<1>1. state = "idle" => state' = IF due THEN "ref6" ELSE IF asked THEN "arb" ELSE "idle"
  BY NextState
<1>2. state \in States
  BY DEF LoadTypeOK
<1> HIDE DEF due, asked
<1>3. /\ state' = "arb" => state = "idle" /\ asked
      /\ (state' = "open1" <=> state = "arb") /\ (state' = "open2" <=> state = "open1")
      /\ (state' = "wait3" <=> state = "open2") /\ (state' = "wait2" <=> state = "wait3")
      /\ (state' = "ref6" <=> state = "idle" /\ due)
  <2>1. CASE state = "idle"
    BY <1>1, <2>1
  <2>2. CASE state # "idle"
    BY <1>2, <2>2, NextState DEF States
  <2> QED BY <2>1, <2>2
<1> QED
  BY <1>3 DEF due, asked

LEMMA ControllerMoves ==
  ASSUME LoadTypeOK, Strobes, Clocked
  PROVE  /\ c_ack' <=> state' = "wait3"
         /\ Serving' \/ state' = "wait3" => c_req'
         /\ state' = "wait2" => ~c_req'
         /\ Pops => Asking'
         /\ ~Pops /\ (Asking' \/ Serving') => Asking \/ Serving
         /\ ~Pops /\ (Asking \/ Serving) /\ state # "open2" => Asking' \/ Serving'
         /\ state = "open2" => Serving /\ ~Pops /\ ~Asking' /\ ~Serving'
         /\ c_req' \in BOOLEAN
<1>1. Controller /\ c_req' = (Pops \/ (c_req /\ ~c_ack))
  BY DEF Clocked, Fifo
<1>2. Pops => ~c_req
  BY DEF Pops
<1>3. c_ack' = (state = "open2")
  BY <1>1 DEF Controller
<1>4. state \in States /\ c_req \in BOOLEAN /\ (c_ack <=> state = "wait3")
  BY DEF LoadTypeOK, Strobes
<1>5. (Serving \/ state = "wait3" => c_req) /\ (state = "wait2" => ~c_req)
  BY DEF Strobes
<1>6. c_ack' <=> state' = "wait3"
  BY <1>1, <1>3, StateBefore
<1>7. Serving' \/ state' = "wait3" => c_req' /\ c_req /\ ~Pops
  <2>1. Serving' \/ state' = "wait3" => (state = "idle" /\ c_req /\ ~c_ack) \/ Serving
    BY <1>1, StateBefore DEF Serving
  <2>2. Serving => c_req /\ ~c_ack
    BY <1>4, <1>5 DEF Serving
  <2> QED BY <1>1, <1>2, <2>1, <2>2
<1>8. state' = "wait2" => ~c_req'
  <2>1. state' = "wait2" => state = "wait3"
    BY <1>1, StateBefore
  <2> QED BY <1>1, <1>2, <1>4, <1>5, <2>1
<1>9. Pops => Asking'
  <2>1. Pops => c_req'
    BY <1>1
  <2> QED BY <1>2, <1>7, <2>1 DEF Asking
<1>10. ~Pops /\ (Asking' \/ Serving') => Asking \/ Serving
  <2>1. Asking' \/ Serving' => c_req'
    BY <1>7 DEF Asking
  <2> QED BY <1>1, <1>4, <2>1 DEF Asking
<1>11. state = "open2" => state' = "wait3" /\ Serving /\ ~Pops
  BY <1>1, <1>2, <1>5, StateBefore DEF Serving
<1>12. ~Pops /\ (Asking \/ Serving) /\ state # "open2" => Asking' \/ Serving'
  <2>1. Asking \/ Serving => c_req /\ ~c_ack
    BY <1>4, <1>5 DEF Asking, Serving
  <2>2. state # "open2" => state' # "wait3"
    BY <1>3, <1>6
  <2> QED BY <1>1, <2>1, <2>2 DEF Asking
<1>13. state = "open2" => ~Asking' /\ ~Serving'
  BY <1>11 DEF Asking, Serving
<1>14. c_req' \in BOOLEAN
  BY <1>1, <1>4 DEF Pops
<1> QED
  BY <1>6, <1>7, <1>8, <1>9, <1>10, <1>11, <1>12, <1>13, <1>14

LEMMA CommandMoves ==
  ASSUME LoadTypeOK, Strobes, FifoHolds, Byte \/ Wait, Pushes => Queued < Depth
  PROVE  FifoHolds'
<1>1. Clocked /\ Controller
  BY DEF Byte, Wait, Clocked
<1>2. Queued' <= Depth /\ Popped' \in Nat /\ Popped \in Nat
  <2>1. Fifo
    BY <1>1 DEF Clocked
  <2>2. Queued' \in 0 .. Depth
    BY <2>1, QueueMoves
  <2>3. Popped \in Nat
    BY DEF FifoHolds
  <2>4. Popped' \in Nat
    BY FifoMoves
  <2>5. Queued' <= Depth
    BY <2>2, LoadAssumption
  <2> QED
    BY <2>3, <2>4, <2>5
<1>3. \A j \in 0 .. Queued' - 1 : wfifo'[((wf_rp' + j) % Depth)] = <<Popped' + j, rom(Popped' + j)>>
  BY FifoMoves
<1>4. ASSUME Asking' \/ Serving' PROVE Popped' >= 1 /\ c_cmd' = Command(Popped' - 1)
  <2>1. CASE Pops
    <3>1. Popped' = Popped + 1 /\ c_cmd' = Command(Popped)
      BY <2>1, FifoMoves DEF One
    <3>2. Popped' - 1 = Popped
      BY <1>2, <3>1
    <3> QED BY <1>2, <3>1, <3>2
  <2>2. CASE ~Pops
    <3>1. Popped' = Popped /\ c_cmd' = c_cmd
      BY <1>2, <2>2, FifoMoves DEF One
    <3>2. Asking \/ Serving
      BY <1>1, <1>4, <2>2, ControllerMoves
    <3> QED BY <3>1, <3>2 DEF FifoHolds
  <2> QED BY <2>1, <2>2
<1>5. ASSUME state' \in {"open1", "open2"} PROVE cmd' = c_cmd'
  <2>1. state = "arb" \/ state = "open1"
    BY <1>1, <1>5, StateBefore
  <2>2. ~Pops
    BY <2>1 DEF Pops, Strobes, Serving
  <2>3. c_cmd' = c_cmd
    BY <2>2, FifoMoves
  <2>4. cmd' = IF state = "arb" THEN c_cmd ELSE cmd
    BY <1>1 DEF Controller
  <2> QED
    BY <2>1, <2>3, <2>4 DEF FifoHolds
<1> QED
  BY <1>2, <1>3, <1>4, <1>5 DEF FifoHolds

(* A write of the controller stores the next byte.                          *)
LEMMA StoredMoves ==
  ASSUME LoadTypeOK, Strobes, FifoHolds, Byte \/ Wait, Pushes => Queued < Depth
  PROVE  /\ Stored \in Nat /\ Stored' = Stored + One(state = "open2")
         /\ state = "open2" => cmd = Command(Stored) /\ Stored < Sim
<1>1. Clocked
  BY DEF Byte, Wait
<1>2. Popped \in Nat /\ Popped' = Popped + One(Pops) /\ Popped' \in Nat
  BY FifoMoves DEF FifoHolds
<1>3. Stored \in Nat
  BY <1>2 DEF Stored, FifoHolds
<1>4. Stored' = IF Asking' \/ Serving' THEN Popped' - 1 ELSE Popped'
  BY DEF Stored
<1>5. CASE state = "open2"
  <2>1. Serving /\ ~Pops /\ ~Asking' /\ ~Serving'
    BY <1>1, <1>5, ControllerMoves
  <2>2. Stored = Popped - 1 /\ Stored' = Popped
    BY <1>2, <1>4, <2>1 DEF Stored, One
  <2>3. Popped <= Sim
    <3>1. Queued \in 0 .. Depth
      BY <1>1, QueueMoves DEF Clocked
    <3>2. Sim \in Nat /\ Depth \in Nat /\ Pushed \in Nat /\ Sent \in Nat
      BY SentMoves, LoadAssumption
    <3>3. Pushed <= Sim
      BY <3>2 DEF Pushed
    <3> QED BY <3>1, <3>2, <3>3 DEF Popped
  <2>4. cmd = Command(Popped - 1)
    BY <1>5, <2>1 DEF FifoHolds
  <2>5. Stored < Sim
    BY <1>2, <1>3, <2>2, <2>3, LoadAssumption
  <2> QED
    BY <1>2, <1>3, <1>5, <2>2, <2>4, <2>5 DEF One
<1>6. CASE state # "open2" /\ Pops
  <2>1. Asking' /\ ~Asking /\ ~Serving
    <3>1. ~c_req
      BY <1>6 DEF Pops
    <3> QED BY <1>1, <1>6, <3>1, ControllerMoves DEF Asking, Strobes
  <2> QED
    BY <1>2, <1>3, <1>4, <1>6, <2>1 DEF Stored, One
<1>7. CASE state # "open2" /\ ~Pops
  <2>1. (Asking' \/ Serving') <=> (Asking \/ Serving)
    BY <1>1, <1>7, ControllerMoves
  <2> QED
    BY <1>2, <1>3, <1>4, <1>7, <2>1 DEF Stored, One
<1> QED
  BY <1>5, <1>6, <1>7

-----------------------------------------------------------------------------
(* The cells of two bytes of the ZRAM differ, in the order of the image and *)
(* in that of the save file.                                                *)
LEMMA ZramSize ==
  /\ ZBank \in Nat \ {0} /\ Zram - Jsa = 2 * ZBank
  /\ Zram \in Nat /\ Jsa \in Nat /\ Sim \in Nat /\ Sim <= Jsa /\ Zram - Jsa \in Nat \ {0}
<1> DEFINE z == Zram \div 4
<1> DEFINE j == Jsa \div 4
<1>1. Zram \in Nat /\ Jsa \in Nat /\ Jsa < Zram /\ Zram % 4 = 0 /\ Jsa % 4 = 0 /\ Sim \in Nat /\ Sim <= Jsa
  BY LoadAssumption
<1>2. Zram = 4 * z /\ Jsa = 4 * j /\ z \in Nat /\ j \in Nat
  BY <1>1
<1> HIDE DEF z, j
<1>3. z - j \in Nat \ {0} /\ Zram - Jsa = 2 * (2 * (z - j))
  BY <1>1, <1>2
<1>4. (Zram - Jsa) \div 2 = 2 * (z - j)
  BY <1>3
<1> QED
  BY <1>1, <1>3, <1>4 DEF ZBank

LEMMA ZCells ==
  ASSUME NEW o \in 0 .. Zram - Jsa - 1
  PROVE  /\ ZAddress(o) \in ZWords \X {"high", "low"}
         /\ ZAddress(o) = <<IF o < ZBank THEN o ELSE o - ZBank, IF o < ZBank THEN "high" ELSE "low">>
<1>1. ZBank \in Nat \ {0} /\ o \in 0 .. 4 * ZBank - 1 /\ o < 2 * ZBank
  BY ZramSize
<1>2. (o % ZBank) = IF o < ZBank THEN o ELSE IF o < 2 * ZBank THEN o - ZBank
                    ELSE IF o < 3 * ZBank THEN o - 2 * ZBank ELSE o - 3 * ZBank
  BY <1>1, SmallRemainder
<1> DEFINE m == o % ZBank
<1> HIDE DEF m
<1>3. m = IF o < ZBank THEN o ELSE o - ZBank
  BY <1>1, <1>2 DEF m
<1>4. m \in ZWords
  BY <1>1, <1>3 DEF ZWords
<1>5. ZAddress(o) = <<m, IF o < ZBank THEN "high" ELSE "low">>
  BY DEF ZAddress, m
<1> QED
  BY <1>3, <1>4, <1>5

LEMMA ZCellsApart ==
  ASSUME NEW o \in 0 .. Zram - Jsa - 1, NEW q \in 0 .. Zram - Jsa - 1, o # q
  PROVE  ZAddress(o) # ZAddress(q)
<1>1. ZBank \in Nat \ {0}
  BY ZramSize
<1>2. /\ ZAddress(o) = <<IF o < ZBank THEN o ELSE o - ZBank, IF o < ZBank THEN "high" ELSE "low">>
      /\ ZAddress(q) = <<IF q < ZBank THEN q ELSE q - ZBank, IF q < ZBank THEN "high" ELSE "low">>
  BY ZCells
<1> QED
  BY <1>1, <1>2

LEMMA SavePlaces ==
  ASSUME NEW b \in 0 .. Zram - Jsa - 1
  PROVE  /\ SavePlace(b) \in ZWords \X {"high", "low"}
         /\ \A c \in 0 .. Zram - Jsa - 1 : c # b => SavePlace(c) # SavePlace(b)
<1>1. b \div 2 \in 0 .. ZBank - 1
  BY ZramSize
<1>2. SavePlace(b) \in ZWords \X {"high", "low"}
  BY <1>1 DEF SavePlace, ZWords
<1>3. ASSUME NEW c \in 0 .. Zram - Jsa - 1, c # b PROVE SavePlace(c) # SavePlace(b)
  <2>1. /\ b = 2 * (b \div 2) + (b % 2) /\ c = 2 * (c \div 2) + (c % 2)
        /\ (b % 2) \in {0, 1} /\ (c % 2) \in {0, 1}
    BY ZramSize
  <2>2. CASE b \div 2 = c \div 2
    <3>1. (b % 2 = 0) # (c % 2 = 0)
      BY <1>3, <2>1, <2>2
    <3> QED BY <3>1 DEF SavePlace
  <2>3. CASE b \div 2 # c \div 2
    BY <2>3 DEF SavePlace
  <2> QED BY <2>2, <2>3
<1> QED
  BY <1>2, <1>3

-----------------------------------------------------------------------------
(* The memories.                                                            *)
LEMMA WordsKept ==
  ASSUME LoadTypeOK, Strobes, FifoHolds, StoredRight, Byte \/ Wait, Pushes => Queued < Depth
  PROVE  /\ \A k \in 0 .. Stored' - 1 : words'[Cell(k)] = rom(k)
         /\ DOMAIN words' = (0 .. Sim \div 2 - 1) \X {"high", "low"}
<1>1. words' = IF state = "open2" THEN [words EXCEPT ![<<cmd.word, cmd.lane>>] = cmd.data] ELSE words
  BY DEF Byte, Wait, Clocked, Controller
<1>2. DOMAIN words = (0 .. Sim \div 2 - 1) \X {"high", "low"}
  BY DEF LoadTypeOK
<1>3. Stored \in Nat /\ Stored' = Stored + One(state = "open2")
  BY StoredMoves
<1>4. \A k \in 0 .. Stored - 1 : words[Cell(k)] = rom(k)
  BY DEF StoredRight
<1>5. CASE state = "open2"
  <2>1. cmd = Command(Stored) /\ Stored \in 0 .. Sim - 1 /\ Stored' = Stored + 1
    BY <1>3, <1>5, StoredMoves, LoadAssumption DEF One
  <2>2. words' = [words EXCEPT ![Cell(Stored)] = rom(Stored)]
    BY <1>1, <1>5, <2>1 DEF Command, Cell
  <2>3. Cell(Stored) \in DOMAIN words
    BY <1>2, <2>1, CellInside
  <2>4. ASSUME NEW k \in 0 .. Stored' - 1 PROVE words'[Cell(k)] = rom(k)
    <3>1. CASE k = Stored
      BY <2>2, <2>3, <3>1
    <3>2. CASE k # Stored
      <4>1. k \in 0 .. Stored - 1 /\ k \in 0 .. Sim - 1 /\ k \in Nat
        BY <1>3, <2>1, <3>2, LoadAssumption
      <4>2. Cell(k) # Cell(Stored) /\ Cell(k) \in DOMAIN words
        BY <1>2, <1>3, <3>2, <4>1, CellsApart, CellInside
      <4> QED BY <1>4, <2>2, <4>1, <4>2
    <3> QED BY <3>1, <3>2
  <2> QED BY <1>2, <2>2, <2>4
<1>6. CASE state # "open2"
  BY <1>1, <1>2, <1>3, <1>4, <1>6 DEF One
<1> QED
  BY <1>5, <1>6

LEMMA DirectKept ==
  ASSUME LoadTypeOK, Strobes, StoredRight, Byte \/ Wait
  PROVE  /\ \A b \in Sim .. Jsa - 1 : b < Sent' => jsa'[b - Sim] = rom(b)
         /\ DOMAIN jsa' = 0 .. Jsa - Sim - 1
<1>1. Direct
  BY DEF Byte, Wait, Clocked
<1>2. /\ Sent \in Nat /\ Sent' = Sent + One(dl_pulse) /\ (dl_pulse => Sent = byte)
      /\ Sim \in Nat /\ Jsa \in Nat /\ byte \in Nat
  BY SentMoves, LoadAssumption DEF LoadTypeOK
<1>3. DOMAIN jsa = 0 .. Jsa - Sim - 1
  BY DEF LoadTypeOK
<1> DEFINE here == dl_pulse /\ Sim <= byte /\ byte < Jsa
<1>4. jsa' = IF here THEN [jsa EXCEPT ![byte - Sim] = rom(byte)] ELSE jsa
  BY <1>1 DEF Direct
<1>5. ASSUME NEW b \in Sim .. Jsa - 1, b < Sent' PROVE jsa'[b - Sim] = rom(b)
  <2>1. b - Sim \in DOMAIN jsa
    BY <1>2, <1>3
  <2>2. CASE dl_pulse /\ b = byte
    <3>1. here
      BY <1>2, <2>2
    <3> QED BY <1>4, <2>1, <2>2, <3>1
  <2>3. CASE ~(dl_pulse /\ b = byte)
    <3>1. b < Sent
      BY <1>2, <1>5, <2>3 DEF One
    <3>2. jsa[b - Sim] = rom(b)
      BY <3>1 DEF StoredRight
    <3>3. here => b # byte
      BY <2>3
    <3>4. here => b - Sim # byte - Sim
      BY <1>2, <3>3
    <3> HIDE DEF here
    <3> QED BY <1>4, <2>1, <3>2, <3>4
  <2> QED BY <2>2, <2>3
<1>6. DOMAIN jsa' = 0 .. Jsa - Sim - 1
  BY <1>3, <1>4
<1> QED
  BY <1>5, <1>6

LEMMA ZramKept ==
  ASSUME LoadTypeOK, Strobes, StoredRight, Byte \/ Wait
  PROVE  /\ \A o \in 0 .. Zram - Jsa - 1 : Jsa + o < Sent' => zram'[ZAddress(o)] = rom(Jsa + o)
         /\ DOMAIN zram' = ZWords \X {"high", "low"}
<1>1. Direct /\ stage \in {"download", "drain"}
  BY DEF Byte, Wait, Clocked
<1>2. /\ Sent \in Nat /\ Sent' = Sent + One(dl_pulse) /\ (dl_pulse => Sent = byte)
      /\ Zram \in Nat /\ Jsa \in Nat /\ byte \in Nat
  BY SentMoves, LoadAssumption DEF LoadTypeOK
<1>3. DOMAIN zram = ZWords \X {"high", "low"}
  BY DEF LoadTypeOK
<1> DEFINE here == dl_pulse /\ Jsa <= byte /\ byte < Zram
<1>4. zram' = IF here THEN [zram EXCEPT ![ZAddress(byte - Jsa)] = rom(byte)] ELSE zram
  BY <1>1 DEF Direct
<1>5. ASSUME NEW o \in 0 .. Zram - Jsa - 1, Jsa + o < Sent' PROVE zram'[ZAddress(o)] = rom(Jsa + o)
  <2>1. ZAddress(o) \in DOMAIN zram
    BY <1>3, ZCells
  <2>2. CASE dl_pulse /\ Jsa + o = byte
    <3>1. here /\ o = byte - Jsa
      BY <1>2, <2>2
    <3> QED BY <1>4, <2>1, <2>2, <3>1
  <2>3. CASE ~(dl_pulse /\ Jsa + o = byte)
    <3>1. Jsa + o < Sent
      BY <1>2, <1>5, <2>3 DEF One
    <3>2. zram[ZAddress(o)] = rom(Jsa + o)
      BY <1>1, <3>1 DEF StoredRight
    <3>3. here => byte - Jsa \in 0 .. Zram - Jsa - 1 /\ byte - Jsa # o
      BY <1>2, <2>3
    <3>4. here => ZAddress(byte - Jsa) # ZAddress(o)
      BY <3>3, ZCellsApart
    <3> HIDE DEF here
    <3> QED BY <1>4, <2>1, <3>2, <3>4
  <2> QED BY <2>2, <2>3
<1>6. DOMAIN zram' = ZWords \X {"high", "low"}
  BY <1>3, <1>4
<1> QED
  BY <1>5, <1>6

LEMMA StoredStep ==
  ASSUME LoadTypeOK, Strobes, FifoHolds, StoredRight, Byte \/ Wait, Pushes => Queued < Depth
  PROVE  StoredRight'
<1>1. sav' = sav /\ stage \in {"download", "drain"} /\ sav \in Saves
  BY DEF Byte, Wait, LoadTypeOK
<1>2. \A k \in 0 .. Stored' - 1 : words'[Cell(k)] = rom(k)
  BY WordsKept
<1>3. \A b \in Sim .. Jsa - 1 : b < Sent' => jsa'[b - Sim] = rom(b)
  BY DirectKept
<1>4. \A o \in 0 .. Zram - Jsa - 1 : Jsa + o < Sent' => zram'[ZAddress(o)] = rom(Jsa + o)
  BY ZramKept
<1>5. stage' = "save" => byte' = 0 /\ sav # <<>>
  BY <1>1 DEF Byte, Wait
<1>6. stage' = "run" => sav = <<>>
  BY <1>1 DEF Byte, Wait
<1>7. sav # <<>> => Len(sav) \in Nat \ {0}
  BY <1>1, ZramSize, LoadAssumption
<1>8. stage' \in {"save", "run"} /\ sav' # <<>> =>
        \A b \in 0 .. Zram - Jsa - 1 : stage' = "run" \/ b < byte' => zram'[SavePlace(b)] = sav'[b + 1]
  BY <1>1, <1>5, <1>6, ZramSize
<1>9. stage' = "save" => byte' < Len(sav') /\ sav' # <<>>
  BY <1>1, <1>5, <1>7
<1>10. stage' \in {"download", "drain"} \/ sav' = <<>> =>
         \A o \in 0 .. Zram - Jsa - 1 : Jsa + o < Sent' => zram'[ZAddress(o)] = rom(Jsa + o)
  BY <1>4
<1> QED
  BY <1>2, <1>3, <1>8, <1>9, <1>10, Zenon DEF StoredRight

(* The save file, byte by byte.                                             *)
LEMMA SaveKept ==
  ASSUME LoadTypeOK, StoredRight, Save
  PROVE  StoredRight' /\ DOMAIN zram' = ZWords \X {"high", "low"}
<1>1. /\ stage = "save" /\ sav' = sav /\ words' = words /\ jsa' = jsa
      /\ byte' = byte + 1 /\ stage' = IF byte' = Len(sav) THEN "run" ELSE stage
      /\ zram' = [zram EXCEPT ![SavePlace(byte)] = sav[byte + 1]]
  BY DEF Save, sdram
<1>2. /\ byte < Len(sav) /\ sav # <<>> /\ Len(sav) = Zram - Jsa /\ byte \in Nat
      /\ Zram - Jsa \in Nat
  BY <1>1, ZramSize, LoadAssumption DEF StoredRight, LoadTypeOK
<1>3. Sent' = Sent /\ Stored' = Stored
  <2>1. stage' # "download" /\ Sent' = Sent
    BY <1>1 DEF Sent
  <2>2. <<wf_rp, wf_wp, c_req, state>>' = <<wf_rp, wf_wp, c_req, state>>
    BY DEF Save, fifo, sdram
  <2>3. Stored' = Stored
    BY <2>1, <2>2 DEF Stored, Popped, Pushed, Queued, Asking, Serving
  <2> QED BY <2>1, <2>3
<1>4. DOMAIN zram = ZWords \X {"high", "low"}
  BY DEF LoadTypeOK
<1>5. byte \in 0 .. Zram - Jsa - 1
  BY <1>2
<1>6. ASSUME NEW b \in 0 .. Zram - Jsa - 1, stage' = "run" \/ b < byte'
      PROVE  zram'[SavePlace(b)] = sav'[b + 1]
  <2>1. SavePlace(b) \in DOMAIN zram
    BY <1>4, SavePlaces
  <2>2. CASE b = byte
    BY <1>1, <2>1, <2>2
  <2>3. CASE b # byte
    <3>1. b < byte
      BY <1>1, <1>2, <1>6, <2>3
    <3>2. zram[SavePlace(b)] = sav[b + 1]
      BY <1>1, <1>2, <3>1 DEF StoredRight
    <3>3. SavePlace(b) # SavePlace(byte)
      BY <1>5, <2>3, SavePlaces
    <3> QED BY <1>1, <2>1, <3>2, <3>3
  <2> QED BY <2>2, <2>3
<1>7. stage' = "save" => byte' < Len(sav')
  BY <1>1, <1>2
<1>8. /\ \A k \in 0 .. Stored' - 1 : words'[Cell(k)] = rom(k)
      /\ \A b \in Sim .. Jsa - 1 : b < Sent' => jsa'[b - Sim] = rom(b)
  BY <1>1, <1>3 DEF StoredRight
<1>9. stage' \notin {"download", "drain"} /\ sav' # <<>>
  BY <1>1, <1>2
<1> QED
  BY <1>1, <1>2, <1>4, <1>6, <1>7, <1>8, <1>9 DEF StoredRight

-----------------------------------------------------------------------------
(* Clocks.                                                                  *)
LEMMA LeftIs ==
  ASSUME LoadTypeOK, Queued \in Nat
  PROVE  /\ Waiting \in Nat /\ Left \in Nat /\ Rest[state] \in 0 .. 7
         /\ Waiting = Queued + One(Asking)
         /\ Left = 7 * Waiting + IF state = "idle" /\ ~c_req /\ Queued > 0 THEN 1 ELSE Rest[state]
         /\ ~AllStored => Left > 0
<1>1. Rest[state] \in 0 .. 7 /\ (Serving => Rest[state] > 0)
  BY DEF LoadTypeOK, States, Rest, Serving
<1>2. Waiting = Queued + One(Asking) /\ One(Asking) \in {0, 1}
  BY DEF Waiting, One
<1>3. Waiting \in Nat
  BY <1>2
<1>4. Left = 7 * Waiting + IF state = "idle" /\ ~c_req /\ Queued > 0 THEN 1 ELSE Rest[state]
  BY DEF Left
<1>5. Left \in Nat
  BY <1>1, <1>3, <1>4
<1>6. ~AllStored => Left > 0
  <2>1. CASE Waiting # 0
    BY <1>1, <1>3, <1>4, <2>1
  <2>2. CASE Serving
    BY <1>1, <1>3, <1>4, <2>2 DEF Serving
  <2> QED BY <2>1, <2>2 DEF AllStored
<1> QED
  BY <1>1, <1>2, <1>3, <1>4, <1>5, <1>6

(* A clock brings everything one closer, but for a push and a refresh.      *)
LEMMA WaitingMoves ==
  ASSUME LoadTypeOK, Strobes, FifoHolds, Byte \/ Wait, Pushes => Queued < Depth
  PROVE  /\ Waiting' = Waiting + One(Pushes) - One(state' = "arb")
         /\ Queued \in Nat /\ Queued' \in Nat
<1>1. Clocked /\ Fifo /\ Controller
  BY DEF Byte, Wait, Clocked
<1>2. /\ Queued \in Nat /\ Queued' \in Nat /\ Queued' = Queued + One(Pushes) - One(Pops)
      /\ Pops <=> ~c_req /\ Queued > 0
  <2>1. /\ Queued \in 0 .. Depth /\ Queued' \in 0 .. Depth
        /\ Queued' = Queued + One(Pushes) - One(Pops)
        /\ Pops <=> ~c_req /\ Queued > 0
    BY <1>1, QueueMoves
  <2> QED BY <2>1, LoadAssumption
<1>3. Waiting = Queued + One(Asking) /\ Waiting' = Queued' + One(Asking')
  BY DEF Waiting, One
<1>4. /\ One(Asking) \in {0, 1} /\ One(Asking') \in {0, 1} /\ One(Pushes) \in {0, 1}
      /\ One(Pops) \in {0, 1} /\ One(state' = "arb") \in {0, 1}
  BY DEF One
<1>5. One(Asking') = One(Asking) + One(Pops) - One(state' = "arb")
  <2>1. CASE Pops
    <3>1. ~Asking /\ Asking' /\ state' # "arb"
      BY <1>1, <1>2, <2>1, ControllerMoves, StateBefore DEF Asking
    <3> QED BY <2>1, <3>1 DEF One
  <2>2. CASE ~Pops /\ state' = "arb"
    <3>1. Asking /\ ~Asking'
      BY <1>1, <2>2, StateBefore DEF Asking, Serving
    <3> QED BY <2>2, <3>1 DEF One
  <2>3. CASE ~Pops /\ state' # "arb"
    <3>1. Asking => Asking'
      <4>1. Asking => c_req' /\ state \notin {"arb", "open1", "open2"}
        BY <1>1, <2>3 DEF Asking, Serving, Fifo, Strobes
      <4> QED BY <1>1, <2>3, <4>1, StateBefore DEF Asking, Serving
    <3>2. Asking' => Asking
      <4>1. Asking' => c_req /\ state # "wait3" /\ state' \notin {"open1", "open2", "wait3"}
        BY <1>1, <2>3 DEF Asking, Serving, Fifo, Strobes
      <4> QED BY <1>1, <2>3, <4>1, StateBefore DEF Asking, Serving
    <3> QED BY <2>3, <3>1, <3>2 DEF One
  <2> QED BY <2>1, <2>2, <2>3
<1> QED
  BY <1>2, <1>3, <1>4, <1>5

LEMMA LeftMoves ==
  ASSUME LoadTypeOK, LoadTypeOK', Strobes, Strobes', FifoHolds, Byte \/ Wait, Pushes => Queued < Depth
  PROVE  /\ state' # "ref6" => Left' <= Left - 1 + 7 * One(Pushes) \/ Left' <= 8 * One(Pushes)
         /\ state' = "ref6" => Left' <= Left + 7 + 7 * One(Pushes)
         /\ Left \in Nat /\ Left' \in Nat
<1>1. Clocked /\ Fifo /\ Controller
  BY DEF Byte, Wait, Clocked
<1>2. /\ Waiting' = Waiting + One(Pushes) - One(state' = "arb")
      /\ Queued \in Nat /\ Queued' \in Nat
  BY WaitingMoves
<1>3. /\ Waiting \in Nat /\ Left \in Nat /\ Rest[state] \in 0 .. 7
      /\ Left = 7 * Waiting + IF state = "idle" /\ ~c_req /\ Queued > 0 THEN 1 ELSE Rest[state]
      /\ Waiting = Queued + One(Asking)
  BY <1>2, LeftIs
<1>4. /\ Waiting' \in Nat /\ Left' \in Nat /\ Rest[state'] \in 0 .. 7
      /\ Left' = 7 * Waiting' + IF state' = "idle" /\ ~c_req' /\ Queued' > 0 THEN 1 ELSE Rest[state']
  <2>1. Rest[state'] \in 0 .. 7
    BY DEF LoadTypeOK, States, Rest
  <2>2. Waiting' = Queued' + One(Asking') /\ One(Asking') \in {0, 1}
    BY DEF Waiting, One
  <2>3. Left' = 7 * Waiting' + IF state' = "idle" /\ ~c_req' /\ Queued' > 0 THEN 1 ELSE Rest[state']
    BY DEF Left
  <2>4. Waiting' \in Nat
    BY <1>2, <2>2
  <2>5. Left' \in Nat
    BY <2>1, <2>3, <2>4
  <2> QED BY <2>1, <2>3, <2>4, <2>5
<1>5. One(Pushes) \in {0, 1} /\ One(Asking) \in {0, 1}
  BY DEF One
<1>6. CASE state' = "ref6"
  <2>1. One(state' = "arb") = 0 /\ Rest[state'] = 7
    BY <1>6 DEF One, Rest
  <2> QED BY <1>2, <1>3, <1>4, <1>5, <1>6, <2>1
<1>7. CASE state = "idle" /\ state' # "ref6"
  <2>1. CASE state' = "arb"
    <3>1. One(state' = "arb") = 1 /\ Rest[state'] = 6 /\ c_req
      BY <1>1, <2>1, StateBefore DEF One, Rest
    <3>2. Rest[state] = 0
      BY <1>7 DEF Rest
    <3> QED BY <1>2, <1>3, <1>4, <1>5, <1>7, <2>1, <3>1, <3>2
  <2>2. CASE state' # "arb"
    <3>1. state' = "idle" /\ ~(c_req /\ ~c_ack)
      BY <1>1, <1>7, <2>2, NextState
    <3>2. ~c_req
      BY <1>7, <3>1 DEF Strobes
    <3>3. One(state' = "arb") = 0 /\ Rest[state] = 0 /\ Rest[state'] = 0
      BY <1>7, <3>1 DEF One, Rest
    <3>4. CASE Queued > 0
      <4>1. c_req'
        BY <1>1, <3>2, <3>4, QueueMoves, ControllerMoves DEF Fifo
      <4>2. Left = 7 * Waiting + 1 /\ Left' = 7 * Waiting' + 0
        BY <1>3, <1>4, <1>7, <3>1, <3>2, <3>3, <3>4, <4>1
      <4>3. Waiting' = Waiting + One(Pushes)
        BY <1>2, <1>3, <1>5, <3>3
      <4> QED BY <1>3, <1>5, <1>7, <4>2, <4>3
    <3>5. CASE Queued = 0
      <4>1. Waiting = 0
        BY <1>3, <3>2, <3>5 DEF One, Asking
      <4>2. Waiting' = One(Pushes)
        BY <1>2, <1>5, <3>3, <4>1
      <4>3. Queued' <= Waiting'
        <5>1. Waiting' = Queued' + One(Asking') /\ One(Asking') \in {0, 1}
          BY DEF Waiting, One
        <5>2. Queued' \in Nat
          BY <1>2
        <5>3. \A q \in Nat, n \in {0, 1} : q <= q + n
          OBVIOUS
        <5> QED BY <5>1, <5>2, <5>3, Zenon
      <4>4. Left' = 7 * Waiting' + (IF ~c_req' /\ Queued' > 0 THEN 1 ELSE 0)
        BY <1>4, <3>1, <3>3
      <4>5. Queued' \in Nat /\ One(Pushes) \in {0, 1}
        BY <1>2, <1>5
      <4>6. Left' <= 8 * One(Pushes)
        <5>1. CASE One(Pushes) = 0
          <6>1. Queued' = 0
            BY <4>2, <4>3, <4>5, <5>1
          <6>2. Left' = 7 * Waiting' /\ Waiting' = 0
            BY <4>2, <4>4, <5>1, <6>1
          <6>3. Left' = 0 /\ 8 * One(Pushes) = 0
            BY <5>1, <6>2
          <6> QED BY <6>3
        <5>2. CASE One(Pushes) = 1
          <6>1. Left' <= 7 * Waiting' + 1 /\ Waiting' = 1
            BY <1>4, <4>2, <4>4, <5>2
          <6>2. Left' <= 8 /\ 8 * One(Pushes) = 8
            BY <5>2, <6>1
          <6> QED BY <6>2
        <5> QED BY <4>5, <5>1, <5>2
      <4> QED BY <1>3, <1>4, <1>7, <4>6
    <3> QED BY <1>2, <3>4, <3>5
  <2> QED BY <2>1, <2>2
<1>8. CASE state # "idle"
  <2>1. Rest[state'] = Rest[state] - 1 /\ state' # "arb"
    BY <1>1, <1>8, NextState DEF LoadTypeOK, States, Rest
  <2>2. One(state' = "arb") = 0
    BY <2>1 DEF One
  <2>3. Left = 7 * Waiting + Rest[state]
    BY <1>3, <1>8
  <2>4. CASE state' = "idle" /\ ~c_req' /\ Queued' > 0
    <3>1. Waiting = 0
      <4>1. ~Pops /\ ~c_req
        <5>1. state # "wait3"
          BY <1>1, <2>4, StateBefore
        <5> QED BY <1>1, <2>4, <5>1 DEF Fifo, Strobes
      <4>2. Queued = 0
        BY <1>1, <1>2, <4>1, QueueMoves
      <4> QED BY <1>3, <4>1, <4>2 DEF One, Asking
    <3>2. Rest[state] = 1
      BY <2>1, <2>4 DEF Rest
    <3>3. Waiting' = One(Pushes) /\ One(Pushes) = 1
      <4>1. Waiting' = One(Pushes)
        BY <1>2, <1>5, <2>2, <3>1
      <4>2. Waiting' = Queued' + One(Asking') /\ One(Asking') \in {0, 1}
        BY DEF Waiting, One
      <4> QED BY <1>2, <1>5, <2>4, <4>1, <4>2
    <3>4. Left' = 8
      BY <1>4, <2>4, <3>3
    <3> QED BY <1>3, <1>8, <2>4, <3>3, <3>4
  <2>5. CASE ~(state' = "idle" /\ ~c_req' /\ Queued' > 0)
    <3>1. Left' = 7 * Waiting' + Rest[state']
      BY <1>4, <2>5
    <3>2. state' # "ref6"
      BY <1>1, <1>8, StateBefore
    <3>3. Waiting' = Waiting + One(Pushes)
      BY <1>2, <1>3, <1>5, <2>2
    <3> QED BY <1>3, <1>4, <1>5, <2>1, <2>3, <3>1, <3>2, <3>3
  <2> QED BY <2>4, <2>5
<1> QED
  BY <1>6, <1>7, <1>8

-----------------------------------------------------------------------------
(* The FIFO has room: at a push at most one byte still waits.               *)
LEMMA RoomToPush ==
  ASSUME FifoSuffices, LoadTypeOK, Strobes, FifoHolds, KeepsPace
  PROVE  /\ Pushes => Queued < Depth
         /\ Queued \in Nat
<1>1. Queued \in Nat
  <2>1. wf_wp \in 0 .. 2 * Depth - 1 /\ wf_rp \in 0 .. 2 * Depth - 1 /\ Depth \in Nat
    BY LoadAssumption DEF LoadTypeOK
  <2> QED BY <2>1 DEF Queued
<1>2. /\ Waiting \in Nat /\ Left \in Nat /\ Rest[state] \in 0 .. 7
      /\ Left = 7 * Waiting + IF state = "idle" /\ ~c_req /\ Queued > 0 THEN 1 ELSE Rest[state]
      /\ Waiting = Queued + One(Asking)
  BY <1>1, LeftIs
<1>3. ASSUME Pushes PROVE Queued < Depth
  <2>1. stage = "download" /\ clk = 0
    BY <1>3, PulseFacts DEF Pushes
  <2>2. Behind = Left - 1
    BY <1>2, <2>1 DEF Behind
  <2>3. Left <= 9
    BY <1>2, <2>1, <2>2 DEF KeepsPace
  <2>4. 7 * Waiting <= Left
    BY <1>2
  <2>5. Waiting <= 1
    BY <1>2, <2>3, <2>4
  <2>6. One(Asking) \in {0, 1}
    BY DEF One
  <2>7. Depth \in Nat /\ Depth >= 2
    BY LoadAssumption DEF FifoSuffices
  <2> QED BY <1>1, <1>2, <2>5, <2>6, <2>7
<1> QED
  BY <1>1, <1>3

LEMMA BenchClock ==
  ASSUME LoadTypeOK, Strobes, Byte
  PROVE  /\ stage = "download" /\ byte \in Nat /\ byte < Zram /\ clk \in 0 .. 7
         /\ clk = 7 => clk' = 0 /\ byte' = byte + 1
                       /\ stage' = IF byte' = Zram THEN "drain" ELSE "download"
         /\ clk # 7 => clk' = clk + 1 /\ byte' = byte /\ stage' = "download"
<1>1. stage = "download" /\ byte \in Nat /\ byte < Zram /\ clk \in 0 .. 7
  BY DEF Byte, Strobes, LoadTypeOK, Period
<1>2. byte # Zram
  BY <1>1, LoadAssumption
<1>3. clk = 7 => clk' = 0
  BY DEF Byte, Period
<1>4. clk # 7 => clk' = clk + 1
  BY <1>1 DEF Byte, Period
<1>5. clk = 7 => byte' = byte + 1 /\ stage' = IF byte' = Zram THEN "drain" ELSE "download"
  BY <1>1 DEF Byte, Period
<1>6. clk # 7 => byte' = byte /\ stage' = "download"
  BY <1>1, <1>2 DEF Byte, Period
<1> QED
  BY <1>1, <1>3, <1>4, <1>5, <1>6

LEMMA TypeStep ==
  ASSUME LoadTypeOK, Strobes, FifoHolds, StoredRight, Byte \/ Wait, Pushes => Queued < Depth
  PROVE  LoadTypeOK' /\ Strobes'
<1>1. Clocked /\ Fifo /\ Controller /\ sav' = sav
  BY DEF Byte, Wait, Clocked
<1>2. state' \in States /\ c_req' \in BOOLEAN
  BY <1>1, NextState, ControllerMoves
<1>3. wf_wp' \in 0 .. 2 * Depth - 1 /\ wf_rp' \in 0 .. 2 * Depth - 1
  BY <1>1, QueueMoves
<1>4. /\ DOMAIN wfifo' = 0 .. Depth - 1 /\ DOMAIN jsa' = 0 .. Jsa - Sim - 1
      /\ DOMAIN words' = (0 .. Sim \div 2 - 1) \X {"high", "low"}
      /\ DOMAIN zram' = ZWords \X {"high", "low"}
  BY FifoMoves, DirectKept, WordsKept, ZramKept
<1>5. since' \in Nat
  <2>1. since \in Nat /\ since' \in {0, since + 1}
    BY <1>1 DEF Controller, LoadTypeOK
  <2> QED BY <2>1
<1>6. stage' \in {"download", "drain", "save", "run"} /\ byte' \in Nat /\ clk' \in Nat
  <2>1. CASE Byte
    BY <2>1, BenchClock
  <2>2. CASE Wait
    <3>1. stage = "drain" /\ clk \in Nat /\ byte \in Nat
      BY <2>2 DEF Wait, LoadTypeOK
    <3>2. /\ clk' \in {clk + 1, 0} /\ byte' \in {byte, 0}
          /\ stage' \in {stage, "run", "save"}
      BY <2>2 DEF Wait
    <3> QED BY <3>1, <3>2
  <2> QED BY <2>1, <2>2
<1>7. sav' \in Saves
  BY <1>1 DEF LoadTypeOK
<1>8. dl_we_d' = dl_we
  BY <1>1 DEF Fifo
<1>9. stage' = "download" => byte' < Zram /\ clk' < Period /\ (dl_we_d' <=> clk' \in {1, 2})
  <2>1. CASE Byte
    <3>1. dl_we <=> clk \in {0, 1}
      BY <2>1, BenchClock DEF dl_we
    <3>2. clk' \in {1, 2} <=> clk \in {0, 1}
      BY <2>1, BenchClock
    <3>3. stage' = "download" => byte' < Zram
      BY <2>1, BenchClock, LoadAssumption
    <3>4. clk' < Period
      BY <2>1, BenchClock DEF Period
    <3> QED BY <1>8, <3>1, <3>2, <3>3, <3>4
  <2>2. CASE Wait
    BY <2>2 DEF Wait
  <2> QED BY <2>1, <2>2
<1>10. stage' # "download" => ~dl_we_d'
  <2>1. CASE Byte
    <3>1. stage' # "download" => clk = 7
      BY <2>1, BenchClock
    <3>2. clk = 7 => ~dl_we
      BY DEF dl_we
    <3> QED BY <1>8, <3>1, <3>2
  <2>2. CASE Wait
    <3>1. ~dl_we
      BY <2>2 DEF Wait, dl_we
    <3> QED BY <1>8, <3>1
  <2> QED BY <2>1, <2>2
<1>11. /\ c_ack' <=> state' = "wait3"
       /\ Serving' \/ state' = "wait3" => c_req'
       /\ state' = "wait2" => ~c_req'
  BY <1>1, ControllerMoves
<1> QED
  BY <1>2, <1>3, <1>4, <1>5, <1>6, <1>7, <1>9, <1>10, <1>11 DEF LoadTypeOK, Strobes

-----------------------------------------------------------------------------
(* How far behind the controller is, from one clock to the next; age: the   *)
(* clocks since the last strobe.                                            *)
LEMMA Gains ==
  ASSUME NEW left \in Nat, NEW left2 \in Nat, NEW age \in 1 .. 8, NEW age2 \in 1 .. 8,
         NEW push \in {0, 1}, NEW gap \in Nat,
         age = 8 => age2 = 1, age # 8 => age2 = age + 1 /\ push = 0,
         left + age - 9 <= 0 \/ 8 * (left + age - 9) <= 64 + age - gap
  PROVE  /\ left + age - 9 <= 8 /\ (left2 <= left - 1 + 7 * push \/ left2 <= 8 * push) =>
            /\ left2 + age2 - 9 <= 8
            /\ left2 + age2 - 9 <= 0 \/ 8 * (left2 + age2 - 9) <= 64 + age2 - (gap + 1)
         /\ gap >= 64 /\ left2 <= left + 7 + 7 * push =>
            /\ left2 + age2 - 9 <= 8
            /\ left2 + age2 - 9 <= 0 \/ 8 * (left2 + age2 - 9) <= 64 + age2 - 0
OBVIOUS

Age == IF clk = 0 THEN Period ELSE clk

LEMMA PaceStep ==
  ASSUME FifoSuffices, LoadTypeOK, Strobes, FifoHolds, StoredRight, KeepsPace, Byte, stage' = "download"
  PROVE  KeepsPace'
<1>1. (Pushes => Queued < Depth) /\ Queued \in Nat
  BY RoomToPush
<1>2. LoadTypeOK' /\ Strobes'
  BY <1>1, TypeStep
<1>3. /\ state' # "ref6" => Left' <= Left - 1 + 7 * One(Pushes) \/ Left' <= 8 * One(Pushes)
      /\ state' = "ref6" => Left' <= Left + 7 + 7 * One(Pushes)
      /\ Left \in Nat /\ Left' \in Nat
  BY <1>1, <1>2, LeftMoves
<1>4. clk \in 0 .. 7 /\ clk' \in 0 .. 7 /\ clk' = IF clk = 7 THEN 0 ELSE clk + 1
  BY BenchClock
<1>5. /\ Age \in 1 .. 8 /\ Age' \in 1 .. 8
      /\ Age = 8 => Age' = 1
      /\ Age # 8 => Age' = Age + 1
  BY <1>4 DEF Age, Period
<1>6. Age # 8 => ~Pushes
  BY <1>4, PulseFacts DEF Age, Period, Pushes
<1>7. One(Pushes) \in {0, 1} /\ (Age # 8 => One(Pushes) = 0)
  BY <1>6 DEF One
<1>8. Behind = Left + Age - 9 /\ Behind' = Left' + Age' - 9
  <2>1. Behind = Left - (IF clk = 0 THEN 0 ELSE 8 - clk) - 1
    BY DEF Behind, Period
  <2>2. Behind' = Left' - (IF clk' = 0 THEN 0 ELSE 8 - clk') - 1
    BY DEF Behind, Period
  <2>3. Age = (IF clk = 0 THEN 8 ELSE clk) /\ Age' = (IF clk' = 0 THEN 8 ELSE clk')
    BY DEF Age, Period
  <2>4. Behind = Left + Age - 9
    BY <1>3, <1>4, <2>1, <2>3
  <2>5. Behind' = Left' + Age' - 9
    BY <1>3, <1>4, <2>2, <2>3
  <2> QED BY <2>4, <2>5
<1>9. /\ Behind <= 8
      /\ Behind <= 0 \/ 8 * Behind <= 64 + Age - since
  BY BenchClock DEF KeepsPace, Age
<1>10. since \in Nat /\ Interval \in Nat /\ Interval >= 64
  BY LoadAssumption DEF LoadTypeOK, FifoSuffices
<1> DEFINE l == Left
<1> DEFINE m == Left'
<1> DEFINE a == Age
<1> DEFINE b == Age'
<1> DEFINE p == One(Pushes)
<1>11. /\ l + a - 9 <= 8 /\ (m <= l - 1 + 7 * p \/ m <= 8 * p) =>
            /\ m + b - 9 <= 8
            /\ m + b - 9 <= 0 \/ 8 * (m + b - 9) <= 64 + b - (since + 1)
       /\ since >= 64 /\ m <= l + 7 + 7 * p =>
            /\ m + b - 9 <= 8
            /\ m + b - 9 <= 0 \/ 8 * (m + b - 9) <= 64 + b - 0
  <2>1. /\ l \in Nat /\ m \in Nat /\ a \in 1 .. 8 /\ b \in 1 .. 8 /\ p \in {0, 1} /\ since \in Nat
        /\ (a = 8 => b = 1) /\ (a # 8 => b = a + 1 /\ p = 0)
        /\ (l + a - 9 <= 0 \/ 8 * (l + a - 9) <= 64 + a - since)
    BY <1>3, <1>5, <1>7, <1>8, <1>9, <1>10
  <2> HIDE DEF l, m, a, b, p
  <2> QED BY <2>1, Gains
<1>12. Controller
  BY DEF Byte, Clocked
<1>13. CASE state' # "ref6"
  <2>1. since' = since + 1
    BY <1>12, <1>13 DEF Controller
  <2> QED
    BY <1>3, <1>8, <1>9, <1>11, <1>13, <2>1 DEF KeepsPace, Age
<1>14. CASE state' = "ref6"
  <2>1. since' = 0
    BY <1>12, <1>14 DEF Controller
  <2>2. since >= 64
    BY <1>10, <1>12, <1>14, StateBefore
  <2> QED
    BY <1>3, <1>8, <1>11, <1>14, <2>1, <2>2 DEF KeepsPace, Age
<1> QED
  BY <1>13, <1>14

(* Once nothing is pushed any more the FIFO empties, and stays empty.       *)
LEMMA StaysEmpty ==
  ASSUME LoadTypeOK, Strobes, FifoHolds, Byte \/ Wait, ~Pushes, AllStored
  PROVE  AllStored'
<1>1. /\ Waiting' = Waiting + One(Pushes) - One(state' = "arb")
      /\ Queued \in Nat /\ Queued' \in Nat
  BY WaitingMoves
<1>2. Waiting = 0 /\ ~Serving
  BY DEF AllStored
<1>3. One(Pushes) = 0
  BY DEF One
<1>4. state' # "arb" /\ Waiting' = 0
  <2>1. Waiting' = Queued' + One(Asking') /\ One(Asking') \in {0, 1}
    BY DEF Waiting, One
  <2>2. \A w \in Int, q \in Nat, n \in {0, 1} : w = q + n => w >= 0
    OBVIOUS
  <2>3. One(state' = "arb") \in {0, 1}
    BY DEF One
  <2>4. Waiting' = 0 - One(state' = "arb")
    BY <1>1, <1>2, <1>3, <2>3
  <2>5. Waiting' \in Int /\ Waiting' >= 0
    BY <1>1, <2>1, <2>2, <2>3, <2>4
  <2>6. One(state' = "arb") = 0
    BY <2>3, <2>4, <2>5
  <2>7. state' # "arb"
    BY <2>6 DEF One
  <2> QED BY <2>4, <2>6, <2>7
<1>5. Controller
  BY DEF Byte, Wait, Clocked
<1>6. ~Serving'
  BY <1>2, <1>4, <1>5, StateBefore DEF Serving
<1> QED
  BY <1>4, <1>6 DEF AllStored

LEMMA ElapsedMoves ==
  ASSUME LoadTypeOK, Strobes, Byte \/ (Wait /\ stage' = "drain")
  PROVE  /\ Elapsed \in Int /\ Elapsed' = Elapsed + 1
         /\ Elapsed >= 0 => ~Pushes
         /\ Elapsed = -1 => stage' = "download" /\ byte' = Sim /\ clk' = 0
<1>1. byte \in Nat /\ clk \in Nat /\ Sim \in Nat /\ Zram \in Nat /\ Sim < Zram
  BY LoadAssumption DEF LoadTypeOK
<1>2. CASE Byte
  <2>1. Elapsed = clk + 8 * (byte - Sim) /\ clk \in 0 .. 7 /\ stage = "download" /\ byte < Zram
    BY <1>2, BenchClock DEF Elapsed, Period
  <2>2. Elapsed' = clk' + 8 * ((IF stage' = "download" THEN byte' ELSE Zram) - Sim)
    BY DEF Elapsed, Period
  <2>3. CASE clk = 7
    <3>1. clk' = 0 /\ byte' = byte + 1 /\ stage' = IF byte' = Zram THEN "drain" ELSE "download"
      BY <1>2, <2>3, BenchClock
    <3>2. Elapsed' = 8 * (byte + 1 - Sim)
      BY <1>1, <2>2, <3>1
    <3>3. Elapsed = 7 + 8 * (byte - Sim)
      BY <2>1, <2>3
    <3>4. Elapsed >= 0 => byte >= Sim
      BY <1>1, <3>3
    <3>5. Elapsed = -1 => byte + 1 = Sim
      BY <1>1, <3>3
    <3> QED BY <1>1, <3>1, <3>2, <3>3, <3>4, <3>5 DEF Pushes
  <2>4. CASE clk # 7
    <3>1. clk' = clk + 1 /\ byte' = byte /\ stage' = "download"
      BY <1>2, <2>4, BenchClock
    <3>2. Elapsed' = clk + 1 + 8 * (byte - Sim)
      BY <2>2, <3>1
    <3>3. Elapsed >= 0 => byte >= Sim
      BY <1>1, <2>1
    <3>4. Elapsed # -1
      BY <1>1, <2>1, <2>4
    <3> QED BY <1>1, <2>1, <3>2, <3>3, <3>4 DEF Pushes
  <2> QED BY <2>3, <2>4
<1>3. CASE Wait /\ stage' = "drain"
  <2>1. stage = "drain" /\ clk' = clk + 1
    BY <1>3 DEF Wait
  <2>2. Elapsed = clk + 8 * (Zram - Sim) /\ Elapsed' = clk + 1 + 8 * (Zram - Sim)
    BY <1>3, <2>1 DEF Elapsed, Period
  <2>3. ~Pushes
    BY <2>1 DEF Pushes, dl_pulse, dl_we
  <2>4. Elapsed >= 0
    BY <1>1, <2>2
  <2> QED BY <1>1, <2>2, <2>3, <2>4
<1> QED
  BY <1>2, <1>3

LEMMA EmptiesStep ==
  ASSUME FifoSuffices, LoadTypeOK, Strobes, FifoHolds, StoredRight, KeepsPace, Empties,
         Byte \/ Wait
  PROVE  Empties'
<1>1. (Pushes => Queued < Depth) /\ Queued \in Nat
  BY RoomToPush
<1>2. LoadTypeOK' /\ Strobes'
  BY <1>1, TypeStep
<1>3. /\ state' # "ref6" => Left' <= Left - 1 + 7 * One(Pushes) \/ Left' <= 8 * One(Pushes)
      /\ state' = "ref6" => Left' <= Left + 7 + 7 * One(Pushes)
      /\ Left \in Nat /\ Left' \in Nat
  BY <1>1, <1>2, LeftMoves
<1>4. ~AllStored => Left > 0
  BY <1>1, LeftIs
<1>5. Left' <= 0 => AllStored'
  <2>1. Queued' \in Nat
    BY <1>1, WaitingMoves
  <2>2. Waiting' = Queued' + One(Asking') /\ One(Asking') \in {0, 1}
    BY DEF Waiting, One
  <2>3. Left' = 7 * Waiting' + (IF state' = "idle" /\ ~c_req' /\ Queued' > 0 THEN 1 ELSE Rest[state'])
    BY DEF Left
  <2>4. Rest[state'] \in 0 .. 7 /\ (Serving' => Rest[state'] > 0 /\ state' # "idle")
    BY <1>2 DEF LoadTypeOK, States, Rest, Serving
  <2>5. \A q \in Nat, n \in {0, 1}, w, e, l \in Int :
           w = q + n /\ e >= 0 /\ l = 7 * w + e /\ l <= 0 => w = 0 /\ e = 0
    OBVIOUS
  <2> DEFINE extra == IF state' = "idle" /\ ~c_req' /\ Queued' > 0 THEN 1 ELSE Rest[state']
  <2>6. extra \in Int /\ extra >= 0 /\ (Serving' => extra > 0)
    BY <2>4
  <2>7. Waiting' \in Int
    BY <2>1, <2>2
  <2>8. Left' = 7 * Waiting' + extra
    BY <2>3
  <2> HIDE DEF extra
  <2>9. Left' <= 0 => Waiting' = 0 /\ extra = 0
    BY <1>3, <2>1, <2>2, <2>5, <2>6, <2>7, <2>8
  <2> QED BY <2>6, <2>9 DEF AllStored
<1>6. Controller /\ since \in Nat /\ Interval \in Nat /\ Interval >= 64
  BY LoadAssumption DEF Byte, Wait, Clocked, LoadTypeOK, FifoSuffices
<1>7. /\ state' = "ref6" => since' = 0 /\ since >= 64
      /\ state' # "ref6" => since' = since + 1
  <2>1. state' = "ref6" => since >= Interval
    BY <1>6, StateBefore
  <2>2. since' = IF state' = "ref6" THEN 0 ELSE since + 1
    BY <1>6 DEF Controller
  <2>3. since >= Interval => since >= 64
    BY <1>6
  <2> QED BY <2>1, <2>2, <2>3
(* The drain is longer than it takes.                                       *)
<1>8. ASSUME Wait, stage' # "drain" PROVE AllStored'
  <2>1. stage = "drain" /\ clk \in Nat /\ clk >= 0
    BY <1>8 DEF Wait, LoadTypeOK
  <2>2. Elapsed = clk + 8 * (Zram - Sim)
    BY <2>1 DEF Elapsed, Period
  <2>3. Zram - Sim >= 4
    <3>1. ZBank \in Nat \ {0} /\ Zram - Jsa = 2 * ZBank /\ (Zram - Jsa) % 4 = 0
      BY ZramSize, LoadAssumption
    <3>2. Zram - Jsa >= 4 /\ Sim <= Jsa /\ Sim \in Nat /\ Jsa \in Nat /\ Zram \in Nat
      BY <3>1, ZramSize
    <3> QED BY <3>2
  <2>4. Elapsed \in Int /\ Elapsed >= 32
    BY <2>1, <2>2, <2>3, LoadAssumption
  <2>5. AllStored
    BY <1>3, <2>1, <2>4 DEF Empties
  <2>6. ~Pushes
    BY <2>1 DEF Pushes, dl_pulse, dl_we
  <2> QED BY <1>8, <2>5, <2>6, StaysEmpty
<1>9. ASSUME Byte \/ (Wait /\ stage' = "drain"), Elapsed' >= 0
      PROVE  AllStored' \/ Left' <= 9 - Elapsed' \/ (Left' <= 17 - Elapsed' /\ since' < Elapsed')
  <2>1. Elapsed \in Int /\ Elapsed' = Elapsed + 1
    BY <1>9, ElapsedMoves
  <2>2. CASE Elapsed = -1
    <3>1. stage' = "download" /\ clk' = 0
      BY <1>9, <2>2, ElapsedMoves
    <3>2. Byte
      BY <1>9, <3>1 DEF Wait
    <3>3. KeepsPace'
      BY <3>1, <3>2, PaceStep
    <3>4. Behind' = Left' - 1
      BY <1>3, <3>1 DEF Behind
    <3>5. Behind' <= 8
      BY <3>1, <3>3 DEF KeepsPace
    <3>6. Left' \in Nat
      BY <1>3
    <3>7. \A l \in Nat : l - 1 <= 8 => l <= 9
      OBVIOUS
    <3>8. Left' <= 9
      <4>1. Left' - 1 <= 8
        BY <3>4, <3>5
      <4> QED BY <3>6, <3>7, <4>1
    <3> QED BY <1>3, <2>1, <2>2, <3>8
  <2>3. CASE Elapsed >= 0
    <3>1. ~Pushes /\ stage \in {"download", "drain"}
      BY <1>9, <2>3, ElapsedMoves DEF Byte, Wait
    <3>2. One(Pushes) = 0
      BY <3>1 DEF One
    <3>3. \/ AllStored
          \/ Left <= 9 - Elapsed
          \/ Left <= 17 - Elapsed /\ since < Elapsed
      BY <2>3, <3>1 DEF Empties
    <3>4. AllStored => AllStored'
      BY <3>1, StaysEmpty
    <3>5. CASE state' # "ref6"
      <4>1. Left' <= Left - 1 \/ Left' <= 0
        BY <1>3, <3>2, <3>5
      <4>2. since' = since + 1
        BY <1>7, <3>5
      <4> QED BY <1>3, <1>5, <1>6, <2>1, <3>3, <3>4, <4>1, <4>2
    <3>6. CASE state' = "ref6"
      <4>1. Left' <= Left + 7 /\ since' = 0 /\ since >= 64
        BY <1>3, <1>7, <3>2, <3>6
      <4>2. CASE AllStored
        BY <3>4, <4>2
      <4>3. CASE Left <= 9 - Elapsed
        BY <1>3, <2>1, <2>3, <4>1, <4>3
      <4>4. CASE Left <= 17 - Elapsed /\ since < Elapsed
        BY <1>3, <1>6, <2>1, <2>3, <4>1, <4>4
      <4> QED BY <3>3, <4>2, <4>3, <4>4
    <3> QED BY <3>5, <3>6
  <2> QED BY <1>9, <2>1, <2>2, <2>3
<1>10. Byte => stage' \in {"download", "drain"}
  BY BenchClock
<1> QED
  BY <1>8, <1>9, <1>10 DEF Empties

LEMMA SaveStep ==
  ASSUME LoadInv, Save
  PROVE  LoadInv'
<1>1. LoadTypeOK /\ Strobes /\ FifoHolds /\ StoredRight /\ Empties
  BY DEF LoadInv
<1>2. /\ stage = "save" /\ stage' \in {"save", "run"} /\ byte' = byte + 1 /\ clk' = clk
      /\ sav' = sav /\ jsa' = jsa /\ words' = words
  BY DEF Save, sdram
<1>3. /\ dl_we_d' = dl_we_d /\ wfifo' = wfifo /\ wf_wp' = wf_wp /\ wf_rp' = wf_rp
      /\ c_req' = c_req /\ c_cmd' = c_cmd /\ c_ack' = c_ack /\ state' = state
      /\ cmd' = cmd /\ since' = since
  BY DEF Save, fifo, sdram
<1>4. StoredRight' /\ DOMAIN zram' = ZWords \X {"high", "low"}
  BY <1>1, SaveKept
<1>5. LoadTypeOK'
  <2>1. byte' \in Nat
    BY <1>1, <1>2 DEF LoadTypeOK
  <2> QED BY <1>1, <1>2, <1>3, <1>4, <2>1 DEF LoadTypeOK
<1>6. Serving' = Serving /\ Asking' = Asking /\ Queued' = Queued /\ Waiting' = Waiting
  BY <1>3 DEF Serving, Asking, Queued, Waiting
<1>7. Sent' = Sent /\ Pushed' = Pushed /\ Popped' = Popped
  <2>1. Sent' = Sent
    BY <1>2 DEF Sent
  <2> QED BY <1>6, <2>1 DEF Pushed, Popped
<1>8. Strobes'
  BY <1>1, <1>2, <1>3, <1>6 DEF Strobes
<1>9. FifoHolds'
  BY <1>1, <1>3, <1>6, <1>7 DEF FifoHolds
<1>10. KeepsPace'
  BY <1>2 DEF KeepsPace
<1>11. Empties'
  <2>1. AllStored
    BY <1>1, <1>2 DEF Empties
  <2>2. AllStored'
    BY <1>6, <2>1 DEF AllStored
  <2> QED BY <1>2, <2>2 DEF Empties
<1> QED
  BY <1>4, <1>5, <1>8, <1>9, <1>10, <1>11 DEF LoadInv

LEMMA LoadStarts ==
  ASSUME NEW save \in Saves, NEW late \in 0 .. Interval, LoadInit(save, late)
  PROVE  LoadInv
<1>1. /\ stage = "download" /\ byte = 0 /\ clk = 0 /\ sav = save
      /\ dl_we_d = FALSE /\ wfifo = [n \in 0 .. Depth - 1 |-> <<0, Missing>>] /\ wf_wp = 0 /\ wf_rp = 0
      /\ c_req = FALSE /\ c_ack = FALSE /\ state = "idle" /\ since = late
      /\ words = [c \in (0 .. Sim \div 2 - 1) \X {"high", "low"} |-> Missing]
      /\ jsa = [b \in 0 .. Jsa - Sim - 1 |-> Missing]
      /\ zram = [c \in ZWords \X {"high", "low"} |-> Missing]
  BY DEF LoadInit
<1>2. /\ Program \in Nat /\ Sim \in Nat /\ Jsa \in Nat /\ Zram \in Nat /\ Interval \in Nat
      /\ Depth \in Nat \ {0} /\ Sim <= Jsa /\ Jsa < Zram
  BY LoadAssumption
<1>3. late \in Nat
  BY <1>2
<1>4. LoadTypeOK
  <2>1. stage \in {"download", "drain", "save", "run"} /\ state \in States
    BY <1>1 DEF States
  <2>2. byte \in Nat /\ clk \in Nat /\ since \in Nat /\ c_req \in BOOLEAN /\ sav \in Saves
    BY <1>1, <1>3
  <2>3. wf_wp \in 0 .. 2 * Depth - 1 /\ wf_rp \in 0 .. 2 * Depth - 1
    BY <1>1, <1>2
  <2>4. DOMAIN wfifo = 0 .. Depth - 1 /\ DOMAIN jsa = 0 .. Jsa - Sim - 1
    BY <1>1
  <2>5. /\ DOMAIN words = (0 .. Sim \div 2 - 1) \X {"high", "low"}
        /\ DOMAIN zram = ZWords \X {"high", "low"}
    BY <1>1
  <2> QED BY <2>1, <2>2, <2>3, <2>4, <2>5 DEF LoadTypeOK
<1>5. Strobes
  BY <1>1, <1>2 DEF Strobes, Serving, Period
<1>6. Sent = 0 /\ Pushed = 0 /\ Queued = 0 /\ Popped = 0 /\ ~Asking /\ ~Serving /\ Stored = 0
  <2>1. Sent = 0 /\ Queued = 0 /\ ~Asking /\ ~Serving
    BY <1>1 DEF Sent, Queued, Asking, Serving
  <2>2. Pushed = 0
    BY <1>2, <2>1 DEF Pushed
  <2> QED BY <2>1, <2>2 DEF Popped, Stored
<1>7. FifoHolds
  BY <1>1, <1>2, <1>6 DEF FifoHolds
<1>8. StoredRight
  <2>1. /\ \A b \in Sim .. Jsa - 1 : ~(b < Sent)
        /\ \A o \in 0 .. Zram - Jsa - 1 : ~(Jsa + o < Sent)
    BY <1>2, <1>6
  <2> QED BY <1>1, <1>6, <2>1 DEF StoredRight
<1>9. Waiting = 0 /\ Left = 0 /\ AllStored
  <2>1. Waiting = 0
    BY <1>6 DEF Waiting
  <2>2. Left = 0
    BY <1>1, <1>6, <2>1 DEF Left, Rest
  <2> QED BY <1>6, <2>1, <2>2 DEF AllStored
<1>10. KeepsPace
  <2>1. Behind = -1
    BY <1>1, <1>9 DEF Behind
  <2> QED BY <2>1 DEF KeepsPace
<1>11. Empties
  BY <1>1, <1>9 DEF Empties
<1> QED
  BY <1>4, <1>5, <1>7, <1>8, <1>10, <1>11 DEF LoadInv

LEMMA LoadStays ==
  ASSUME LoadInv, UNCHANGED loadvars
  PROVE  LoadInv'
<1>1. /\ stage' = stage /\ byte' = byte /\ clk' = clk /\ sav' = sav
      /\ dl_we_d' = dl_we_d /\ wfifo' = wfifo /\ wf_wp' = wf_wp /\ wf_rp' = wf_rp
      /\ c_req' = c_req /\ c_cmd' = c_cmd /\ c_ack' = c_ack /\ state' = state
      /\ cmd' = cmd /\ since' = since /\ words' = words /\ jsa' = jsa /\ zram' = zram
  BY DEF loadvars, benchvars, fifo, sdram
<1>2. /\ Serving' = Serving /\ Asking' = Asking /\ Queued' = Queued /\ Waiting' = Waiting
      /\ Sent' = Sent /\ Elapsed' = Elapsed /\ AllStored' = AllStored
  BY <1>1 DEF Serving, Asking, Queued, Waiting, Sent, Elapsed, AllStored
<1>3. Popped' = Popped /\ Left' = Left
  BY <1>1, <1>2 DEF Pushed, Popped, Left
<1>4. Stored' = Stored /\ Behind' = Behind
  BY <1>1, <1>2, <1>3 DEF Stored, Behind
<1>5. LoadTypeOK' /\ Strobes'
  BY <1>1, <1>2 DEF LoadInv, LoadTypeOK, Strobes
<1>6. FifoHolds'
  BY <1>1, <1>2, <1>3 DEF LoadInv, FifoHolds
<1>7. StoredRight'
  BY <1>1, <1>2, <1>4 DEF LoadInv, StoredRight
<1>8. KeepsPace' /\ Empties'
  BY <1>1, <1>2, <1>3, <1>4 DEF LoadInv, KeepsPace, Empties
<1> QED
  BY <1>5, <1>6, <1>7, <1>8 DEF LoadInv

LEMMA LoadSteps ==
  ASSUME FifoSuffices, LoadInv, [LoadNext]_loadvars
  PROVE  LoadInv'
<1>1. LoadTypeOK /\ Strobes /\ FifoHolds /\ StoredRight /\ KeepsPace /\ Empties
  BY DEF LoadInv
<1>2. CASE Byte \/ Wait
  <2>1. Pushes => Queued < Depth
    BY <1>1, RoomToPush
  <2>2. LoadTypeOK' /\ Strobes'
    BY <1>1, <1>2, <2>1, TypeStep
  <2>3. FifoHolds'
    BY <1>1, <1>2, <2>1, CommandMoves
  <2>4. StoredRight'
    BY <1>1, <1>2, <2>1, StoredStep
  <2>5. KeepsPace'
    <3>1. stage' = "download" => Byte
      BY <1>2 DEF Wait
    <3>2. stage' # "download" => KeepsPace'
      BY DEF KeepsPace
    <3> QED BY <1>1, <3>1, <3>2, PaceStep
  <2>6. Empties'
    BY <1>1, <1>2, EmptiesStep
  <2> QED BY <2>2, <2>3, <2>4, <2>5, <2>6 DEF LoadInv
<1>3. CASE Save
  BY <1>3, SaveStep
<1>4. CASE UNCHANGED loadvars
  BY <1>4, LoadStays
<1> QED
  BY <1>2, <1>3, <1>4 DEF LoadNext

LEMMA LoadedWhenRun ==
  ASSUME LoadInv
  PROVE  ImageLoaded
<1>1. LoadTypeOK /\ Strobes /\ FifoHolds /\ StoredRight /\ KeepsPace /\ Empties
  BY DEF LoadInv
<1>2. SUFFICES ASSUME stage = "run"
      PROVE  /\ \A w \in 0 .. Sim \div 2 - 1 :
                   IF 2 * w < Program THEN words[<<w, "high">>] = rom(2 * w) /\ words[<<w, "low">>] = rom(2 * w + 1)
                   ELSE words[<<w, "low">>] = rom(2 * w) /\ words[<<w, "high">>] = rom(2 * w + 1)
             /\ \A b \in DOMAIN jsa : jsa[b] = rom(Sim + b)
             /\ IF sav = <<>> THEN ZramWords
                ELSE \A w \in ZWords : /\ zram[<<w, "high">>] = sav[2 * w + 1]
                                       /\ zram[<<w, "low">>] = sav[2 * w + 2]
  BY DEF ImageLoaded
<1>3. /\ Program \in Nat /\ Sim \in Nat /\ Jsa \in Nat /\ Zram \in Nat /\ Sim <= Jsa /\ Jsa < Zram
      /\ Program % 2 = 0 /\ Sim % 2 = 0
  BY LoadAssumption
<1>4. Sent = Zram /\ Pushed = Sim
  <2>1. Sent = Zram
    BY <1>2 DEF Sent
  <2> QED BY <1>3, <2>1 DEF Pushed
<1>5. Stored = Sim
  <2>1. Waiting = 0 /\ ~Serving
    BY <1>1, <1>2 DEF Empties, AllStored
  <2>2. Queued \in Nat
    <3>1. wf_wp \in 0 .. 2 * Depth - 1 /\ wf_rp \in 0 .. 2 * Depth - 1 /\ Depth \in Nat
      BY <1>1, LoadAssumption DEF LoadTypeOK
    <3> QED BY <3>1 DEF Queued
  <2>3. Queued = 0 /\ ~Asking
    BY <2>1, <2>2 DEF Waiting
  <2> QED BY <1>3, <1>4, <2>1, <2>3 DEF Stored, Popped
<1>6. ASSUME NEW w \in 0 .. Sim \div 2 - 1
      PROVE  IF 2 * w < Program THEN words[<<w, "high">>] = rom(2 * w) /\ words[<<w, "low">>] = rom(2 * w + 1)
             ELSE words[<<w, "low">>] = rom(2 * w) /\ words[<<w, "high">>] = rom(2 * w + 1)
  <2>1. 2 * w \in 0 .. Stored - 1 /\ 2 * w + 1 \in 0 .. Stored - 1
    BY <1>3, <1>5
  <2>2. words[Cell(2 * w)] = rom(2 * w) /\ words[Cell(2 * w + 1)] = rom(2 * w + 1)
    BY <1>1, <2>1 DEF StoredRight
  <2>3. /\ (2 * w) \div 2 = w /\ (2 * w + 1) \div 2 = w
        /\ (2 * w) % 2 = 0 /\ (2 * w + 1) % 2 # 0
    BY <1>3
  <2>4. 2 * w < Program <=> 2 * w + 1 < Program
    BY <1>3
  <2>5. Lane(2 * w) = IF 2 * w < Program THEN "high" ELSE "low"
    BY <2>3 DEF Lane
  <2>6. Lane(2 * w + 1) = IF 2 * w < Program THEN "low" ELSE "high"
    BY <2>3, <2>4 DEF Lane
  <2> QED BY <2>2, <2>3, <2>5, <2>6 DEF Cell
<1>7. ASSUME NEW b \in DOMAIN jsa PROVE jsa[b] = rom(Sim + b)
  <2>1. b \in 0 .. Jsa - Sim - 1
    BY <1>1, <1>7 DEF LoadTypeOK
  <2>2. Sim + b \in Sim .. Jsa - 1 /\ Sim + b < Sent /\ (Sim + b) - Sim = b
    <3>1. Sim \in Nat /\ Jsa \in Nat /\ Zram \in Nat /\ Jsa < Zram /\ Sent = Zram
      BY <1>3, <1>4
    <3>2. \A s, j, z \in Nat : \A c \in 0 .. j - s - 1 :
             j < z => s + c \in s .. j - 1 /\ s + c < z /\ (s + c) - s = c
      OBVIOUS
    <3> QED BY <2>1, <3>1, <3>2
  <2>3. jsa[(Sim + b) - Sim] = rom(Sim + b)
    BY <1>1, <2>2 DEF StoredRight
  <2> QED BY <2>2, <2>3
<1>8. CASE sav = <<>>
  <2>1. ASSUME NEW w \in ZWords
        PROVE  zram[<<w, "high">>] = rom(Jsa + w) /\ zram[<<w, "low">>] = rom(Jsa + ZBank + w)
    <3>1. /\ ZBank \in Nat \ {0} /\ Zram - Jsa = 2 * ZBank /\ w \in 0 .. ZBank - 1
      BY ZramSize DEF ZWords
    <3>2. /\ w \in 0 .. Zram - Jsa - 1 /\ ZBank + w \in 0 .. Zram - Jsa - 1
          /\ Jsa + w < Sent /\ Jsa + (ZBank + w) < Sent /\ Jsa + (ZBank + w) = Jsa + ZBank + w
          /\ w < ZBank /\ ~(ZBank + w < ZBank) /\ (ZBank + w) - ZBank = w
      BY <1>3, <1>4, <3>1
    <3>3. zram[ZAddress(w)] = rom(Jsa + w) /\ zram[ZAddress(ZBank + w)] = rom(Jsa + (ZBank + w))
      BY <1>1, <1>8, <3>2 DEF StoredRight
    <3>4. ZAddress(w) = <<w, "high">> /\ ZAddress(ZBank + w) = <<w, "low">>
      BY <3>2, ZCells
    <3> QED BY <3>2, <3>3, <3>4
  <2> QED BY <1>6, <1>7, <1>8, <2>1 DEF ZramWords
<1>9. CASE sav # <<>>
  <2>1. ASSUME NEW w \in ZWords
        PROVE  zram[<<w, "high">>] = sav[2 * w + 1] /\ zram[<<w, "low">>] = sav[2 * w + 2]
    <3>1. /\ ZBank \in Nat \ {0} /\ Zram - Jsa = 2 * ZBank /\ w \in 0 .. ZBank - 1
      BY ZramSize DEF ZWords
    <3>2. 2 * w \in 0 .. Zram - Jsa - 1 /\ 2 * w + 1 \in 0 .. Zram - Jsa - 1 /\ (2 * w + 1) + 1 = 2 * w + 2
      BY <3>1
    <3>3. zram[SavePlace(2 * w)] = sav[2 * w + 1] /\ zram[SavePlace(2 * w + 1)] = sav[(2 * w + 1) + 1]
      BY <1>1, <1>2, <1>9, <3>2 DEF StoredRight
    <3>4. /\ (2 * w) \div 2 = w /\ (2 * w + 1) \div 2 = w
          /\ (2 * w) % 2 = 0 /\ (2 * w + 1) % 2 # 0
      BY <3>1
    <3>5. SavePlace(2 * w) = <<w, "high">> /\ SavePlace(2 * w + 1) = <<w, "low">>
      BY <3>4 DEF SavePlace
    <3> QED BY <3>2, <3>3, <3>5
  <2> QED BY <1>6, <1>7, <1>9, <2>1
<1> QED
  BY <1>8, <1>9

(* The reset is let go of with every byte in its place: none was overrun in *)
(* the FIFO that has no full flag, none is still on its way, and the save   *)
(* file has replaced the defaults, whatever the sizes of the regions, if    *)
(* the FIFO has two entries and the refreshes are 64 clocks apart.          *)
THEOREM ImageIsLoaded ==
  ASSUME FifoSuffices
  PROVE  LoadSpec => []ImageLoaded
<1>1. (\E z \in Saves, n \in 0 .. Interval : LoadInit(z, n)) => LoadInv
  BY LoadStarts
<1>2. LoadInv /\ [LoadNext]_loadvars => LoadInv'
  BY LoadSteps
<1>3. LoadInv => ImageLoaded
  BY LoadedWhenRun
<1> QED
  BY <1>1, <1>2, <1>3, PTL DEF LoadSpec
=============================================================================
