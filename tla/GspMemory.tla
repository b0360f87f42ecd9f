----------------------------- MODULE GspMemory -----------------------------
(***************************************************************************)
(* What the GSP is promised behind its memory port and its row port: one   *)
(* request at a time, carried out whole at one instant between the rise of *)
(* the request and its acknowledge.  The operations are those of the       *)
(* memory that sim/gsp/tb_gsp.cpp puts behind the core when it replays a   *)
(* recorded trace.                                                         *)
(*                                                                         *)
(* VRAM is a function from byte addresses to bytes: the even byte of a     *)
(* word is its low half.  A word is a pair <<low, high>>.                  *)
(***************************************************************************)
EXTENDS Integers

CONSTANTS Words,       \* words of VRAM (262144)
          SrtRow,      \* words of a shift-register row (256)
          ExpRow,      \* words of a row of the expander region (1024)
          PalSize,     \* entries of a palette bank (256)
          InitVram, InitWord,
          Requests     \* what the core may ask for

VARIABLES vram, lo, hi, pal, palbank, finescroll, srt_enable, srt_src, port

state == <<vram, lo, hi, pal, palbank, finescroll, srt_enable, srt_src>>
vars == <<state, port>>

NoAnswer == <<>>
Idle == [phase |-> "idle", r |-> <<>>, rdata |-> NoAnswer]
Zero == <<0, 0>>
Ones == <<255, 255>>

WordAt(v, w) == LET b == 2 * (w % Words) IN <<v[b], v[b + 1]>>
RowOf(w, n) == ((w % Words) \div n) * n
(* The row a shift-register cycle names, and how many words it has.         *)
RowBase(r) == IF r.region = "vram" THEN RowOf(r.addr, SrtRow) ELSE RowOf(4 * r.addr, ExpRow)
RowLength(r) == IF r.region = "vram" THEN SrtRow ELSE ExpRow

-----------------------------------------------------------------------------
(* A write of 16 bits to the expander colours up to eight pixels; "data" is *)
(* the set of pixels selected by the even bits of the word.                 *)
expander_write(off, data, colour) ==
    LET base == 8 * off IN
    [b \in DOMAIN vram |-> IF \E p \in data : b = (base + p) % (2 * Words)
                           THEN colour[1 + (b % 2)] ELSE vram[b]]

(* A transfer out of the shift register copies what the source row holds    *)
(* at that time, not what it held at the transfer in.                       *)
srt_write(r) ==
    LET a == RowBase(r) IN
    [b \in DOMAIN vram |-> IF b \div 2 \in a .. a + RowLength(r) - 1
                           THEN vram[(b + 2 * (Words + srt_src - a)) % (2 * Words)]
                           ELSE vram[b]]

(* A row of 8-bit pixels, copied or filled: the whole source is read before *)
(* the first pixel is written, and a transparent copy leaves zeros out.     *)
row_write(r) ==
    LET pixel(b) == IF r.fill THEN r.color[1 + (b % 2)] ELSE vram[(r.src + b - r.dst) % (2 * Words)] IN
    [b \in DOMAIN vram |-> IF b \in r.dst .. r.dst + r.len - 1 /\ ~(r.transp /\ pixel(b) = 0)
                           THEN pixel(b) ELSE vram[b]]

(* The VRAM after a request.                                                *)
After(r) ==
    CASE r.row -> row_write(r)
      [] ~r.row /\ r.we /\ r.srt /\ srt_enable -> srt_write(r)
      [] ~r.row /\ r.we /\ ~r.srt /\ r.region = "exp" -> expander_write(r.addr, r.data, lo[0])
      [] ~r.row /\ r.we /\ ~r.srt /\ r.region = "vram" ->
             [b \in DOMAIN vram |-> IF b \div 2 = r.addr % Words THEN r.data[1 + (b % 2)] ELSE vram[b]]
      [] OTHER -> vram

mem_read(r) ==
    CASE r.srt -> Zero
      [] ~r.srt /\ r.region = "vram" -> WordAt(vram, r.addr)
      [] ~r.srt /\ r.region = "exp"  -> Zero
      [] ~r.srt /\ r.region = "clo"  -> lo[r.addr]
      [] ~r.srt /\ r.region = "chi"  -> hi[r.addr]
      [] ~r.srt /\ r.region \in {"plo", "phi"} -> pal[r.region][(palbank * PalSize) + r.addr]
      [] OTHER -> Ones

-----------------------------------------------------------------------------
Latches == <<lo, hi, pal, palbank, finescroll, srt_enable>>

WriteLo(r) == /\ lo' = [lo EXCEPT ![r.addr] = r.data]
              /\ UNCHANGED <<vram, hi, pal, palbank, finescroll, srt_enable, srt_src>>
(* The value of a control_hi latch is bit 3 of its address.                 *)
WriteHi(r) ==
    LET val == r.addr \div 8
        low == palbank % 2
    IN /\ hi' = [hi EXCEPT ![r.addr] = r.data]
       /\ srt_enable' = IF r.addr % 8 = 0 THEN val = 1 ELSE srt_enable
       /\ finescroll' = IF r.addr % 8 = 1 THEN r.data[1] % 8 ELSE finescroll
       /\ palbank' = CASE r.addr % 8 = 2 -> palbank - low + val
                       [] r.addr % 8 = 3 -> low + 2 * val
                       [] OTHER -> palbank
       /\ UNCHANGED <<vram, lo, pal, srt_src>>
WritePalette(r) == /\ pal' = [pal EXCEPT ![r.region][(palbank * PalSize) + r.addr] = r.data]
                   /\ UNCHANGED <<vram, lo, hi, palbank, finescroll, srt_enable, srt_src>>

mem_write(r) ==
    \/ r.region \in {"vram", "exp"} /\ vram' = After(r) /\ UNCHANGED <<srt_src, Latches>>
    \/ r.region = "clo" /\ WriteLo(r)
    \/ r.region = "chi" /\ WriteHi(r)
    \/ r.region \in {"plo", "phi"} /\ WritePalette(r)
    \/ r.region = "none" /\ UNCHANGED state

Answered(r) == IF r.row \/ r.we THEN NoAnswer ELSE mem_read(r)

-----------------------------------------------------------------------------
Ask == /\ port.phase = "idle"
       /\ port' = [phase |-> "asked", r |-> port'.r, rdata |-> NoAnswer]
       /\ port'.r \in Requests
       /\ UNCHANGED state

(* The responder of the bench: after a while, the operation and the         *)
(* acknowledge.                                                             *)
Respond ==
    LET r == port.r IN
    /\ port.phase = "asked"
    /\ \/ r.row /\ vram' = After(r) /\ UNCHANGED <<srt_src, Latches>>
       \/ ~r.row /\ r.we /\ mem_write(r)
       \/ ~r.row /\ ~r.we /\ srt_src' = (IF r.srt THEN RowBase(r) ELSE srt_src)
          /\ UNCHANGED <<vram, Latches>>
    /\ port' = [phase |-> "acked", r |-> r, rdata |-> Answered(r)]

Release == port.phase = "acked" /\ port' = Idle /\ UNCHANGED state

Init ==
    /\ vram = InitVram
    /\ lo = [i \in 0 .. 15 |-> InitWord] /\ hi = lo
    /\ pal = [t \in {"plo", "phi"} |-> [i \in 0 .. 4 * PalSize - 1 |-> InitWord]]
    /\ palbank = 0 /\ finescroll = 0 /\ srt_enable = FALSE /\ srt_src = 0
    /\ port = Idle

Next == Ask \/ Respond \/ Release

Spec == Init /\ [][Next]_vars
=============================================================================
