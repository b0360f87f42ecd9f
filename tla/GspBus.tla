------------------------------- MODULE GspBus -------------------------------
(***************************************************************************)
(* The memory-side glue of the GSP (rtl/gsp_bus.sv), clock by clock: a     *)
(* sequencer that turns one request of the core into single accesses on    *)
(* the random SDRAM port, or into pieces on the burst port that go through *)
(* a row buffer.  The request is held by the core until the acknowledge.   *)
(* The two SDRAM ports answer when they like (see SdramCtrl).              *)
(***************************************************************************)
EXTENDS Integers, Sequences

CONSTANTS VramWords, SrtRow, ExpRow, PalSize, InitVram, InitWord, Requests,   \* see GspMemory
          Piece,       \* words of a burst (32)
          Programs     \* the requests of the core, one after the other

(* What the core asks for: rows of pixels that end inside VRAM and fit the  *)
(* row buffer (512 pixels in the core), and words of the regions.  Shift-   *)
(* register cycles are made on VRAM and the expander only.                  *)
RowRequest(r) ==
    /\ r.row = TRUE /\ r.fill \in BOOLEAN /\ r.transp \in BOOLEAN
    /\ r.src \in 0 .. 2 * VramWords - 1 /\ r.dst \in Nat /\ r.len \in Nat \ {0}
    /\ r.dst + r.len <= 2 * VramWords
    /\ r.len + (r.dst % 2) <= 2 * ExpRow
WordRequest(r) ==
    /\ r.row = FALSE /\ r.we \in BOOLEAN /\ r.srt \in BOOLEAN /\ r.addr \in Nat
    /\ r.region \in {"vram", "exp", "clo", "chi", "plo", "phi", "none"}
    /\ r.srt => r.region \in {"vram", "exp"}
    /\ r.region = "exp" => 4 * r.addr < VramWords
    /\ r.region = "exp" /\ r.we /\ ~r.srt => r.data \subseteq 0 .. 7
    /\ r.region \in {"clo", "chi"} => r.addr < 16
    /\ r.region \in {"plo", "phi"} => r.addr < PalSize

ASSUME GspBusAssumption ==
    /\ {VramWords, SrtRow, ExpRow, PalSize, Piece} \subseteq Nat \ {0}
    /\ VramWords % SrtRow = 0 /\ VramWords % ExpRow = 0 /\ SrtRow <= ExpRow
    /\ InitVram = [b \in 0 .. 2 * VramWords - 1 |-> InitVram[b]]
    /\ \A r \in Requests : r # <<>> /\ (RowRequest(r) \/ WordRequest(r))
    /\ Programs \subseteq Seq(Requests)

VARIABLES todo, req,                       \* the core: what is left, the request it holds
          st, ack, rdata,                  \* FSM state, mem_ack or rc_ack, mem_rdata
          vram, lo, hi, pal, palbank, finescroll, srt_enable, srt_src,
          pal_we,                          \* a palette write on its way, or None
          q,                               \* clo_q, chi_q, pal_lo_q, pal_hi_q
          exp,                             \* expander: word, mask, colour, base
          xf,                              \* transfer in progress
          srt_we, srt_cnt, srt_len,
          rowbuf, rb_q, xf_prev,
          sd, sd_ack, sd_rdata,            \* random port
          sb, bp, arrived, sb_done,        \* burst port: request, progress, the word delivered, done
          before                           \* history: memory when the request was taken

core == <<todo, req>>
latches == <<lo, hi, palbank, finescroll, srt_enable, srt_src, pal_we>>
transfer == <<xf, srt_we, srt_cnt, srt_len>>
fsm == <<st, ack, rdata, latches, q, exp, transfer, sd, sb>>
memory == <<vram, sd_ack, sd_rdata, bp, arrived, sb_done>>
buffer == <<rowbuf, rb_q, xf_prev>>
busvars == <<core, fsm, pal, memory, buffer, before>>

None == <<>>
NoWord == [wr |-> FALSE, idx |-> 0, data |-> <<0, 0>>]
NoAccess == [req |-> FALSE, we |-> FALSE, addr |-> 0, data |-> <<0, 0>>, be |-> {}]
NoBurst == [req |-> FALSE, we |-> FALSE, addr |-> 0, len |-> 0]
Both == {1, 2}                             \* byte enables: 1 the low byte, 2 the high

WordAt(v, w) == LET b == 2 * (w % VramWords) IN <<v[b], v[b + 1]>>
Put(v, w, data, be) ==
    [b \in DOMAIN v |-> IF b \div 2 = w % VramWords /\ 1 + (b % 2) \in be THEN data[1 + (b % 2)] ELSE v[b]]

-----------------------------------------------------------------------------
(* The core asks, holds the request, and drops it when it sees the answer.  *)
Requester ==
    \/ req = None /\ todo # <<>> /\ req' = Head(todo) /\ todo' = Tail(todo)
    \/ req # None /\ ack /\ req' = None /\ UNCHANGED todo
    \/ (req = None \/ ~ack) /\ UNCHANGED core

-----------------------------------------------------------------------------
(* Geometry of a row of pixels, computed from the request on every clock.   *)
rc_lastb == req.len + (req.dst % 2) - 1
rc_ndw == (rc_lastb \div 2) + 1
rc_sh == CASE req.src % 2 = req.dst % 2 -> 0
           [] req.src % 2 # req.dst % 2 /\ req.src % 2 = 1 -> 1
           [] OTHER -> 2

(* The row buffer: words that arrive are put together over the byte shift,  *)
(* words to be written are looked up a clock ahead.                         *)
rb_goOfPiece == bp.issued                 \* mutant: the index restarts with the piece

rb_gi == srt_cnt + arrived.idx
rb_go == srt_cnt + bp.issued
Assembled == IF xf.sh = 0 THEN arrived.data ELSE <<xf_prev[2], arrived.data[1]>>

RowBuffer ==
    /\ rowbuf' = IF arrived.wr /\ ~(xf.sh = 1 /\ rb_gi = 0)
                 THEN [rowbuf EXCEPT ![rb_gi - (IF xf.sh = 1 THEN 1 ELSE 0)] = Assembled] ELSE rowbuf
    /\ rb_q' = rowbuf[rb_go % ExpRow]
    /\ xf_prev' = IF arrived.wr THEN arrived.data ELSE xf_prev

sb_wdata == IF xf.fill THEN xf.color ELSE rb_q
sb_be == (IF rb_go = 0 THEN xf.be_first ELSE Both)
         \cap (IF rb_go = srt_len - 1 THEN xf.be_last ELSE Both)
         \cap {h \in Both : xf.transp => sb_wdata[h] # 0}

-----------------------------------------------------------------------------
Turns(s) == st' = s
Ack(data) == ack' = TRUE /\ rdata' = data /\ Turns("IDLE")
NoAck == ack' = FALSE /\ UNCHANGED rdata
Takes == st = "IDLE" /\ req # None /\ ~ack

StartTransfer(x, len, we) ==
    /\ xf' = x /\ srt_len' = len /\ srt_we' = we /\ srt_cnt' = 0
    /\ Turns("SRT_BURST") /\ NoAck
    /\ UNCHANGED <<lo, hi, palbank, finescroll, srt_enable, srt_src, q, exp, sd, sb>> /\ pal_we' = None

IdleRow ==
    /\ Takes /\ req.row
    /\ StartTransfer([isrc |-> TRUE, fill |-> req.fill, transp |-> req.transp, color |-> req.color,
                      sh |-> rc_sh, be_first |-> IF req.dst % 2 = 1 THEN {2} ELSE Both,
                      be_last |-> IF rc_lastb % 2 = 1 THEN Both ELSE {1},
                      src |-> req.src \div 2, dst |-> req.dst \div 2],
                     rc_ndw + (IF ~req.fill /\ rc_sh = 1 THEN 1 ELSE 0), req.fill)

(* The row a shift-register cycle names: 256 words of VRAM, 1024 in the     *)
(* expander region.                                                         *)
RowName == IF req.region = "vram" THEN ((req.addr % VramWords) \div SrtRow) * SrtRow
           ELSE ((4 * req.addr) \div ExpRow) * ExpRow
IsSrt == Takes /\ ~req.row /\ req.region \in {"vram", "exp"} /\ req.srt

IdleSrtRead ==
    /\ IsSrt /\ ~req.we
    /\ srt_src' = RowName /\ Ack(<<0, 0>>) /\ pal_we' = None
    /\ UNCHANGED <<lo, hi, palbank, finescroll, srt_enable, q, exp, transfer, sd, sb>>
IdleSrtWrite ==
    /\ IsSrt /\ req.we /\ srt_enable
    /\ StartTransfer([isrc |-> FALSE, fill |-> FALSE, transp |-> FALSE, color |-> <<0, 0>>,
                      sh |-> 0, be_first |-> Both, be_last |-> Both, src |-> srt_src, dst |-> RowName],
                     IF req.region = "vram" THEN SrtRow ELSE ExpRow, FALSE)
IdleSrtOff ==
    /\ IsSrt /\ req.we /\ ~srt_enable
    /\ Ack(rdata) /\ pal_we' = None
    /\ UNCHANGED <<lo, hi, palbank, finescroll, srt_enable, srt_src, q, exp, transfer, sd, sb>>

IsPlain(region) == Takes /\ ~req.row /\ req.region = region
                   /\ (region \in {"vram", "exp"} => ~req.srt)

IdleVram ==
    /\ IsPlain("vram")
    /\ sd' = [req |-> TRUE, we |-> req.we, addr |-> req.addr, data |-> req.data, be |-> Both]
    /\ Turns("VRAM_WAIT") /\ NoAck /\ pal_we' = None
    /\ UNCHANGED <<lo, hi, palbank, finescroll, srt_enable, srt_src, q, exp, transfer, sb>>
IdleExpander ==
    /\ IsPlain("exp") /\ pal_we' = None
    /\ IF req.we
       THEN exp' = [n |-> 0, mask |-> req.data, color |-> lo[0], base |-> 4 * req.addr] /\ Turns("EXP0") /\ NoAck
       ELSE Ack(<<0, 0>>) /\ UNCHANGED exp
    /\ UNCHANGED <<lo, hi, palbank, finescroll, srt_enable, srt_src, q, transfer, sd, sb>>

(* Latches and palette take the write at once and answer a clock later.     *)
Register == Turns("REG_RD") /\ NoAck /\ UNCHANGED <<srt_src, exp, transfer, sd, sb>>
IdleLo == /\ IsPlain("clo") /\ Register /\ pal_we' = None
          /\ lo' = IF req.we THEN [lo EXCEPT ![req.addr] = req.data] ELSE lo
          /\ q' = lo[req.addr]
          /\ UNCHANGED <<hi, palbank, finescroll, srt_enable>>
IdleHi ==
    LET val == req.addr \div 8
        sel == IF req.we THEN req.addr % 8 ELSE 8
    IN /\ IsPlain("chi") /\ Register /\ pal_we' = None
       /\ hi' = IF req.we THEN [hi EXCEPT ![req.addr] = req.data] ELSE hi
       /\ srt_enable' = IF sel = 0 THEN val = 1 ELSE srt_enable
       /\ finescroll' = IF sel = 1 THEN req.data[1] % 8 ELSE finescroll
       /\ palbank' = CASE sel = 2 -> 2 * (palbank \div 2) + val
                       [] sel = 3 -> (palbank % 2) + 2 * val
                       [] OTHER -> palbank
       /\ q' = hi[req.addr]
       /\ UNCHANGED lo
pal_idx == (palbank * PalSize) + req.addr
IdlePalette ==
    \E t \in {"plo", "phi"} :
       /\ IsPlain(t) /\ Register
       /\ pal_we' = IF req.we THEN [t |-> t, a |-> pal_idx, d |-> req.data] ELSE None
       /\ q' = pal[t][pal_idx]
       /\ UNCHANGED <<lo, hi, palbank, finescroll, srt_enable>>
IdleUnmapped ==
    /\ IsPlain("none") /\ Ack(<<255, 255>>) /\ pal_we' = None
    /\ UNCHANGED <<lo, hi, palbank, finescroll, srt_enable, srt_src, q, exp, transfer, sd, sb>>

IdleRest ==
    /\ st = "IDLE" /\ ~Takes /\ NoAck /\ pal_we' = None
    /\ UNCHANGED <<st, lo, hi, palbank, finescroll, srt_enable, srt_src, q, exp, transfer, sd, sb>>

-----------------------------------------------------------------------------
Keeps == pal_we' = None /\ UNCHANGED <<lo, hi, palbank, finescroll, srt_enable, srt_src, q>>

RegRd == /\ st = "REG_RD" /\ Ack(q) /\ Keeps /\ UNCHANGED <<exp, transfer, sd, sb>>

VramWait ==
    /\ st = "VRAM_WAIT" /\ Keeps
    /\ IF sd_ack THEN sd' = [sd EXCEPT !.req = FALSE] /\ Ack(sd_rdata)
                 ELSE NoAck /\ UNCHANGED <<st, sd>>
    /\ UNCHANGED <<exp, transfer, sb>>

(* Word n of the expander: its two pixels, or nothing to write.             *)
NextExp == IF exp.n = 3 THEN Ack(rdata) /\ UNCHANGED exp
           ELSE exp' = [exp EXCEPT !.n = @ + 1] /\ Turns("EXP0") /\ NoAck
Exp0 ==
    LET be == {h \in Both : 2 * exp.n + h - 1 \in exp.mask} IN
    /\ st = "EXP0" /\ Keeps
    /\ sd' = [req |-> be # {}, we |-> TRUE, addr |-> exp.base + exp.n, data |-> exp.color, be |-> be]
    /\ IF be # {} THEN Turns("EXP_WAIT") /\ NoAck /\ UNCHANGED exp ELSE NextExp
    /\ UNCHANGED <<transfer, sb>>
ExpWait ==
    /\ st = "EXP_WAIT" /\ Keeps
    /\ IF sd_ack THEN sd' = [sd EXCEPT !.req = FALSE] /\ NextExp
                 ELSE NoAck /\ UNCHANGED <<st, sd, exp>>
    /\ UNCHANGED <<transfer, sb>>

SrtBurst ==
    /\ st = "SRT_BURST" /\ Keeps /\ NoAck
    /\ sb' = [req |-> TRUE, we |-> srt_we, addr |-> (IF srt_we THEN xf.dst ELSE xf.src) + srt_cnt,
              len |-> IF srt_len - srt_cnt > Piece THEN Piece ELSE srt_len - srt_cnt]
    /\ Turns("SRT_BURST_WAIT") /\ UNCHANGED <<exp, transfer, sd>>

PieceDone ==
    /\ srt_cnt' = srt_cnt + sb.len /\ srt_we' = srt_we /\ srt_len' = srt_len
    /\ srt_cnt + sb.len # srt_len
    /\ Turns("SRT_BURST_GAP") /\ NoAck
ReadPhaseDoneKeepsLen ==                  \* mutant: the extra word read is written as well
    /\ ~srt_we /\ srt_cnt + sb.len = srt_len
    /\ srt_we' = TRUE /\ srt_cnt' = 0 /\ srt_len' = srt_len
    /\ Turns("SRT_BURST_GAP") /\ NoAck
ReadPhaseDone ==
    /\ ~srt_we /\ srt_cnt + sb.len = srt_len
    /\ srt_we' = TRUE /\ srt_cnt' = 0
    /\ srt_len' = IF xf.isrc THEN rc_ndw ELSE srt_len
    /\ Turns("SRT_BURST_GAP") /\ NoAck
WritePhaseDone ==
    /\ srt_we /\ srt_cnt + sb.len = srt_len
    /\ srt_cnt' = srt_cnt + sb.len /\ srt_we' = srt_we /\ srt_len' = srt_len
    /\ Ack(rdata)
SrtBurstWaitHolds ==                      \* mutant: the burst request is not dropped
    /\ st = "SRT_BURST_WAIT" /\ Keeps
    /\ IF sb_done THEN UNCHANGED sb /\ (PieceDone \/ ReadPhaseDone \/ WritePhaseDone)
                  ELSE NoAck /\ UNCHANGED <<st, sb, srt_cnt, srt_we, srt_len>>
    /\ UNCHANGED <<exp, xf, sd>>
SrtBurstWait ==
    /\ st = "SRT_BURST_WAIT" /\ Keeps
    /\ IF sb_done
       THEN sb' = [sb EXCEPT !.req = FALSE] /\ (PieceDone \/ ReadPhaseDone \/ WritePhaseDone)
       ELSE NoAck /\ UNCHANGED <<st, sb, srt_cnt, srt_we, srt_len>>
    /\ UNCHANGED <<exp, xf, sd>>
SrtBurstGap ==
    /\ st = "SRT_BURST_GAP" /\ Keeps /\ NoAck
    /\ Turns("SRT_BURST") /\ UNCHANGED <<exp, transfer, sd, sb>>

Fsm == \/ IdleRow \/ IdleSrtRead \/ IdleSrtWrite \/ IdleSrtOff \/ IdleVram \/ IdleExpander
       \/ IdleLo \/ IdleHi \/ IdlePalette \/ IdleUnmapped \/ IdleRest
       \/ RegRd \/ VramWait \/ Exp0 \/ ExpWait \/ SrtBurst \/ SrtBurstWait \/ SrtBurstGap

Palette == pal' = IF pal_we = None THEN pal ELSE [pal EXCEPT ![pal_we.t][pal_we.a] = pal_we.d]

-----------------------------------------------------------------------------
(* The random port: the access and its acknowledge, some time after the     *)
(* request.                                                                 *)
Serves ==
    /\ sd.req /\ ~sd_ack
    /\ sd_ack' = TRUE /\ sd_rdata' = WordAt(vram, sd.addr)
    /\ vram' = IF sd.we THEN Put(vram, sd.addr, sd.data, sd.be) ELSE vram
    /\ UNCHANGED bp /\ arrived' = NoWord /\ sb_done' = FALSE

(* The burst port: a burst is taken once per rise of the request; a word    *)
(* is written no sooner than a clock after its index is out.                *)
NoServe == sd_ack' = FALSE /\ UNCHANGED sd_rdata
Accept ==
    /\ bp.phase = "idle" /\ sb.req
    /\ bp' = [phase |-> "words", issued |-> 0, settled |-> FALSE]
    /\ NoServe /\ arrived' = NoWord /\ sb_done' = FALSE /\ UNCHANGED vram
NextWord ==
    /\ bp.phase = "words" /\ bp.settled
    /\ bp' = [phase |-> IF bp.issued + 1 = sb.len THEN "closing" ELSE "words",
              issued |-> bp.issued + 1, settled |-> FALSE]
    /\ arrived' = IF sb.we THEN NoWord
               ELSE [wr |-> TRUE, idx |-> bp.issued, data |-> WordAt(vram, sb.addr + bp.issued)]
    /\ vram' = IF sb.we THEN Put(vram, sb.addr + bp.issued, sb_wdata, sb_be) ELSE vram
    /\ NoServe /\ sb_done' = FALSE
Tells ==
    /\ bp.phase = "closing" /\ bp.settled
    /\ bp' = [phase |-> "told", issued |-> 0, settled |-> TRUE] /\ sb_done' = TRUE
    /\ NoServe /\ arrived' = NoWord /\ UNCHANGED vram
Rearms ==
    /\ bp.phase = "told" /\ ~sb.req
    /\ bp' = [bp EXCEPT !.phase = "idle"] /\ sb_done' = FALSE
    /\ NoServe /\ arrived' = NoWord /\ UNCHANGED vram
Waits ==
    /\ ~(bp.phase = "told" /\ ~sb.req)
    /\ bp' = [bp EXCEPT !.settled = TRUE] /\ sb_done' = FALSE
    /\ NoServe /\ arrived' = NoWord /\ UNCHANGED vram

Progress == Serves \/ Accept \/ NextWord \/ Tells \/ Rearms
Memory == Progress \/ Waits

-----------------------------------------------------------------------------
Snapshot == [vram |-> vram, lo |-> lo, hi |-> hi, pal |-> pal, palbank |-> palbank,
             finescroll |-> finescroll, srt_enable |-> srt_enable, srt_src |-> srt_src]
History == before' = IF st = "IDLE" THEN Snapshot ELSE before

BusInit(requests) ==
    /\ todo = requests /\ req = None
    /\ st = "IDLE" /\ ack = FALSE /\ rdata = <<0, 0>>
    /\ vram = InitVram
    /\ lo = [i \in 0 .. 15 |-> InitWord] /\ hi = [i \in 0 .. 15 |-> InitWord]
    /\ pal = [t \in {"plo", "phi"} |-> [i \in 0 .. 4 * PalSize - 1 |-> InitWord]]
    /\ palbank = 0 /\ finescroll = 0 /\ srt_enable = FALSE /\ srt_src = 0 /\ pal_we = None
    /\ q = <<0, 0>> /\ exp = [n |-> 0, mask |-> {}, color |-> <<0, 0>>, base |-> 0]
    /\ xf = [isrc |-> FALSE, fill |-> FALSE, transp |-> FALSE, color |-> <<0, 0>>, sh |-> 0,
             be_first |-> Both, be_last |-> Both, src |-> 0, dst |-> 0]
    /\ srt_we = FALSE /\ srt_cnt = 0 /\ srt_len = 0
    /\ rowbuf = [i \in 0 .. ExpRow - 1 |-> <<0, 0>>] /\ rb_q = <<0, 0>> /\ xf_prev = <<0, 0>>
    /\ sd = NoAccess /\ sd_ack = FALSE /\ sd_rdata = <<0, 0>>
    /\ sb = NoBurst /\ bp = [phase |-> "idle", issued |-> 0, settled |-> TRUE]
    /\ arrived = NoWord /\ sb_done = FALSE
    /\ before = Snapshot

BusNext == Requester /\ Fsm /\ Palette /\ RowBuffer /\ Memory /\ History

(* The clock never stops, and the SDRAM serves its ports in the end.        *)
BusFairness == WF_busvars(BusNext) /\ WF_busvars(BusNext /\ Progress)
BusSpec == (\E p \in Programs : BusInit(p)) /\ [][BusNext]_busvars /\ BusFairness

-----------------------------------------------------------------------------
(* The abstract memory sees a request carried out when it is acknowledged.  *)
Seen == IF st = "IDLE" THEN Snapshot ELSE before
memport == IF req = None THEN [phase |-> "idle", r |-> <<>>, rdata |-> <<>>]
           ELSE [phase |-> IF ack THEN "acked" ELSE "asked", r |-> req,
                 rdata |-> IF ack /\ ~req.row /\ ~req.we THEN rdata ELSE <<>>]
Mem == INSTANCE GspMemory WITH Words <- VramWords,
    vram <- Seen.vram, lo <- Seen.lo, hi <- Seen.hi, pal <- Seen.pal, palbank <- Seen.palbank,
    finescroll <- Seen.finescroll, srt_enable <- Seen.srt_enable, srt_src <- Seen.srt_src,
    port <- memport

(* The bus, with its latches, expander, row buffer and pieces, is the       *)
(* memory the trace bench puts behind the core: every request takes effect  *)
(* whole, and reads what was there.                                         *)
ServesGspMemory == Mem!Spec

(* While a request is under way every byte of VRAM is the old one or the    *)
(* new one: the display, which fetches lines meanwhile, never shows a byte  *)
(* that neither picture has.                                                *)
OldOrNew == st # "IDLE" => \A b \in DOMAIN vram : vram[b] \in {before.vram[b], Mem!After(req)[b]}

(* Every request is acknowledged.                                           *)
RequestsAnswered == (req # None) ~> (req = None)
=============================================================================
