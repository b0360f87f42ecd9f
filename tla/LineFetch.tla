----------------------------- MODULE LineFetch -----------------------------
(***************************************************************************)
(* The burst port shared by two masters (rtl/stunrun_core.sv) and the line *)
(* fetch of the scan-out that is one of them (rtl/gsp_video.sv); the other *)
(* is the row engine of rtl/gsp_bus.sv.  Every step is one clock.  The     *)
(* controller's burst port is as slow as it likes, but does what module    *)
(* SdramCtrl shows: it accepts a request once, delivers the words in       *)
(* order, and is done after the last of them has landed.  A word of VRAM   *)
(* is identified with its address.                                         *)
(***************************************************************************)
EXTENDS Integers

CONSTANTS RowWords,    \* words of a VRAM row (1024)
          LineWords,   \* words fetched for a line (257)
          Lines,       \* the lines the GSP may ask to be shown
          Pieces,      \* the pieces of a row transfer the GSP may ask for
          MinLine,     \* clocks of a line, at least (6086)
          MaxPiece     \* words of a piece, at most (32)

(* A line is [row, start, odd]: its row, the word it starts with, and the    *)
(* parity of its first pixel.                                               *)
Burst == [we : BOOLEAN, addr : Nat, len : Nat \ {0}]

ASSUME LineAssumption ==
    /\ RowWords \in Nat \ {0} /\ LineWords \in 1 .. RowWords
    /\ Lines \subseteq [row : Nat, start : 0 .. RowWords - 1, odd : BOOLEAN]
    /\ Lines # {} /\ MinLine \in Nat \ {0} /\ MaxPiece \in Nat
    /\ Pieces \subseteq [we : BOOLEAN, addr : Nat, len : 1 .. MaxPiece]

VARIABLES
  age,                                   \* clocks since the line started
  fill_sel, show_sel,                    \* the two line buffers
  geom,                                  \* rowaddr and col0 of the line to fetch
  next_visible, show_visible, col_odd, col_odd_next,
  fetch_pending, fst, seg, seg1_words,   \* the fetch
  vb_req, vb_cmd, lbuf,
  bbusy, bsel,                           \* the arbiter
  srt, sb_req, sb_cmd, rowbuf,           \* the row engine
  port, b_accepted,                      \* the controller's burst port
  b_wr, b_idx, b_data, b_done,
  shown, late,                           \* history: the line shown; was its fetch cut short?
  passed                                 \* history: pieces that went before a waiting display (up to 2)

swap    == <<age, fill_sel, show_sel, geom, next_visible, show_visible, col_odd, col_odd_next>>
fetch   == <<fetch_pending, fst, seg, seg1_words, vb_req, vb_cmd>>
arbiter == <<bbusy, bsel>>
rows    == <<srt, sb_req, sb_cmd>>
sdram   == <<port, b_accepted, b_wr, b_idx, b_data, b_done>>
vars    == <<swap, fetch, lbuf, arbiter, rows, rowbuf, sdram, shown, late, passed>>

NoWord   == -1
NoBurst  == [we |-> FALSE, addr |-> 0, len |-> 1]
IdlePort == [busy |-> FALSE, cmd |-> NoBurst, k |-> 0]

vb_done == b_done /\ bsel = "display"
sb_done == b_done /\ bsel = "rows"
fetch_busy == fst # "idle"

-----------------------------------------------------------------------------
(* The line buffers.  A line is set up when it starts, fetched while it     *)
(* lasts, and shown during the next one.  The fetch is far shorter than a   *)
(* line; at the worst it is late by less than one (~fetch_pending).         *)

LineStart ==
    /\ age >= MinLine /\ ~fetch_pending
    /\ age' = 0
    /\ show_sel' = fill_sel /\ fill_sel' = 1 - fill_sel
    /\ show_visible' = next_visible /\ next_visible' \in BOOLEAN
    /\ geom' \in Lines
    /\ col_odd' = col_odd_next /\ col_odd_next' = geom.odd
    /\ fetch_pending' = TRUE
    /\ shown' = geom /\ late' = fetch_busy

SameLine ==
    /\ age' = IF age < MinLine THEN age + 1 ELSE age
    /\ UNCHANGED <<fill_sel, show_sel, geom, next_visible, show_visible, col_odd, col_odd_next>>
    /\ fetch_pending' = (fetch_pending /\ fetch_busy)
    /\ UNCHANGED <<shown, late>>

(* A line that would cross the end of its row wraps: it takes two bursts.   *)
ToRowEnd == RowWords - seg.start
need_second == ToRowEnd < LineWords
seg1_len == IF need_second THEN ToRowEnd ELSE LineWords
Seg1 == [we |-> FALSE, addr |-> seg.row * RowWords + seg.start, len |-> seg1_len]
Seg2 == [we |-> FALSE, addr |-> seg.row * RowWords, len |-> LineWords - ToRowEnd]

FetchIdle == /\ fst = "idle" /\ ~(fetch_pending /\ next_visible)
             /\ vb_req' = FALSE /\ UNCHANGED <<fst, seg, seg1_words, vb_cmd>>

FetchBegins == /\ fst = "idle" /\ fetch_pending /\ next_visible
               /\ fst' = "seg1" /\ seg' = geom
               /\ vb_req' = FALSE /\ UNCHANGED <<seg1_words, vb_cmd>>

FirstSegment == /\ fst = "seg1"
                /\ vb_cmd' = Seg1 /\ seg1_words' = seg1_len
                /\ vb_req' = ~vb_done
                /\ fst' = IF ~vb_done THEN "seg1" ELSE IF need_second THEN "seg2" ELSE "idle"
                /\ UNCHANGED seg

SecondSegment == /\ fst = "seg2"
                 /\ vb_cmd' = Seg2
                 /\ vb_req' = ~vb_done
                 /\ fst' = IF vb_done THEN "idle" ELSE "seg2"
                 /\ UNCHANGED <<seg, seg1_words>>

widxRestarts == b_idx                                            \* mutant
widx == IF fst = "seg2" THEN b_idx + seg1_words ELSE b_idx

FillLine == lbuf' = IF b_wr /\ bsel = "display"
                    THEN [lbuf EXCEPT ![fill_sel] = [k \in DOMAIN @ |-> IF k = widx THEN b_data ELSE @[k]]]
                    ELSE lbuf

Video == /\ LineStart \/ SameLine
         /\ FetchIdle \/ FetchBegins \/ FirstSegment \/ SecondSegment
         /\ FillLine

-----------------------------------------------------------------------------
(* The arbiter: the display first, and a grant lasts one request.           *)

(* mutant: the grant follows the row engine's request *)
ArbiterFollows ==
    /\ bbusy' = (vb_req \/ sb_req)
    /\ bsel' = IF sb_req THEN "rows" ELSE "display"
(* mutant: the port is not given back *)
ArbiterKeeps ==
    IF bbusy THEN UNCHANGED arbiter
    ELSE IF vb_req THEN bbusy' = TRUE /\ bsel' = "display"
    ELSE IF sb_req THEN bbusy' = TRUE /\ bsel' = "rows"
    ELSE UNCHANGED arbiter
Arbiter ==
    IF bbusy THEN bbusy' = ~b_done /\ UNCHANGED bsel
    ELSE IF vb_req THEN bbusy' = TRUE /\ bsel' = "display"
    ELSE IF sb_req THEN bbusy' = TRUE /\ bsel' = "rows"
    ELSE UNCHANGED arbiter

b_req == bbusy /\ (IF bsel = "rows" THEN sb_req ELSE vb_req)
b_cmd == IF bsel = "rows" THEN sb_cmd ELSE vb_cmd

-----------------------------------------------------------------------------
(* The row engine asks for a piece, waits, and drops its request for two    *)
(* clocks before the next.                                                  *)

RowsIdle  == srt = "IDLE" /\ srt' \in {"IDLE", "SRT_BURST"} /\ UNCHANGED <<sb_req, sb_cmd>>
RowsAsk   == /\ srt = "SRT_BURST" /\ srt' = "SRT_BURST_WAIT"
             /\ sb_req' = TRUE /\ sb_cmd' \in Pieces
RowsWait  == /\ srt = "SRT_BURST_WAIT"
             /\ IF sb_done THEN sb_req' = FALSE /\ srt' \in {"SRT_BURST_GAP", "IDLE"}
                ELSE UNCHANGED <<sb_req, srt>>
             /\ UNCHANGED sb_cmd
RowsGap   == srt = "SRT_BURST_GAP" /\ srt' = "SRT_BURST" /\ UNCHANGED <<sb_req, sb_cmd>>

FillRow == rowbuf' = IF srt = "SRT_BURST" THEN [k \in DOMAIN rowbuf |-> NoWord]
                     ELSE IF b_wr /\ bsel = "rows" THEN [rowbuf EXCEPT ![b_idx] = b_data]
                     ELSE rowbuf

Rows == (RowsIdle \/ RowsAsk \/ RowsWait \/ RowsGap) /\ FillRow

-----------------------------------------------------------------------------
(* The controller's burst port.                                             *)

NoWrite == b_wr' = FALSE /\ b_idx' = 0 /\ b_data' = NoWord
Silent == NoWrite /\ b_done' = FALSE

AcceptBurst == b_req /\ ~port.busy /\ ~b_done /\ ~b_accepted

Accept  == /\ AcceptBurst
           /\ port' = [busy |-> TRUE, cmd |-> b_cmd, k |-> 0] /\ Silent
Pauses  == /\ ~AcceptBurst
           /\ Silent /\ UNCHANGED port
NextWord == /\ port.busy /\ port.k < port.cmd.len
            /\ port' = [port EXCEPT !.k = @ + 1]
            /\ b_done' = FALSE
            /\ IF port.cmd.we THEN NoWrite
               ELSE b_wr' = TRUE /\ b_idx' = port.k /\ b_data' = port.cmd.addr + port.k
Finishes == /\ port.busy /\ port.k = port.cmd.len /\ b_req
            /\ port' = IdlePort /\ b_done' = TRUE /\ NoWrite

Sdram == /\ b_accepted' = (b_req /\ (b_accepted \/ AcceptBurst))
         /\ Accept \/ Pauses \/ NextWord \/ Finishes

History == passed' = IF ~vb_req \/ (bbusy /\ bsel = "display") THEN 0
                     ELSE IF sb_done /\ passed < 2 THEN passed + 1 ELSE passed

-----------------------------------------------------------------------------
Init ==
    /\ age = 0 /\ fill_sel = 0 /\ show_sel = 1
    /\ geom \in Lines /\ next_visible = FALSE /\ show_visible = FALSE
    /\ col_odd = FALSE /\ col_odd_next = FALSE
    /\ fetch_pending = FALSE /\ fst = "idle" /\ seg = geom /\ seg1_words = 0
    /\ vb_req = FALSE /\ vb_cmd = NoBurst
    /\ lbuf = [s \in 0 .. 1 |-> [k \in 0 .. LineWords - 1 |-> NoWord]]
    /\ bbusy = FALSE /\ bsel = "display"
    /\ srt = "IDLE" /\ sb_req = FALSE /\ sb_cmd = NoBurst
    /\ rowbuf = [k \in 0 .. MaxPiece - 1 |-> NoWord]
    /\ port = IdlePort /\ b_accepted = FALSE
    /\ b_wr = FALSE /\ b_idx = 0 /\ b_data = NoWord /\ b_done = FALSE
    /\ shown = geom /\ late = FALSE /\ passed = 0

Next == Sdram /\ Arbiter /\ History /\ Rows /\ Video

Spec == Init /\ [][Next]_vars

(* The clock never stops, and the controller makes progress with a burst.   *)
Progress == Sdram /\ port' # port /\ Arbiter /\ History /\ Rows /\ Video
FairSpec == Spec /\ WF_vars(Next) /\ WF_vars(Progress)

-----------------------------------------------------------------------------
(* The line shown is the one that was set up a line ago, whole and wrapped  *)
(* in its row, for as long as it is shown, whatever the row engine does --  *)
(* unless its own fetch was late.  A late line spoils no other.             *)
ShownLineTrue ==
    show_visible /\ ~late =>
        \A k \in 0 .. LineWords - 1 :
            lbuf[show_sel][k] = (shown.row * RowWords) + ((shown.start + k) % RowWords)

(* What the row engine finds in its buffer when a piece is done is that     *)
(* piece: the display cannot take the port, or a word, from under it.       *)
PieceTrue ==
    sb_done /\ ~sb_cmd.we => \A k \in 0 .. sb_cmd.len - 1 : rowbuf[k] = sb_cmd.addr + k

(* "the display waits at most one piece".                                   *)
OnePieceFirst == passed <= 1

(* Every fetch of a line ends, and every piece is served: the display       *)
(* cannot keep the row engine waiting for ever, late or not.                *)
BurstsServed == (fetch_busy ~> ~fetch_busy) /\ (sb_req ~> sb_done)

(* "pixel(x) = VRAM byte [rowaddr*2048 + ((col0 + x) & 0x7ff)]": the byte   *)
(* the read-out starts with has the parity of the shown line's col0.        *)
ParityOfShown == show_visible /\ ~late => col_odd = shown.odd
=============================================================================
