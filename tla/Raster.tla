------------------------------- MODULE Raster -------------------------------
(***************************************************************************)
(* The raster of the GSP (src/rtl/gsp/tms34010.sv, "video raster"), the    *)
(* program's writes of the display registers that fall into it, and the    *)
(* two probes of sim/tb_system.cpp that look for a picture that restarts   *)
(* part of the way down: TB_ROWLOG and TB_FLIPLOG.                         *)
(*                                                                         *)
(* Every step is one clock.  The writes stand later in the always block    *)
(* than the raster, those of the host before it, so on one clock the       *)
(* program's assignment wins over the raster's and the raster's over the   *)
(* host's.  A DPYADR is its row part: the game keeps DPYSTRT[1:0] at zero, *)
(* so that no line is shown twice.                                         *)
(***************************************************************************)
EXTENDS Integers

CONSTANTS R,                  \* row addresses (2^14)
          UD,                 \* the step of a line (DPYCTL)
          HTOTAL, VTOTAL, VEBLNK, VSBLNK,
          DPYINT,             \* the line of the display interrupt
          Buffers             \* rows at which the program's buffers start

ASSUME RasterAssumption ==
    /\ R \in Nat \ {0} /\ UD \in 0 .. R - 1 /\ Buffers \subseteq 0 .. R - 1
    /\ HTOTAL \in Nat /\ VTOTAL \in Nat
    /\ VEBLNK \in 0 .. VTOTAL /\ VSBLNK \in 0 .. VTOTAL /\ VEBLNK < VSBLNK /\ DPYINT \in 0 .. VTOTAL

VARIABLES
    hc, vc, line_start,
    dpystrt, dpyadr, dpy_adj,
    intpend,                  \* of INTPEND: DI and HI
    hstctl,                   \* HSTCTLL.INTIN
    buffer, rows, lag,        \* history: the buffer shown, its lines stepped, rows it is drawn off by
    owed,                     \* history: the interrupts raised and not yet cleared
    prev_dpyadr, have_prev,   \* TB_ROWLOG
    jumped, flipped,          \* what it prints, and history: a flip since its last line
    prev, reported, cause     \* TB_FLIPLOG, what it prints, and history: who moved DPYADR

counters == <<hc, vc, line_start>>
display  == <<dpystrt, dpyadr, dpy_adj>>
history  == <<buffer, rows, lag, owed, flipped, cause>>
probes   == <<prev_dpyadr, have_prev, jumped, prev, reported>>
rastervars == <<counters, display, intpend, hstctl, history, probes>>

Writes == {[op |-> "none"], [op |-> "clear"], [op |-> "keep"], [op |-> "hstctl"]}
             \cup {[op |-> o, row |-> b] : o \in {"strt", "adr"}, b \in Buffers}

Visible == VEBLNK <= vc /\ vc < VSBLNK
Loads   == line_start /\ vc = VSBLNK       \* DPYADR from DPYSTRT
Steps   == line_start /\ Visible
Fires   == line_start /\ vc = DPYINT
Wraps   == hc >= HTOTAL                    \* of a clock with cen_vid

Count(cen) ==
    /\ hc' = IF ~cen THEN hc ELSE IF Wraps THEN 0 ELSE hc + 1
    /\ vc' = IF cen /\ Wraps THEN (IF vc >= VTOTAL THEN 0 ELSE vc + 1) ELSE vc
    /\ line_start' = (cen /\ Wraps)

(* mutant: the sum is not dropped when the next picture is loaded *)
AdjustKeeps == dpy_adj' = IF Steps THEN (dpy_adj + UD) % R ELSE dpy_adj
Adjust == dpy_adj' = IF Loads THEN 0 ELSE IF Steps THEN (dpy_adj + UD) % R ELSE dpy_adj

(* A write of DPYADR is stepped by the lines already shown.                 *)
Address(wr) ==
    dpyadr' = IF wr.op = "adr" THEN (wr.row - dpy_adj) % R
              ELSE IF Loads THEN dpystrt
              ELSE IF Steps THEN (dpyadr - UD) % R ELSE dpyadr

(* mutant: a write of INTPEND that clears DI clears the host's request too *)
InterruptsClearsAll(wr, raise) ==
    /\ intpend' = IF wr.op = "clear" THEN {}
                  ELSE IF wr.op = "keep" THEN intpend
                  ELSE IF wr.op = "hstctl" /\ hstctl THEN intpend \ {"HI"}
                  ELSE IF Fires THEN intpend \cup {"DI"}
                  ELSE IF raise /\ ~hstctl THEN intpend \cup {"HI"} ELSE intpend
    /\ hstctl' = IF wr.op = "hstctl" THEN FALSE ELSE hstctl \/ raise

(* A write of INTPEND keeps the bits it does not clear as they were before  *)
(* the clock; one of HSTCTLL by the program drops INTIN and HI with it.     *)
Interrupts(wr, raise) ==
    /\ intpend' = IF wr.op = "clear" THEN intpend \ {"DI"}
                  ELSE IF wr.op = "keep" THEN intpend
                  ELSE IF wr.op = "hstctl" /\ hstctl THEN intpend \ {"HI"}
                  ELSE IF Fires THEN intpend \cup {"DI"}
                  ELSE IF raise /\ ~hstctl THEN intpend \cup {"HI"} ELSE intpend
    /\ hstctl' = IF wr.op = "hstctl" THEN FALSE ELSE hstctl \/ raise

(* What is raised on a clock, and which of it another assignment of INTPEND *)
(* on the same clock overrides.                                             *)
Raised(raise) == {i \in {"DI", "HI"} : IF i = "DI" THEN Fires ELSE raise /\ ~hstctl}
Overridden(wr) == IF wr.op \in {"clear", "keep"} \/ (wr.op = "hstctl" /\ hstctl) THEN {"DI", "HI"}
                  ELSE IF Fires THEN {"HI"} ELSE {}
Cleared(wr) == CASE wr.op = "clear"  -> {"DI"}
                 [] wr.op = "hstctl" -> {"HI"}
                 [] OTHER            -> {}

(* A write on the clock that steps a line misses that step; one on the      *)
(* clock that loads the next picture is stepped by the lines of the last.   *)
Observe(wr, raise) ==
    /\ buffer' = IF wr.op = "adr" THEN wr.row ELSE IF Loads THEN dpystrt ELSE buffer
    /\ rows' = IF Loads THEN 0 ELSE IF Steps THEN rows + 1 ELSE rows
    /\ lag' = IF wr.op = "adr" THEN (IF Loads THEN rows ELSE IF Steps THEN -1 ELSE 0)
              ELSE IF Loads THEN 0 ELSE lag
    /\ owed' = (owed \cup (Raised(raise) \ Overridden(wr))) \ Cleared(wr)

(* TB_ROWLOG, after the clock: the value a line starts with against that of *)
(* the line before, inside the picture.                                     *)
RowLogOverBlank ==   \* mutant: the lines in blank are skipped, not remembered
    LET seen == line_start' /\ VEBLNK <= vc' /\ vc' < VSBLNK
    IN /\ jumped' = (seen /\ have_prev /\ dpyadr' > prev_dpyadr)
       /\ prev_dpyadr' = IF seen THEN dpyadr' ELSE prev_dpyadr
       /\ have_prev' = (have_prev \/ seen)
RowLog ==
    LET visible == VEBLNK <= vc' /\ vc' < VSBLNK
    IN /\ jumped' = (line_start' /\ visible /\ have_prev /\ dpyadr' > prev_dpyadr)
       /\ prev_dpyadr' = IF line_start' THEN dpyadr' ELSE prev_dpyadr
       /\ have_prev' = IF line_start' THEN visible ELSE have_prev

(* TB_FLIPLOG, after the clock.                                             *)
FlipLog == /\ reported' = (dpyadr' # prev /\ ~line_start')
           /\ prev' = dpyadr'

Clock(cen, wr, raise) ==
    /\ Count(cen) /\ Adjust /\ Address(wr) /\ Interrupts(wr, raise)
    /\ dpystrt' = IF wr.op = "strt" THEN wr.row ELSE dpystrt
    /\ Observe(wr, raise) /\ RowLog /\ FlipLog
    /\ cause' = IF wr.op = "adr" THEN "write" ELSE IF line_start THEN "step" ELSE "none"
    /\ flipped' = IF line_start THEN wr.op = "adr" ELSE flipped \/ wr.op = "adr"

RasterInit(start) ==
    /\ hc = 0 /\ vc = 0 /\ line_start = FALSE /\ dpystrt = start /\ dpyadr = 0 /\ dpy_adj = 0
    /\ intpend = {} /\ hstctl = FALSE /\ buffer = 0 /\ rows = 0 /\ lag = 0 /\ owed = {}
    /\ prev_dpyadr = 0 /\ have_prev = FALSE /\ jumped = FALSE /\ flipped = FALSE
    /\ prev = 0 /\ reported = FALSE /\ cause = "none"

RasterNext == \E cen, raise \in BOOLEAN, wr \in Writes : Clock(cen, wr, raise)
RasterSpec == (\E b \in Buffers : RasterInit(b)) /\ [][RasterNext]_rastervars

-----------------------------------------------------------------------------
(* However late in the picture the program flips, "the rest of the frame    *)
(* shows the new buffer at the right rows" (tms34010.sv:774-782), as many   *)
(* rows into the buffer as lines have been shown; and a picture loaded or   *)
(* written in blank starts at its first row.  Two clocks are exceptions: a  *)
(* write on the clock of a line's step is one row behind for the rest of    *)
(* the frame, and one on the clock of the load puts the whole next frame as *)
(* many rows further as the last one had lines.                             *)
RightRows == dpyadr = (buffer - (rows + lag) * UD) % R

(* An interrupt raised by the raster or the host stays pending until the    *)
(* program clears it, unless another write of INTPEND fell on its clock.     *)
InterruptKept == owed \subseteq intpend

(* TB_ROWLOG calls a step of the row pointer a jump only when the program   *)
(* flipped since the line before, or the rows ran past address zero.        *)
(* TB_FLIPLOG, meant for "a change not made by the per-line raster step"    *)
(* (sim/tb_system.cpp:675), prints those steps too: it looks at line_start  *)
(* a clock after the one the raster steps on.                               *)
ProbesTell == /\ jumped => flipped \/ dpyadr >= R - UD
              /\ reported => cause \in {"write", "step"}

=============================================================================
