---------------------------- MODULE RasterProofs ----------------------------
(***************************************************************************)
(* Theorems about Raster and FrameGrab, for every geometry of the picture. *)
(* Those of Raster hold for every step of a line, width of the row address *)
(* and choice of buffers, those of FrameGrab for every pair of pixel       *)
(* clocks.                                                                 *)
(***************************************************************************)
EXTENDS Raster, FrameGrab, TLAPS

RowAddress == 0 .. R - 1

(* The accumulator is what the lines shown since the top have added up to.  *)
AdjustSums == dpy_adj = (rows * UD) % R

(* TB_ROWLOG remembers the line before.  On the clock it looks at a line,   *)
(* it holds that line's address; from the clock after the line's step on,   *)
(* the address only stands above it when the program flipped or the rows    *)
(* ran past zero.  TB_FLIPLOG holds the address of the clock before.        *)
ProbesKnow ==
    /\ prev = dpyadr
    /\ have_prev =>
          IF line_start THEN Visible /\ dpyadr = prev_dpyadr
          ELSE flipped \/ dpyadr <= prev_dpyadr \/ dpyadr >= R - UD

RasterTypeOK ==
    /\ hc \in Nat /\ vc \in Nat /\ line_start \in BOOLEAN
    /\ dpystrt \in RowAddress /\ dpyadr \in RowAddress /\ dpy_adj \in RowAddress
    /\ buffer \in RowAddress /\ rows \in Nat /\ lag \in Int /\ prev_dpyadr \in RowAddress

RasterInv == RasterTypeOK /\ AdjustSums /\ RightRows /\ InterruptKept /\ ProbesKnow /\ ProbesTell

-----------------------------------------------------------------------------
(* Arithmetic: a remainder is determined by its quotient, and sums and      *)
(* differences may be reduced before they are formed.                       *)
LEMMA DivMod ==
  ASSUME NEW a \in Int, NEW n \in Nat \ {0}
  PROVE  a = n * (a \div n) + (a % n) /\ a \div n \in Int /\ a % n \in 0 .. n - 1
OBVIOUS

LEMMA ModUnique ==
  ASSUME NEW n \in Nat \ {0}, NEW q \in Int, NEW r \in 0 .. n - 1
  PROVE  (n * q + r) % n = r
OBVIOUS

LEMMA AddMultiple ==
  ASSUME NEW n \in Nat \ {0}, NEW q \in Int, NEW a \in Int
  PROVE  (a + n * q) % n = a % n
<1> DEFINE p == a \div n
<1> DEFINE r == a % n
<1>1. a = n * p + r /\ p \in Int /\ r \in 0 .. n - 1
  BY DivMod
<1> HIDE DEF p, r
<1>2. a + n * q = n * (p + q) + r /\ p + q \in Int
  <2>1. n * (p + q) = n * p + n * q
    BY <1>1
  <2> QED BY <1>1, <2>1
<1>3. (n * (p + q) + r) % n = r
  <2> DEFINE s == p + q
  <2>1. s \in Int
    BY <1>2
  <2> HIDE DEF s
  <2>2. (n * s + r) % n = r
    BY <1>1, <2>1, ModUnique
  <2> QED BY <2>2 DEF s
<1> QED
  BY <1>2, <1>3 DEF r

LEMMA ReduceLeft ==
  ASSUME NEW n \in Nat \ {0}, NEW a \in Int, NEW b \in Int
  PROVE  ((a % n) + b) % n = (a + b) % n /\ ((a % n) - b) % n = (a - b) % n
<1> DEFINE p == a \div n
<1> DEFINE r == a % n
<1>1. a = n * p + r /\ p \in Int /\ r \in Int
  BY DivMod
<1> HIDE DEF p, r
<1>2. ASSUME NEW c \in Int PROVE (c + n * p) % n = c % n
  BY <1>1, AddMultiple
<1>3. r + b \in Int /\ r - b \in Int
  BY <1>1
<1>4. (r + b) + n * p = a + b /\ (r - b) + n * p = a - b
  BY <1>1
<1>5. ((r + b) + n * p) % n = (r + b) % n /\ ((r - b) + n * p) % n = (r - b) % n
  BY <1>2, <1>3, Zenon
<1> QED
  BY <1>4, <1>5 DEF r

LEMMA ReduceRight ==
  ASSUME NEW n \in Nat \ {0}, NEW a \in Int, NEW b \in Int
  PROVE  (a - (b % n)) % n = (a - b) % n
<1> DEFINE p == b \div n
<1> DEFINE r == b % n
<1>1. b = n * p + r /\ p \in Int /\ r \in Int
  BY DivMod
<1> HIDE DEF p, r
<1>2. ASSUME NEW c \in Int PROVE (c + n * p) % n = c % n
  BY <1>1, AddMultiple
<1>3. a - b \in Int /\ (a - b) + n * p = a - r
  BY <1>1
<1>4. ((a - b) + n * p) % n = (a - b) % n
  BY <1>2, <1>3, Zenon
<1> QED
  BY <1>3, <1>4 DEF r

LEMMA RowConstants == R \in Nat \ {0} /\ UD \in Int
BY RasterAssumption

(* A step up from a row wraps to the top, and nowhere else.                 *)
LEMMA StepsDown ==
  ASSUME NEW d \in RowAddress
  PROVE  /\ (d - UD) % R \in RowAddress
         /\ (d - UD) % R <= d \/ (d - UD) % R >= R - UD
<1>1. CASE d >= UD
  BY <1>1, RasterAssumption DEF RowAddress
<1>2. CASE d < UD
  <2>1. d - UD = R * (-1) + (d - UD + R) /\ d - UD + R \in 0 .. R - 1
    BY <1>2, RasterAssumption DEF RowAddress
  <2>2. (R * (-1) + (d - UD + R)) % R = d - UD + R
    BY <2>1, RasterAssumption, ModUnique
  <2>3. (d - UD) % R = d - UD + R
    BY <2>1, <2>2
  <2> QED
    BY <2>1, <2>3, RasterAssumption DEF RowAddress
<1> QED
  BY <1>1, <1>2, RasterAssumption DEF RowAddress

LEMMA SmallRow == ASSUME NEW d \in RowAddress PROVE d % R = d
BY RasterAssumption DEF RowAddress

LEMMA RowRange == ASSUME NEW a \in Int PROVE a % R \in RowAddress
BY RasterAssumption, DivMod DEF RowAddress

LEMMA OneMoreRow ==
  ASSUME NEW n \in Nat
  PROVE  n * UD \in Int /\ (n + 1) * UD = n * UD + UD /\ n + 1 - 1 = n
BY RasterAssumption

-----------------------------------------------------------------------------
LEMMA ClockTypes ==
  ASSUME RasterTypeOK, NEW cen \in BOOLEAN, NEW raise \in BOOLEAN, NEW wr \in Writes,
         Clock(cen, wr, raise)
  PROVE  RasterTypeOK' /\ (wr.op \in {"strt", "adr"} => wr.row \in RowAddress)
<1> USE RasterAssumption DEF RasterTypeOK
<1>1. wr.op \in {"strt", "adr"} => wr.row \in RowAddress
  BY DEF Writes, RowAddress
<1>2. hc' \in Nat /\ vc' \in Nat /\ line_start' \in BOOLEAN
  BY DEF Clock, Count
<1>3. dpystrt' \in RowAddress
  BY <1>1 DEF Clock
<1>4. dpy_adj' \in RowAddress
  <2>1. dpy_adj \in Int /\ UD \in Int /\ 0 \in RowAddress
    BY DEF RowAddress
  <2>2. (dpy_adj + UD) % R \in RowAddress
    BY <2>1, RowRange
  <2> QED
    BY <2>1, <2>2 DEF Clock, Adjust
<1>5. dpyadr' \in RowAddress
  <2>1. (dpyadr - UD) % R \in RowAddress
    BY StepsDown
  <2>2. wr.op = "adr" => (wr.row - dpy_adj) % R \in RowAddress
    <3>1. wr.op = "adr" => wr.row - dpy_adj \in Int
      BY <1>1 DEF RowAddress
    <3> QED
      BY <3>1, RowRange
  <2> QED
    BY <2>1, <2>2 DEF Clock, Address
<1>6. buffer' \in RowAddress /\ rows' \in Nat /\ lag' \in Int
  BY <1>1 DEF Clock, Observe
<1>7. prev_dpyadr' \in RowAddress
  BY <1>5 DEF Clock, RowLog
<1> QED
  BY <1>1, <1>2, <1>3, <1>4, <1>5, <1>6, <1>7

(* The top of the picture and a line of it fall on different clocks.        *)
LEMMA LoadsAlone == ASSUME RasterTypeOK, Loads PROVE ~Steps
BY RasterAssumption DEF RasterTypeOK, Loads, Steps, Visible

LEMMA ClockAdjusts ==
  ASSUME RasterTypeOK, AdjustSums, NEW cen \in BOOLEAN, NEW raise \in BOOLEAN, NEW wr \in Writes,
         Clock(cen, wr, raise)
  PROVE  AdjustSums'
<1> USE RasterAssumption
<1>1. CASE Loads
  BY <1>1 DEF Clock, Adjust, Observe, AdjustSums
<1>2. CASE ~Loads /\ Steps
  <2>1. dpy_adj' = (dpy_adj + UD) % R /\ rows' = rows + 1 /\ rows \in Nat
    BY <1>2 DEF Clock, Adjust, Observe, RasterTypeOK
  <2>2. rows * UD \in Int /\ (rows + 1) * UD = rows * UD + UD
    BY <2>1, OneMoreRow
  <2>3. ASSUME NEW a \in Int PROVE ((a % R) + UD) % R = (a + UD) % R
    BY RowConstants, ReduceLeft, Zenon
  <2> QED
    BY <2>1, <2>2, <2>3 DEF AdjustSums
<1>3. CASE ~Loads /\ ~Steps
  BY <1>3 DEF Clock, Adjust, Observe, AdjustSums
<1> QED
  BY <1>1, <1>2, <1>3

(* A write of DPYADR lands as many rows into its buffer as lines were       *)
(* shown before this clock.                                                 *)
LEMMA WriteLands ==
  ASSUME RasterTypeOK, AdjustSums, NEW w \in RowAddress
  PROVE  (w - dpy_adj) % R = (w - rows * UD) % R
<1>1. rows * UD \in Int /\ w \in Int
  BY OneMoreRow, RasterAssumption DEF RasterTypeOK, RowAddress
<1> QED
  BY <1>1, ReduceRight, RasterAssumption DEF AdjustSums

LEMMA ClockRows ==
  ASSUME RasterTypeOK, AdjustSums, RightRows,
         NEW cen \in BOOLEAN, NEW raise \in BOOLEAN, NEW wr \in Writes,
         Clock(cen, wr, raise)
  PROVE  RightRows'
<1>1. rows \in Nat /\ lag \in Int /\ rows * UD \in Int
  BY OneMoreRow DEF RasterTypeOK
<1>2. CASE wr.op = "adr"
  <2>1. dpyadr' = (wr.row - rows * UD) % R /\ buffer' = wr.row
    BY <1>2, ClockTypes, WriteLands DEF Clock, Address, Observe
  <2>2. rows' + lag' = rows
    <3>1. CASE Loads
      BY <1>1, <1>2, <3>1 DEF Clock, Observe
    <3>2. CASE ~Loads /\ Steps
      BY <1>1, <1>2, <3>2 DEF Clock, Observe
    <3>3. CASE ~Loads /\ ~Steps
      BY <1>1, <1>2, <3>3 DEF Clock, Observe
    <3> QED
      BY <3>1, <3>2, <3>3
  <2> QED
    BY <2>1, <2>2, Zenon DEF RightRows
<1>3. CASE wr.op # "adr" /\ Loads
  <2>1. dpyadr' = dpystrt /\ buffer' = dpystrt /\ rows' = 0 /\ lag' = 0
    BY <1>3 DEF Clock, Address, Observe
  <2>2. dpystrt - 0 * UD = dpystrt /\ dpystrt % R = dpystrt
    BY SmallRow, RasterAssumption DEF RasterTypeOK, RowAddress
  <2> QED
    BY <2>1, <2>2 DEF RightRows
<1>4. CASE wr.op # "adr" /\ ~Loads /\ Steps
  <2>1. /\ dpyadr' = (dpyadr - UD) % R /\ buffer' = buffer
        /\ rows' = rows + 1 /\ lag' = lag
    BY <1>4 DEF Clock, Address, Observe
  <2>2. ASSUME NEW a \in Int PROVE ((a % R) - UD) % R = (a - UD) % R
    BY RowConstants, ReduceLeft, Zenon
  <2>3. PICK n \in Int : n = rows + lag
    BY <1>1
  <2>4. n * UD \in Int /\ (n + 1) * UD = n * UD + UD
    BY RasterAssumption
  <2>5. buffer - n * UD \in Int /\ (buffer - n * UD) - UD = buffer - (n + 1) * UD
    BY <2>4, RasterAssumption DEF RasterTypeOK, RowAddress
  <2>6. dpyadr = (buffer - n * UD) % R
    BY <2>3 DEF RightRows
  <2>7. dpyadr' = (buffer - (n + 1) * UD) % R
    BY <2>1, <2>2, <2>5, <2>6
  <2>8. rows' + lag' = n + 1
    BY <1>1, <2>1, <2>3
  <2> QED
    BY <2>1, <2>7, <2>8, Zenon DEF RightRows
<1>5. CASE wr.op # "adr" /\ ~Loads /\ ~Steps
  BY <1>5 DEF Clock, Address, Observe, RightRows
<1> QED
  BY <1>2, <1>3, <1>4, <1>5

(* Whatever assignment of INTPEND wins the clock, an interrupt it loses is  *)
(* one that an overriding write excuses.                                    *)
LEMMA ClockInterrupts ==
  ASSUME InterruptKept, NEW cen \in BOOLEAN, NEW raise \in BOOLEAN, NEW wr \in Writes,
         Clock(cen, wr, raise)
  PROVE  InterruptKept'
<1>1. owed' = (owed \cup (Raised(raise) \ Overridden(wr))) \ Cleared(wr)
  BY DEF Clock, Observe
<1>2. Raised(raise) \subseteq {"DI", "HI"}
  BY DEF Raised
<1>3. CASE wr.op = "clear"
  BY <1>1, <1>2, <1>3 DEF Clock, Interrupts, Overridden, Cleared, InterruptKept
<1>4. CASE wr.op = "keep"
  BY <1>1, <1>2, <1>4 DEF Clock, Interrupts, Overridden, Cleared, InterruptKept
<1>5. CASE wr.op = "hstctl" /\ hstctl
  BY <1>1, <1>2, <1>5 DEF Clock, Interrupts, Overridden, Cleared, InterruptKept
<1>6. CASE wr.op = "hstctl" /\ ~hstctl
  <2>1. Cleared(wr) = {"HI"}
    BY <1>6 DEF Cleared
  <2>2. CASE Fires
    BY <1>1, <1>2, <1>6, <2>1, <2>2 DEF Clock, Interrupts, InterruptKept
  <2>3. CASE ~Fires
    BY <1>1, <1>6, <2>1, <2>3 DEF Clock, Interrupts, Raised, InterruptKept
  <2> QED
    BY <2>2, <2>3
<1>7. CASE wr.op \notin {"clear", "keep", "hstctl"}
  <2>1. CASE Fires
    BY <1>1, <1>2, <1>7, <2>1 DEF Clock, Interrupts, Overridden, InterruptKept
  <2>2. CASE ~Fires
    BY <1>1, <1>7, <2>2 DEF Clock, Interrupts, Raised, InterruptKept
  <2> QED
    BY <2>1, <2>2
<1> QED
  BY <1>3, <1>4, <1>5, <1>6, <1>7

LEMMA ClockProbes ==
  ASSUME RasterTypeOK, ProbesKnow,
         NEW cen \in BOOLEAN, NEW raise \in BOOLEAN, NEW wr \in Writes,
         Clock(cen, wr, raise)
  PROVE  ProbesKnow' /\ ProbesTell'
<1> USE RasterAssumption
<1>1. dpyadr' \in RowAddress /\ prev' = dpyadr'
  BY ClockTypes DEF Clock, FlipLog, RasterTypeOK
<1>2. wr.op # "adr" /\ ~line_start => dpyadr' = dpyadr
  BY DEF Clock, Address, Loads, Steps
<1>3. reported' => cause' \in {"write", "step"}
  BY <1>2 DEF Clock, FlipLog, ProbesKnow
<1>4. have_prev => flipped' \/ dpyadr' <= prev_dpyadr \/ dpyadr' >= R - UD
  <2>1. CASE wr.op = "adr"
    BY <2>1 DEF Clock
  <2>2. CASE wr.op # "adr" /\ ~line_start
    BY <1>2, <2>2 DEF Clock, ProbesKnow
  <2>3. CASE wr.op # "adr" /\ line_start
    <3>1. ASSUME have_prev PROVE dpyadr' = (prev_dpyadr - UD) % R /\ prev_dpyadr \in RowAddress
      <4>1. Visible /\ dpyadr = prev_dpyadr
        BY <2>3, <3>1 DEF ProbesKnow
      <4>2. ~Loads /\ Steps
        BY <2>3, <4>1, LoadsAlone DEF Steps
      <4> QED
        BY <2>3, <4>1, <4>2 DEF Clock, Address, RasterTypeOK
    <3> QED
      BY <3>1, StepsDown
  <2> QED
    BY <2>1, <2>2, <2>3
<1>5. jumped' => flipped' \/ dpyadr' >= R - UD
  BY <1>1, <1>4 DEF Clock, RowLog, RasterTypeOK, RowAddress
<1>6. CASE line_start'
  BY <1>1, <1>3, <1>5, <1>6 DEF Clock, RowLog, ProbesKnow, ProbesTell, Visible
<1>7. CASE ~line_start'
  <2>1. have_prev' = have_prev /\ prev_dpyadr' = prev_dpyadr
    BY <1>7 DEF Clock, RowLog
  <2> QED
    BY <1>1, <1>3, <1>4, <1>5, <1>7, <2>1 DEF ProbesKnow, ProbesTell
<1> QED
  BY <1>6, <1>7

-----------------------------------------------------------------------------
LEMMA RasterInitInv == (\E b \in Buffers : RasterInit(b)) => RasterInv
<1> SUFFICES ASSUME NEW b \in Buffers, RasterInit(b) PROVE RasterInv
  OBVIOUS
<1> USE RasterAssumption DEF RasterInit
<1>1. b \in RowAddress /\ 0 \in RowAddress
  BY DEF RowAddress
<1>2. RasterTypeOK
  <2>1. hc = 0 /\ vc = 0 /\ line_start = FALSE /\ rows = 0 /\ lag = 0
    OBVIOUS
  <2>2. dpystrt = b /\ dpyadr = 0 /\ dpy_adj = 0 /\ buffer = 0 /\ prev_dpyadr = 0
    OBVIOUS
  <2>3. 0 \in Nat /\ 0 \in Int /\ FALSE \in BOOLEAN
    OBVIOUS
  <2>4. hc \in Nat /\ vc \in Nat /\ line_start \in BOOLEAN /\ rows \in Nat /\ lag \in Int
    BY <2>1, <2>3, Zenon
  <2> QED BY <1>1, <2>2, <2>4, Zenon DEF RasterTypeOK
<1>3. (0 * UD) % R = 0 /\ (0 - 0 * UD) % R = 0
  OBVIOUS
<1>4. AdjustSums
  BY <1>3 DEF AdjustSums
<1>6. RightRows
  <2>1. dpyadr = 0 /\ buffer = 0 /\ rows + lag = 0
    OBVIOUS
  <2> QED BY <1>3, <2>1, Zenon DEF RightRows
<1>5. InterruptKept /\ ProbesKnow /\ ProbesTell
  BY DEF InterruptKept, ProbesKnow, ProbesTell
<1> QED
  BY <1>2, <1>4, <1>5, <1>6 DEF RasterInv

LEMMA RasterNextInv == RasterInv /\ [RasterNext]_rastervars => RasterInv'
<1> SUFFICES ASSUME RasterInv, [RasterNext]_rastervars PROVE RasterInv'
  OBVIOUS
<1> USE DEF RasterInv
<1>1. ASSUME NEW cen \in BOOLEAN, NEW raise \in BOOLEAN, NEW wr \in Writes, Clock(cen, wr, raise)
      PROVE  RasterInv'
  BY <1>1, ClockTypes, ClockAdjusts, ClockRows, ClockInterrupts, ClockProbes
<1>2. CASE UNCHANGED rastervars
  BY <1>2 DEF rastervars, counters, display, history, probes, RasterTypeOK, AdjustSums, RightRows,
              InterruptKept, ProbesKnow, ProbesTell, Visible
<1> QED
  BY <1>1, <1>2 DEF RasterNext

(* The inductive invariant of the raster and its probes.                    *)
LEMMA RasterInvariant == RasterSpec => []RasterInv
BY RasterInitInv, RasterNextInv, PTL DEF RasterSpec

(* A flip in the middle of a picture continues at the right row             *)
(* (tms34010.sv, "dpy_adj"), whatever the geometry and however many flips;  *)
(* on the clock of a line's step it is one row behind, and on the clock of  *)
(* the load as many rows out as the last picture had lines.                 *)
THEOREM RasterRightRows == RasterSpec => []RightRows
<1>1. RasterInv => RightRows
  BY DEF RasterInv
<1> QED
  BY <1>1, RasterInvariant, PTL

(* No interrupt is lost except to a write of INTPEND on its own clock       *)
(* (tms34010.sv, the assignments of intpend).                               *)
THEOREM RasterInterruptKept == RasterSpec => []InterruptKept
<1>1. RasterInv => InterruptKept
  BY DEF RasterInv
<1> QED
  BY <1>1, RasterInvariant, PTL

(* What TB_ROWLOG and TB_FLIPLOG print about, in every run                  *)
(* (sim/tb_system.cpp).                                                     *)
THEOREM RasterProbesTell == RasterSpec => []ProbesTell
<1>1. RasterInv => ProbesTell
  BY DEF RasterInv
<1> QED
  BY <1>1, RasterInvariant, PTL

-----------------------------------------------------------------------------
Pixels == (0 .. Height - 1) \X (0 .. Width - 1)
BenchStates == [frames : Nat, y : Int, x : Nat, vs : BOOLEAN, de : BOOLEAN]

FrameTypes ==
    /\ pix \in 0 .. 2 * PixClocks - 1 /\ pdiv \in 0 .. OutClocks - 1
    /\ hcount \in 0 .. r_htotal /\ vcount \in 0 .. r_vtotal /\ number \in Nat
    /\ starts \in BOOLEAN /\ vis_q \in BOOLEAN /\ out_run \in BOOLEAN /\ vs_line \in BOOLEAN
    /\ out_cnt \in Nat /\ frames \in Nat /\ x \in Nat /\ y \in Int
    /\ prev_vs \in BOOLEAN /\ prev_de \in BOOLEAN
    /\ \A i \in 1 .. 3 : pipe[i].de \in BOOLEAN /\ pipe[i].vs \in BOOLEAN
    /\ coming.visible \in BOOLEAN /\ shown.visible \in BOOLEAN
    /\ DOMAIN fb = Pixels /\ DOMAIN kept = Pixels
    /\ starts => hcount = 0 /\ pix = 0 /\ (number >= 1 \/ vcount >= 1)

(* What the registers of a line hold, and on the clock that starts a line   *)
(* still hold of the line before.                                           *)
InPicture(v) == r_veblnk <= v /\ v < r_vsblnk
LineOfRegisters == IF starts THEN vcount - 1 ELSE vcount
Registers ==
    /\ coming.visible <=> InPicture(LineOfRegisters)
    /\ coming.visible => coming.line = LineOfRegisters /\ coming.frame = number
    /\ vs_line <=> LineOfRegisters \in 0 .. r_vesync - 1 /\ ~(number = 0 /\ LineOfRegisters = 0)
    /\ ~starts => /\ shown.visible <=> InPicture(LineOfRegisters - 1)
                  /\ shown.visible => shown.line = LineOfRegisters - 1 /\ shown.frame = number

(* The clocks since the window of the line opened, and those it is open.    *)
Begun   == hcount > r_heblnk \/ (hcount = r_heblnk /\ pix >= PixClocks)
Over    == hcount > r_hsblnk \/ (hcount = r_hsblnk /\ pix >= PixClocks)
Elapsed == 2 * PixClocks * (hcount - r_heblnk) + pix - PixClocks
Open    == 2 * PixClocks * (r_hsblnk - r_heblnk)

(* The read-out follows the window at its own clock, never slower than it,  *)
(* and its last beat leaves before the line ends.                           *)
Windows ==
    /\ vis_q <=> shown.visible /\ Begun /\ ~Over
    /\ out_run => /\ shown.visible /\ Begun /\ out_cnt <= Width - 1
                  /\ Elapsed <= OutClocks * out_cnt + pdiv
                  /\ OutClocks * out_cnt + pdiv <= Elapsed + OutClocks - 1
    /\ ~out_run /\ pipe[1].de => shown.visible /\ Begun /\ Elapsed <= Open + pdiv

(* The bench, as a function of the beats it has seen.                       *)
Completes(b, beat) == beat.vs /\ ~b.vs
Rises(b, beat)     == beat.de /\ ~b.de
Seen(b, beat) ==
    [frames |-> IF Completes(b, beat) THEN b.frames + 1 ELSE b.frames,
     y      |-> IF Rises(b, beat) THEN (IF Completes(b, beat) THEN 0 ELSE b.y + 1)
                ELSE IF Completes(b, beat) THEN -1 ELSE b.y,
     x      |-> IF Rises(b, beat) THEN 1 ELSE IF beat.de THEN b.x + 1 ELSE b.x,
     vs     |-> beat.vs,
     de     |-> beat.de]

(* The bench now, and once it has seen the beats that are on their way.     *)
B0 == [frames |-> frames, y |-> y, x |-> x, vs |-> prev_vs, de |-> prev_de]
B1 == Seen(B0, pipe[3])
B2 == Seen(B1, pipe[2])
B3 == Seen(B2, pipe[1])
Beat == [de |-> out_run, vs |-> vs_line, rgb |-> Pixel]

(* Frame zero has a vertical sync of its own when the sync is two lines.    *)
Early      == IF r_vesync >= 2 THEN 1 ELSE 0
FrameOf(b) == b.frames - Early
RowDone(b, r) == b.y = r /\ (r # -1 => b.x = Width)

(* What a beat must be for the bench to put it where it belongs.            *)
BeatFits(b, beat) ==
    /\ Completes(b, beat) => ~beat.de /\ (b.frames >= 1 => RowDone(b, Height - 1))
    /\ Rises(b, beat) => b.y = -1 \/ b.x = Width
    /\ beat.de => /\ Seen(b, beat).y \in 0 .. Height - 1 /\ Seen(b, beat).x \in 1 .. Width
                  /\ beat.rgb = <<FrameOf(Seen(b, beat)), r_veblnk + Seen(b, beat).y, Seen(b, beat).x - 1>>

(* Where the raster's counters say the bench must be: the syncs it has      *)
(* counted, the row that is done and how much of the next one has left.     *)
LastRow(v) == IF v <= r_veblnk + 1 THEN -1 ELSE IF v <= r_vsblnk + 1 THEN v - 2 - r_veblnk ELSE Height - 1
SyncDue(b) == /\ starts \/ ~b.vs
              /\ (number >= 1 /\ vcount = 0) \/ (number = 0 /\ vcount = 1 /\ Early = 1)
BeforeSync(b) == SyncDue(b) \/ (number = 0 /\ vcount = 0 /\ Early = 1)

SyncsFollow(b) ==
    /\ vs_line /\ ~b.vs => SyncDue(b) /\ hcount = 0 /\ pix - 1 <= pdiv
    /\ b.vs /\ ~vs_line => ~starts /\ vcount = r_vesync /\ hcount = 0 /\ pix - 1 <= pdiv
FramesFollow(b) == b.frames = number + Early - (IF BeforeSync(b) THEN 1 ELSE 0)
RowsFollow(b) ==
    IF BeforeSync(b) THEN RowDone(b, IF number = 0 THEN -1 ELSE Height - 1)
    ELSE IF out_run /\ b.de THEN b.y = LastRow(vcount) + 1 /\ b.x = out_cnt /\ out_cnt >= 1
    ELSE IF out_run THEN RowDone(b, LastRow(vcount)) /\ out_cnt = 0
    ELSE RowDone(b, LastRow(IF Begun THEN vcount + 1 ELSE vcount))
Ahead(b) == SyncsFollow(b) /\ FramesFollow(b) /\ RowsFollow(b)

(* The beats on their way fit, and behind the last of them the bench is     *)
(* where the raster expects it.                                             *)
Chain == BeatFits(B0, pipe[3]) /\ BeatFits(B1, pipe[2]) /\ BeatFits(B2, pipe[1]) /\ Ahead(B3)

(* What the bench has put into its buffers so far.                          *)
PictureOf(buf, n) == \A p \in Pixels : buf[p] = <<n, r_veblnk + p[1], p[2]>>
Filled(buf, b) == \A p \in Pixels : p[1] < b.y \/ (p[1] = b.y /\ p[2] < b.x) =>
                      buf[p] = <<FrameOf(b), r_veblnk + p[1], p[2]>>
Grabbed ==
    /\ Filled(fb, B0)
    /\ frames = 2 => Filled(kept, B0)
    /\ frames >= 2 /\ y = -1 => PictureOf(fb, frames - Early - 1)
    /\ frames = 3 => PictureOf(kept, 2 - Early)

FrameInv == FrameTypes /\ Registers /\ Windows /\ Chain /\ Grabbed

-----------------------------------------------------------------------------
LEMMA FrameConstants ==
  /\ r_heblnk \in Nat /\ r_hsblnk \in Nat /\ r_htotal \in Nat /\ r_vesync \in Nat
  /\ r_veblnk \in Nat /\ r_vsblnk \in Nat /\ r_vtotal \in Nat
  /\ r_heblnk < r_hsblnk /\ r_hsblnk <= r_htotal
  /\ 0 < r_vesync /\ r_vesync <= r_veblnk /\ r_veblnk < r_vsblnk /\ r_vsblnk <= r_vtotal
  /\ PixClocks \in Nat \ {0} /\ OutClocks \in Nat \ {0} /\ OutClocks <= PixClocks
BY FrameAssumption

LEMMA Sizes == /\ Width \in Nat /\ Width >= 2 /\ Height \in Nat /\ Height >= 1
               /\ Width = 2 * (r_hsblnk - r_heblnk) /\ Height = r_vsblnk - r_veblnk
               /\ Early \in 0 .. 1 /\ (Early = 1 <=> r_vesync >= 2)
BY FrameConstants DEF Width, Height, Early

LEMMA Distributes ==
  ASSUME NEW p \in Int, NEW n \in Int
  PROVE  p * n \in Int /\ p * (n + 1) = p * n + p
OBVIOUS

LEMMA Monotone ==
  ASSUME NEW p \in Nat, NEW n \in Int, NEW m \in Int, n <= m
  PROVE  p * n <= p * m /\ p * n \in Int /\ p * m \in Int
<1>1. m - n \in Nat /\ p * (m - n) = p * m - p * n
  OBVIOUS
<1>2. ASSUME NEW d \in Nat PROVE p * d \in Nat
  OBVIOUS
<1> QED
  BY <1>1, <1>2

(* The clocks since the window opened, and when it is begun and over.       *)
LEMMA ClocksSince ==
  ASSUME FrameTypes
  PROVE  /\ Elapsed \in Int /\ Open \in Int
         /\ Begun <=> Elapsed >= 0
         /\ Over <=> Elapsed >= Open
         /\ hcount >= r_htotal /\ pix = 2 * PixClocks - 1 => Elapsed >= Open + PixClocks - 1
         /\ hcount = r_heblnk => Elapsed = pix - PixClocks
<1> DEFINE two == 2 * PixClocks
<1> DEFINE d == hcount - r_heblnk
<1> DEFINE e == hcount - r_hsblnk
<1> DEFINE w == r_hsblnk - r_heblnk
<1>t. /\ two \in Nat /\ d \in Int /\ e \in Int /\ w \in Int /\ d = e + w
      /\ pix \in Int /\ 0 <= pix /\ pix <= two - 1 /\ two = PixClocks + PixClocks /\ PixClocks \in Nat
  BY FrameConstants DEF FrameTypes
<1>0. /\ Elapsed = two * d + pix - PixClocks /\ Open = two * w
      /\ (Begun <=> d > 0 \/ (d = 0 /\ pix >= PixClocks))
      /\ (Over <=> e > 0 \/ (e = 0 /\ pix >= PixClocks))
      /\ (hcount >= r_htotal => e >= 0)
      /\ (hcount = r_heblnk <=> d = 0)
  BY FrameConstants DEF FrameTypes, Elapsed, Open, Begun, Over
<1> HIDE DEF two, d, e, w
<1>1. two * d \in Int /\ two * e \in Int /\ two * w \in Int /\ two * d = two * e + two * w
  BY <1>t
<1>2. ASSUME NEW n \in Int
      PROVE  /\ n > 0 => two * n >= two
             /\ n < 0 => two * n <= -two
             /\ n = 0 => two * n = 0
             /\ two * n \in Int
  <2>1. CASE n > 0
    BY <2>1, <1>t, Monotone, two * 1 = two
  <2>2. CASE n < 0
    BY <2>2, <1>t, Monotone, two * (-1) = -two
  <2>3. CASE n = 0
    BY <2>3, <1>t
  <2> QED
    BY <2>1, <2>2, <2>3, <1>t
<1>3. Begun <=> Elapsed >= 0
  BY <1>0, <1>1, <1>2, <1>t
<1>4. Over <=> Elapsed >= Open
  BY <1>0, <1>1, <1>2, <1>t
<1>5. hcount >= r_htotal /\ pix = 2 * PixClocks - 1 => Elapsed >= Open + PixClocks - 1
  BY <1>0, <1>1, <1>2, <1>t
<1>6. hcount = r_heblnk => Elapsed = pix - PixClocks
  BY <1>0, <1>1, <1>2, <1>t
<1> QED
  BY <1>0, <1>1, <1>t, <1>3, <1>4, <1>5, <1>6

(* The read-out is never slower than the window it was given.               *)
LEMMA ReadOutFits ==
  ASSUME NEW c \in Nat
  PROVE  /\ OutClocks * c \in Int /\ OutClocks * (c + 1) = OutClocks * c + OutClocks
         /\ c <= Width - 1 => OutClocks * c + OutClocks <= Open
         /\ c + 1 = Width => OutClocks * (c + 1) <= Open
<1>1. OutClocks * c \in Int /\ OutClocks * (c + 1) = OutClocks * c + OutClocks
  BY FrameConstants, Distributes
<1>2. c <= Width - 1 => OutClocks * (c + 1) <= OutClocks * Width
  BY FrameConstants, Sizes, Monotone
<1>3. OutClocks * Width <= Open
  <2>1. Width * OutClocks <= Width * PixClocks /\ Width * OutClocks \in Int /\ Width * PixClocks \in Int
    BY FrameConstants, Sizes, Monotone
  <2>2. Width * PixClocks = Open
    <3> DEFINE w == r_hsblnk - r_heblnk
    <3>1. w \in Int /\ Width = 2 * w /\ Open = 2 * PixClocks * w
      BY FrameConstants, Sizes DEF Open
    <3> HIDE DEF w
    <3> QED
      BY <3>1, FrameConstants
  <2>3. OutClocks * Width = Width * OutClocks
    BY FrameConstants, Sizes
  <2> QED
    BY <2>1, <2>2, <2>3
<1>4. OutClocks * Width \in Int /\ OutClocks * (c + 1) \in Int /\ Open \in Int
  BY FrameConstants, Sizes DEF Open
<1> QED
  BY <1>1, <1>2, <1>3, <1>4, Sizes

-----------------------------------------------------------------------------
(* A line that is read out is one of the picture, and neither starts nor    *)
(* ends meanwhile.                                                          *)
LEMMA RunningLine ==
  ASSUME FrameTypes, Registers, Windows, out_run
  PROVE  /\ ~starts /\ Begun /\ ~Over /\ Elapsed < Open
         /\ vcount \in r_veblnk + 1 .. r_vsblnk /\ shown.line = vcount - 1 /\ shown.frame = number
         /\ ~(cen_vid /\ hcount >= r_htotal)
<1>1. ~starts
  BY ClocksSince, FrameConstants DEF FrameTypes, Windows, Begun
<1>2. shown.visible /\ Begun /\ Elapsed <= OutClocks * out_cnt + pdiv /\ out_cnt <= Width - 1
  BY DEF Windows
<1>3. OutClocks * out_cnt + OutClocks <= Open /\ OutClocks * out_cnt \in Int
  BY <1>2, ReadOutFits DEF FrameTypes
<1>4. Elapsed < Open
  BY <1>2, <1>3, ClocksSince, FrameConstants DEF FrameTypes
<1>5. ~Over
  BY <1>4, ClocksSince
<1>6. vcount \in r_veblnk + 1 .. r_vsblnk /\ shown.line = vcount - 1 /\ shown.frame = number
  BY <1>1, <1>2, FrameConstants DEF Registers, LineOfRegisters, InPicture, FrameTypes
<1>7. ~(cen_vid /\ hcount >= r_htotal)
  <2> SUFFICES ASSUME cen_vid, hcount >= r_htotal PROVE FALSE
    OBVIOUS
  <2>1. pix = 2 * PixClocks - 1
    BY FrameConstants DEF cen_vid, FrameTypes
  <2> QED
    BY <2>1, <1>4, ClocksSince, FrameConstants
<1> QED
  BY <1>1, <1>2, <1>4, <1>5, <1>6, <1>7

(* The clock on which the window of a line opens.                           *)
Opens == cen_pix /\ vis_now /\ ~vis_q

LEMMA Opening ==
  ASSUME PixClocks >= 2, FrameTypes, Registers, Windows, Opens
  PROVE  /\ hcount = r_heblnk /\ pix = PixClocks - 1 /\ ~cen_vid /\ ~starts /\ ~Begun
         /\ ~out_run /\ ~pipe[1].de /\ shown.visible /\ Elapsed = -1
         /\ vcount \in r_veblnk + 1 .. r_vsblnk
<1>1. shown.visible /\ r_heblnk <= hcount /\ hcount < r_hsblnk /\ ~Over
  BY FrameConstants DEF Opens, vis_now, Over, FrameTypes
<1>2. ~Begun
  BY <1>1 DEF Windows, Opens
<1>3. hcount = r_heblnk /\ pix < PixClocks
  BY <1>1, <1>2, FrameConstants DEF Begun, FrameTypes
<1>4. pix = PixClocks - 1 /\ ~cen_vid
  BY <1>3, FrameConstants DEF Opens, cen_pix, cen_vid, FrameTypes
<1>5. ~starts
  BY <1>4, FrameConstants DEF FrameTypes
<1>6. ~out_run /\ ~pipe[1].de
  BY <1>2 DEF Windows, FrameTypes
<1>7. vcount \in r_veblnk + 1 .. r_vsblnk
  BY <1>1, <1>5, FrameConstants DEF Registers, LineOfRegisters, InPicture, FrameTypes
<1>8. Elapsed = -1
  BY <1>3, <1>4, ClocksSince, FrameConstants
<1> QED
  BY <1>1, <1>2, <1>3, <1>4, <1>5, <1>6, <1>7, <1>8

(* Where a clock takes the raster.                                          *)
LEMMA StepOfRaster ==
  ASSUME FrameTypes, Rasters
  PROVE  /\ pix' \in 0 .. 2 * PixClocks - 1 /\ pdiv' \in 0 .. OutClocks - 1
         /\ hcount' \in 0 .. r_htotal /\ vcount' \in 0 .. r_vtotal /\ number' \in Nat
         /\ starts' \in BOOLEAN /\ (starts' <=> cen_vid /\ hcount >= r_htotal)
         /\ starts' => hcount' = 0 /\ pix' = 0 /\ (number' >= 1 \/ vcount' >= 1)
         /\ cen_vid <=> pix = 2 * PixClocks - 1
         /\ starts => ~cen_vid
         /\ ~(cen_vid /\ hcount >= r_htotal) =>
              /\ Elapsed' = Elapsed + 1 /\ ~starts' /\ vcount' = vcount /\ number' = number
              /\ Begun => Begun'
              /\ ~Begun /\ Begun' => hcount = r_heblnk /\ pix = PixClocks - 1 /\ cen_pix
<1>1. cen_vid <=> pix = 2 * PixClocks - 1
  BY FrameConstants DEF cen_vid, FrameTypes
<1>2. /\ pix' \in 0 .. 2 * PixClocks - 1 /\ pdiv' \in 0 .. OutClocks - 1
      /\ hcount' \in 0 .. r_htotal /\ vcount' \in 0 .. r_vtotal /\ number' \in Nat
  BY <1>1, FrameConstants DEF Rasters, FrameTypes, cen_out
<1>3. starts' \in BOOLEAN /\ (starts' <=> cen_vid /\ hcount >= r_htotal)
  BY DEF Rasters, cen_vid
<1>4. starts' => hcount' = 0 /\ pix' = 0 /\ (number' >= 1 \/ vcount' >= 1)
  BY <1>3, FrameConstants DEF Rasters, FrameTypes
<1>5. starts => ~cen_vid
  BY <1>1, FrameConstants DEF FrameTypes
<1>6. ASSUME ~(cen_vid /\ hcount >= r_htotal)
      PROVE  /\ Elapsed' = Elapsed + 1 /\ ~starts' /\ vcount' = vcount /\ number' = number
             /\ Begun => Begun'
             /\ ~Begun /\ Begun' => hcount = r_heblnk /\ pix = PixClocks - 1 /\ cen_pix
  <2>1. ~starts' /\ vcount' = vcount /\ number' = number
    BY <1>6, <1>3 DEF Rasters
  <2>2. Elapsed' = Elapsed + 1
    <3> DEFINE two == 2 * PixClocks
    <3> DEFINE d == hcount - r_heblnk
    <3> DEFINE e == hcount' - r_heblnk
    <3>1. two \in Nat /\ d \in Int /\ e \in Int /\ Elapsed = two * d + pix - PixClocks /\ Elapsed' = two * e + pix' - PixClocks
      BY <1>2, FrameConstants DEF FrameTypes, Elapsed
    <3>2. IF cen_vid THEN e = d + 1 /\ pix' = 0 /\ pix = two - 1 ELSE e = d /\ pix' = pix + 1
      BY <1>1, <1>2, <1>6, FrameConstants DEF Rasters, FrameTypes
    <3> HIDE DEF two, d, e
    <3>3. two * d \in Int /\ two * (d + 1) = two * d + two
      BY <3>1, Distributes
    <3>4. pix \in Int /\ PixClocks \in Int
      BY FrameConstants DEF FrameTypes
    <3>5. CASE cen_vid
      BY <3>5, <3>1, <3>2, <3>3, <3>4
    <3>6. CASE ~cen_vid
      BY <3>6, <3>1, <3>2, <3>3, <3>4
    <3> QED
      BY <3>5, <3>6
  <2>3. /\ Begun => Begun'
        /\ ~Begun /\ Begun' => hcount = r_heblnk /\ pix = PixClocks - 1 /\ cen_pix
    BY <1>1, <1>6, FrameConstants DEF Begun, Rasters, FrameTypes, cen_pix
  <2> QED
    BY <2>1, <2>2, <2>3
<1> QED
  BY <1>1, <1>2, <1>3, <1>4, <1>5, <1>6

LEMMA StepOfRegisters ==
  ASSUME FrameTypes, Registers, Rasters, Lines
  PROVE  /\ coming'.visible \in BOOLEAN /\ shown'.visible \in BOOLEAN /\ vs_line' \in BOOLEAN
         /\ Registers'
<1>r. /\ vcount' \in 0 .. r_vtotal /\ number' \in Nat /\ starts' \in BOOLEAN
      /\ (starts => ~starts' /\ vcount' = vcount /\ number' = number)
  BY StepOfRaster
<1>1. CASE starts
  <2>1. /\ ~starts' /\ vcount' = vcount /\ number' = number /\ LineOfRegisters = vcount - 1
    BY <1>1, <1>r DEF LineOfRegisters
  <2>2. LineOfRegisters' = vcount
    BY <2>1 DEF LineOfRegisters
  <2>3. /\ shown' = coming /\ vs_line' = (vcount < r_vesync)
        /\ coming' = [visible |-> r_veblnk <= vcount /\ vcount < r_vsblnk, line |-> vcount, frame |-> number]
    BY <1>1 DEF Lines
  <2>4. number >= 1 \/ vcount >= 1
    BY <1>1 DEF FrameTypes
  <2>5. /\ coming'.visible = (r_veblnk <= vcount /\ vcount < r_vsblnk)
        /\ coming'.line = vcount /\ coming'.frame = number
    BY <2>3
  <2>6. coming'.visible <=> InPicture(vcount)
    BY <2>5 DEF InPicture
  <2>7. vs_line' <=> vcount \in 0 .. r_vesync - 1 /\ ~(number = 0 /\ vcount = 0)
    <3>1. vcount < r_vesync <=> vcount \in 0 .. r_vesync - 1 /\ ~(number = 0 /\ vcount = 0)
      BY <2>4, FrameConstants DEF FrameTypes
    <3> QED
      BY <2>3, <3>1, Zenon
  <2>8. /\ shown'.visible <=> InPicture(vcount - 1)
        /\ shown'.visible => shown'.line = vcount - 1 /\ shown'.frame = number
    BY <2>1, <2>3 DEF Registers
  <2>9. coming'.visible \in BOOLEAN /\ shown'.visible \in BOOLEAN /\ vs_line' \in BOOLEAN
    BY <2>3, <2>5 DEF FrameTypes
  <2>10. number' = number /\ LineOfRegisters' = vcount
    BY <2>1, <2>2
  <2> QED
    BY <2>10, <2>5, <2>6, <2>7, <2>8, <2>9 DEF Registers
<1>2. CASE ~starts
  <2>1. shown' = shown /\ coming' = coming /\ vs_line' = vs_line
    BY <1>2 DEF Lines
  <2>2. CASE ~starts'
    <3>1. vcount' = vcount /\ number' = number
      BY <2>2, FrameConstants DEF Rasters, FrameTypes
    <3>2. LineOfRegisters' = LineOfRegisters
      BY <1>2, <2>2, <3>1 DEF LineOfRegisters
    <3> QED
      BY <1>2, <2>1, <3>1, <3>2 DEF Registers, FrameTypes
  <2>3. CASE starts'
    <3>1. LineOfRegisters = vcount /\ LineOfRegisters' = vcount' - 1
      BY <1>2, <2>3 DEF LineOfRegisters
    <3>2. IF vcount = r_vtotal THEN vcount' = 0 /\ number' = number + 1
          ELSE vcount' = vcount + 1 /\ number' = number
      <4>1. cen_vid /\ hcount >= r_htotal
        BY <2>3, StepOfRaster
      <4> QED
        BY <4>1, FrameConstants DEF Rasters, FrameTypes
    <3>3. CASE vcount = r_vtotal
      <4>1. ~InPicture(vcount) /\ ~InPicture(-1) /\ ~(vcount \in 0 .. r_vesync - 1) /\ vcount' - 1 = -1
        BY <3>2, <3>3, FrameConstants DEF InPicture, FrameTypes
      <4>2. ~coming'.visible /\ ~vs_line'
        BY <2>1, <3>1, <4>1 DEF Registers, FrameTypes
      <4> QED
        BY <2>1, <2>3, <3>1, <4>1, <4>2, FrameConstants DEF Registers, FrameTypes
    <3>4. CASE vcount # r_vtotal
      <4>1. LineOfRegisters' = vcount /\ number' = number
        BY <3>1, <3>2, <3>4, FrameConstants DEF FrameTypes
      <4> QED
        BY <2>1, <2>3, <3>1, <4>1 DEF Registers, FrameTypes
    <3> QED
      BY <3>3, <3>4
  <2> QED
    BY <1>r, <2>2, <2>3
<1> QED
  BY <1>1, <1>2 DEF FrameTypes

-----------------------------------------------------------------------------
LEMMA StepOfWindow ==
  ASSUME PixClocks >= 2, FrameTypes, Registers, Windows, Rasters, Lines, Window, Pipeline
  PROVE  /\ vis_q' \in BOOLEAN /\ out_run' \in BOOLEAN /\ out_cnt' \in Nat
         /\ Windows'
<1>1. CASE starts
  <2>1. /\ ~Begun /\ ~Begun' /\ ~cen_pix
    BY <1>1, FrameConstants, StepOfRaster DEF FrameTypes, Begun, cen_pix, Rasters, cen_vid
  <2>2. ~vis_q /\ ~out_run /\ ~pipe[1].de
    BY <2>1 DEF Windows, FrameTypes
  <2>3. vis_q' = vis_q /\ out_run' = out_run /\ out_cnt' = out_cnt
    BY <2>1, <2>2 DEF Window
  <2>4. ~pipe'[1].de
    BY <2>2 DEF Pipeline
  <2> QED
    BY <2>1, <2>2, <2>3, <2>4 DEF Windows, FrameTypes
<1>2. CASE starts'
  <2>1. cen_vid /\ hcount >= r_htotal /\ ~starts /\ hcount' = 0 /\ pix' = 0 /\ pix = 2 * PixClocks - 1
    BY <1>2, StepOfRaster
  <2>2. ~Begun' /\ Over /\ ~vis_now
    BY <2>1, FrameConstants DEF Begun, Over, vis_now, FrameTypes
  <2>3. ~out_run /\ ~vis_q
    BY <2>1, <2>2, RunningLine DEF Windows, FrameTypes
  <2>4. vis_q' \in BOOLEAN /\ ~vis_q' /\ ~out_run' /\ out_run' = out_run /\ out_cnt' = out_cnt
    <3>1. vis_q' = IF cen_pix THEN vis_now ELSE vis_q
      BY DEF Window
    <3>2. vis_now \in BOOLEAN
      BY DEF vis_now
    <3>3. out_run' = out_run /\ out_cnt' = out_cnt
      BY <2>2, <2>3 DEF Window
    <3> QED
      BY <2>2, <2>3, <3>1, <3>2, <3>3 DEF FrameTypes
  <2>5. ~pipe'[1].de
    <3>1. CASE cen_out
      BY <3>1, <2>3 DEF Pipeline
    <3>2. CASE ~cen_out
      <4>1. Elapsed >= Open + PixClocks - 1 /\ pdiv < OutClocks - 1 /\ Elapsed \in Int /\ Open \in Int
        BY <3>2, <2>1, ClocksSince, FrameConstants DEF cen_out, FrameTypes
      <4>2. ~pipe[1].de
        BY <4>1, <2>3, FrameConstants DEF Windows, FrameTypes
      <4> QED
        BY <3>2, <4>2 DEF Pipeline
    <3> QED
      BY <3>1, <3>2
  <2> QED
    BY <2>2, <2>4, <2>5 DEF Windows, FrameTypes
<1>3. CASE ~starts /\ ~starts'
  <2>1. /\ Elapsed' = Elapsed + 1 /\ Elapsed \in Int /\ Open \in Int /\ Open' = Open
        /\ Begun => Begun'
        /\ ~Begun /\ Begun' => hcount = r_heblnk /\ pix = PixClocks - 1 /\ cen_pix
        /\ shown' = shown
    BY <1>3, StepOfRaster, ClocksSince DEF Lines, Open
  <2>2. pdiv' = (IF cen_out THEN 0 ELSE pdiv + 1) /\ pdiv \in 0 .. OutClocks - 1 /\ pdiv' \in 0 .. OutClocks - 1
    BY StepOfRaster DEF Rasters, FrameTypes
  <2>3. vis_q' \in BOOLEAN /\ (vis_q' <=> shown'.visible /\ Begun' /\ ~Over')
    <3>1. vis_q' = IF cen_pix THEN vis_now ELSE vis_q
      BY DEF Window
    <3>2. CASE cen_pix
      <4>1. vis_now <=> shown.visible /\ Begun' /\ ~Over'
        BY <3>2, <1>3, StepOfRaster, FrameConstants DEF vis_now, Begun, Over, Rasters, FrameTypes, cen_pix, cen_vid
      <4>2. vis_now \in BOOLEAN
        BY DEF vis_now
      <4>3. vis_q' = vis_now
        BY <3>1, <3>2
      <4> QED
        BY <2>1, <4>1, <4>2, <4>3
    <3>3. CASE ~cen_pix
      <4>1. (Begun' <=> Begun) /\ (Over' <=> Over)
        BY <3>3, <1>3, StepOfRaster, FrameConstants DEF Begun, Over, Rasters, FrameTypes, cen_pix, cen_vid
      <4> QED
        BY <2>1, <3>1, <3>3, <4>1 DEF Windows, FrameTypes
    <3> QED
      BY <3>2, <3>3
  <2>4. CASE Opens
    <3>1. Elapsed = -1 /\ shown.visible /\ out_run' /\ out_run' = TRUE /\ out_cnt' = 0
      BY <2>4, Opening DEF Window, Opens
    <3>2. Elapsed' = 0 /\ Begun'
      BY <3>1, <2>1, <2>4, Opening, StepOfRaster, FrameConstants DEF Begun, Rasters, FrameTypes
    <3>3. OutClocks * out_cnt' = 0
      BY <3>1, FrameConstants
    <3>4. out_cnt' <= Width - 1 /\ out_cnt' \in Nat
      BY <3>1, Sizes
    <3> QED
      BY <2>1, <2>2, <2>3, <3>1, <3>2, <3>3, <3>4, FrameConstants DEF Windows
  <2>5. CASE ~Opens /\ cen_out /\ out_run
    <3>1. out_cnt' = out_cnt + 1 /\ out_run' = (out_cnt + 1 # Width) /\ pipe'[1].de /\ out_run \in BOOLEAN
      BY <2>5 DEF Window, Opens, Pipeline, FrameTypes
    <3>2. /\ shown.visible /\ Begun /\ out_cnt <= Width - 1 /\ out_cnt \in Nat
          /\ Elapsed <= OutClocks * out_cnt + pdiv
          /\ OutClocks * out_cnt + pdiv <= Elapsed + OutClocks - 1
          /\ pdiv = OutClocks - 1 /\ pdiv' = 0
      BY <2>5, <2>2 DEF Windows, FrameTypes, cen_out
    <3>3. OutClocks * (out_cnt + 1) = OutClocks * out_cnt + OutClocks /\ OutClocks * out_cnt \in Int
      BY <3>2, ReadOutFits
    <3>4. out_cnt + 1 = Width => OutClocks * (out_cnt + 1) <= Open
      BY <3>2, ReadOutFits
    <3>5. /\ Elapsed' <= OutClocks * (out_cnt + 1)
          /\ OutClocks * (out_cnt + 1) <= Elapsed' + OutClocks - 1
      BY <2>1, <3>2, <3>3, FrameConstants
    <3>6. out_cnt' \in Nat /\ out_run' \in BOOLEAN /\ (out_run' <=> out_cnt + 1 # Width)
      <4>1. out_cnt' \in Nat
        BY <3>1, <3>2
      <4>2. (out_cnt + 1 # Width) \in BOOLEAN
        OBVIOUS
      <4>3. out_run' \in BOOLEAN /\ (out_run' <=> out_cnt + 1 # Width)
        BY <3>1, <4>2, Zenon
      <4> QED
        BY <4>1, <4>3
    <3>7. out_run' => out_cnt' <= Width - 1
      BY <3>6, <3>1, <3>2, Sizes
    <3>8. OutClocks * out_cnt' = OutClocks * (out_cnt + 1)
      BY <3>1
    <3>9. out_run' => /\ shown'.visible /\ Begun' /\ out_cnt' <= Width - 1
                      /\ Elapsed' <= OutClocks * out_cnt' + pdiv'
                      /\ OutClocks * out_cnt' + pdiv' <= Elapsed' + OutClocks - 1
      BY <2>1, <3>2, <3>3, <3>5, <3>7, <3>8, FrameConstants
    <3>10. ~out_run' => shown'.visible /\ Begun' /\ Elapsed' <= Open' + pdiv'
      BY <2>1, <3>2, <3>3, <3>4, <3>5, <3>6, FrameConstants
    <3> QED
      BY <2>3, <3>6, <3>9, <3>10 DEF Windows
  <2>6. CASE ~Opens /\ ~(cen_out /\ out_run)
    <3>1. out_cnt' = out_cnt /\ out_run' = out_run
      BY <2>6 DEF Window, Opens
    <3>2. out_run => /\ ~cen_out /\ pdiv' = pdiv + 1 /\ OutClocks * out_cnt \in Int
      BY <2>6, <2>2, ReadOutFits DEF FrameTypes
    <3>3. out_run' => /\ shown'.visible /\ Begun' /\ out_cnt' <= Width - 1
                      /\ Elapsed' <= OutClocks * out_cnt' + pdiv'
                      /\ OutClocks * out_cnt' + pdiv' <= Elapsed' + OutClocks - 1
      BY <2>1, <2>2, <3>1, <3>2, FrameConstants DEF Windows
    <3>4. ~out_run' /\ pipe'[1].de => ~cen_out /\ pipe[1].de /\ ~out_run /\ pdiv' = pdiv + 1
      BY <2>2, <3>1 DEF Pipeline
    <3>5. ~out_run' /\ pipe'[1].de => shown'.visible /\ Begun' /\ Elapsed' <= Open' + pdiv'
      BY <2>1, <2>2, <3>4, FrameConstants DEF Windows
    <3> QED
      BY <2>3, <3>1, <3>3, <3>5 DEF Windows, FrameTypes
  <2> QED
    BY <2>4, <2>5, <2>6
<1> QED
  BY <1>1, <1>2, <1>3, StepOfRaster

-----------------------------------------------------------------------------
(* What a beat does to the bench's counters.                                *)
LEMMA SeenFields ==
  ASSUME NEW b \in BenchStates, NEW beat, beat.de \in BOOLEAN, beat.vs \in BOOLEAN
  PROVE  /\ Seen(b, beat) \in BenchStates
         /\ Seen(b, beat).vs = beat.vs /\ Seen(b, beat).de = beat.de
         /\ Completes(b, beat) => Seen(b, beat).frames = b.frames + 1
         /\ ~Completes(b, beat) => Seen(b, beat).frames = b.frames
         /\ Rises(b, beat) => Seen(b, beat).x = 1
         /\ Rises(b, beat) /\ ~Completes(b, beat) => Seen(b, beat).y = b.y + 1
         /\ ~Rises(b, beat) /\ beat.de => Seen(b, beat).x = b.x + 1
         /\ ~beat.de => Seen(b, beat).x = b.x
         /\ ~Rises(b, beat) /\ ~Completes(b, beat) => Seen(b, beat).y = b.y
         /\ ~Rises(b, beat) /\ Completes(b, beat) => Seen(b, beat).y = -1
BY DEF Seen, BenchStates, Rises, Completes

(* A beat like the one before it moves nothing outside a line.              *)
LEMMA SeenUnmoved ==
  ASSUME NEW b \in BenchStates, NEW beat, beat.vs = b.vs, ~b.de, beat.de = b.de
  PROVE  Seen(b, beat) = b
<1>1. Seen(b, beat) = [frames |-> b.frames, y |-> b.y, x |-> b.x, vs |-> b.vs, de |-> b.de]
  BY DEF Seen, Completes, Rises
<1>2. b = [frames |-> b.frames, y |-> b.y, x |-> b.x, vs |-> b.vs, de |-> b.de]
  BY DEF BenchStates
<1> QED
  BY <1>1, <1>2

LEMMA BeatFields == Beat.de = out_run /\ Beat.vs = vs_line /\ Beat.rgb = Pixel
BY DEF Beat

(* A line is read out only with the syncs of its frame behind.              *)
LEMMA RunningSynced ==
  ASSUME FrameTypes, Registers, Windows, out_run, NEW b
  PROVE  ~BeforeSync(b)
BY RunningLine, FrameConstants DEF BeforeSync, SyncDue, FrameTypes

(* The beat that leaves now will find the bench where it belongs.           *)
LEMMA NewBeatFits ==
  ASSUME FrameTypes, Registers, Windows, NEW b \in BenchStates, b.de = pipe[1].de, Ahead(b)
  PROVE  BeatFits(b, Beat)
<1>t. /\ Beat.de = out_run /\ Beat.vs = vs_line /\ Beat.rgb = Pixel
      /\ Beat.de \in BOOLEAN /\ Beat.vs \in BOOLEAN
      /\ b.frames \in Nat /\ b.y \in Int /\ b.x \in Nat
  BY BeatFields DEF FrameTypes, BenchStates
<1>s. /\ Completes(b, Beat) => Seen(b, Beat).frames = b.frames + 1
      /\ ~Completes(b, Beat) => Seen(b, Beat).frames = b.frames
      /\ Rises(b, Beat) => Seen(b, Beat).x = 1
      /\ Rises(b, Beat) /\ ~Completes(b, Beat) => Seen(b, Beat).y = b.y + 1
      /\ ~Rises(b, Beat) /\ Beat.de => Seen(b, Beat).x = b.x + 1
      /\ ~Rises(b, Beat) /\ ~Completes(b, Beat) => Seen(b, Beat).y = b.y
  BY <1>t, SeenFields
<1>1. ASSUME Completes(b, Beat) PROVE ~Beat.de /\ (b.frames >= 1 => RowDone(b, Height - 1))
  <2>1. SyncDue(b) /\ BeforeSync(b)
    BY <1>1, <1>t DEF Completes, Ahead, SyncsFollow, BeforeSync
  <2>2. ~out_run
    BY <2>1, RunningSynced DEF FrameTypes
  <2>3. RowDone(b, IF number = 0 THEN -1 ELSE Height - 1) /\ b.frames = number + Early - 1
    BY <2>1 DEF Ahead, RowsFollow, FramesFollow
  <2>4. b.frames >= 1 => number # 0
    BY <2>3, <1>t, Sizes DEF FrameTypes
  <2> QED
    BY <2>2, <2>3, <2>4, <1>t
<1>2. ASSUME Beat.de
      PROVE  /\ ~BeforeSync(b) /\ ~Completes(b, Beat) /\ out_run
             /\ vcount \in r_veblnk + 1 .. r_vsblnk /\ Pixel = <<number, vcount - 1, out_cnt>>
             /\ b.frames = number + Early /\ out_cnt \in 0 .. Width - 1
  <2>1. out_run
    BY <1>2, <1>t
  <2>2. ~BeforeSync(b)
    BY <2>1, RunningSynced
  <2>3. ~Completes(b, Beat)
    BY <1>1, <1>2
  <2>4. vcount \in r_veblnk + 1 .. r_vsblnk /\ shown.line = vcount - 1 /\ shown.frame = number
    BY <2>1, RunningLine
  <2>5. Pixel = <<number, vcount - 1, out_cnt>>
    BY <2>1, <2>4 DEF Pixel
  <2>6. b.frames = number + Early
    BY <2>2, Sizes DEF Ahead, FramesFollow, FrameTypes
  <2>7. out_cnt \in 0 .. Width - 1
    BY <2>1, Sizes DEF Windows, FrameTypes
  <2> QED
    BY <2>1, <2>2, <2>3, <2>4, <2>5, <2>6, <2>7
<1>3. ASSUME Rises(b, Beat)
      PROVE  RowDone(b, LastRow(vcount)) /\ out_cnt = 0 /\ (b.y = -1 \/ b.x = Width)
  <2>1. out_run /\ ~b.de /\ ~BeforeSync(b)
    BY <1>2, <1>3, <1>t DEF Rises
  <2>2. RowDone(b, LastRow(vcount)) /\ out_cnt = 0
    BY <2>1 DEF Ahead, RowsFollow
  <2> QED
    BY <2>2 DEF RowDone
<1>4. ASSUME Beat.de
      PROVE  /\ Seen(b, Beat).y = LastRow(vcount) + 1 /\ Seen(b, Beat).x = out_cnt + 1
             /\ Seen(b, Beat).frames = number + Early
  <2>1. Seen(b, Beat).frames = number + Early
    BY <1>2, <1>4, <1>s
  <2>2. CASE Rises(b, Beat)
    <3>1. b.y = LastRow(vcount) /\ out_cnt = 0
      BY <2>2, <1>3 DEF RowDone
    <3>2. Seen(b, Beat).x = 1 /\ Seen(b, Beat).y = b.y + 1
      BY <1>2, <1>4, <1>s, <2>2
    <3> QED
      BY <3>1, <3>2, <2>1
  <2>3. CASE ~Rises(b, Beat)
    <3>1. b.y = LastRow(vcount) + 1 /\ b.x = out_cnt
      BY <1>2, <1>4, <1>t, <2>3 DEF Rises, Ahead, RowsFollow
    <3>2. Seen(b, Beat).x = b.x + 1 /\ Seen(b, Beat).y = b.y
      BY <1>2, <1>4, <1>s, <2>3
    <3> QED
      BY <3>1, <3>2, <2>1
  <2> QED
    BY <2>2, <2>3
<1>5. ASSUME Beat.de
      PROVE  /\ Seen(b, Beat).y \in 0 .. Height - 1 /\ Seen(b, Beat).x \in 1 .. Width
             /\ Beat.rgb = <<FrameOf(Seen(b, Beat)), r_veblnk + Seen(b, Beat).y, Seen(b, Beat).x - 1>>
  <2>1. vcount \in r_veblnk + 1 .. r_vsblnk /\ Pixel = <<number, vcount - 1, out_cnt>> /\ out_cnt \in 0 .. Width - 1
    BY <1>2, <1>5
  <2>2. LastRow(vcount) + 1 = vcount - 1 - r_veblnk
    BY <2>1, FrameConstants DEF LastRow
  <2>3. Seen(b, Beat).y = vcount - 1 - r_veblnk /\ Seen(b, Beat).x = out_cnt + 1 /\ Seen(b, Beat).frames = number + Early
    BY <2>2, <1>4, <1>5
  <2>4. /\ r_veblnk + Seen(b, Beat).y = vcount - 1 /\ Seen(b, Beat).x - 1 = out_cnt
        /\ FrameOf(Seen(b, Beat)) = number
    BY <2>1, <2>3, FrameConstants, Sizes DEF FrameOf, FrameTypes
  <2>5. Seen(b, Beat).y \in 0 .. Height - 1 /\ Seen(b, Beat).x \in 1 .. Width
    BY <2>1, <2>3, FrameConstants, Sizes
  <2> QED
    BY <2>1, <2>4, <2>5, <1>t
<1> QED
  BY <1>1, <1>3, <1>5 DEF BeatFits

(* A line starts: its registers change, nothing is on its way.              *)
LEMMA AheadAtStart ==
  ASSUME PixClocks >= 2, FrameTypes, Registers, Windows, Rasters, Lines, Window, Pipeline,
         NEW b \in BenchStates, b.de = pipe[1].de, Ahead(b), starts
  PROVE  Ahead(b)' /\ Seen(b, Beat) = b
<1>1. /\ hcount = 0 /\ pix = 0 /\ hcount' = 0 /\ pix' = 1 /\ pdiv' >= 0 /\ ~starts' /\ vcount' = vcount
      /\ number' = number /\ (number >= 1 \/ vcount >= 1) /\ pdiv' \in Nat
  BY FrameConstants, StepOfRaster DEF Rasters, FrameTypes, cen_vid
<1>2. ~Begun /\ ~Begun' /\ ~cen_pix
  BY <1>1, FrameConstants DEF FrameTypes, Begun, cen_pix
<1>3. ~out_run /\ ~pipe[1].de
  BY <1>2 DEF Windows, FrameTypes
<1>4. ~out_run'
  BY <1>2, <1>3 DEF Window
<1>5. vs_line <=> vcount - 1 \in 0 .. r_vesync - 1 /\ ~(number = 0 /\ vcount - 1 = 0)
  BY DEF Registers, LineOfRegisters
<1>6. ~(vs_line /\ ~b.vs)
  <2> SUFFICES ASSUME vs_line, ~b.vs PROVE FALSE
    OBVIOUS
  <2>1. SyncDue(b)
    BY DEF Ahead, SyncsFollow
  <2> QED
    BY <2>1, <1>5, FrameConstants DEF SyncDue, FrameTypes
<1>7. ~(b.vs /\ ~vs_line)
  BY DEF Ahead, SyncsFollow
<1>8. b.vs = vs_line
  BY <1>6, <1>7 DEF BenchStates, FrameTypes
<1>9. Seen(b, Beat) = b
  <2>1. ~b.de /\ Beat.de = b.de /\ Beat.vs = b.vs
    BY <1>3, <1>8, BeatFields DEF FrameTypes, BenchStates
  <2> QED
    BY <2>1, SeenUnmoved
<1>10. vs_line' <=> vcount < r_vesync
  BY DEF Lines
<1>11. SyncDue(b)' <=> SyncDue(b)
  BY <1>1, <1>5, <1>8, FrameConstants DEF SyncDue, FrameTypes
<1>12. BeforeSync(b)' <=> BeforeSync(b)
  BY <1>1, <1>11 DEF BeforeSync
<1>13. SyncsFollow(b)'
  <2>1. vs_line' /\ ~b.vs => SyncDue(b)'
    BY <1>1, <1>5, <1>8, <1>10, FrameConstants, Sizes DEF SyncDue, FrameTypes
  <2>2. b.vs /\ ~vs_line' => vcount' = r_vesync
    BY <1>1, <1>5, <1>8, <1>10, FrameConstants DEF FrameTypes
  <2> QED
    BY <2>1, <2>2, <1>1 DEF SyncsFollow
<1>14. FramesFollow(b)'
  BY <1>1, <1>12 DEF Ahead, FramesFollow
<1>15. RowsFollow(b)'
  BY <1>1, <1>2, <1>3, <1>4, <1>12 DEF Ahead, RowsFollow
<1> QED
  BY <1>9, <1>13, <1>14, <1>15 DEF Ahead

(* A line ends: its registers hold, and nothing is left on its way.         *)
LEMMA AheadAtWrap ==
  ASSUME PixClocks >= 2, FrameTypes, Registers, Windows, Rasters, Lines, Window, Pipeline,
         NEW b \in BenchStates, b.de = pipe[1].de, Ahead(b), starts',
         NEW c \in BenchStates, c.frames = b.frames, c.y = b.y, c.x = b.x, c.vs = b.vs
  PROVE  Ahead(c)' /\ ~out_run /\ b.vs = vs_line
<1>1. /\ cen_vid /\ hcount >= r_htotal /\ hcount = r_htotal /\ ~starts /\ hcount' = 0 /\ pix' = 0
      /\ pix = 2 * PixClocks - 1
  BY StepOfRaster, FrameConstants DEF FrameTypes
<1>2. ~Begun' /\ Begun /\ Over /\ ~vis_now /\ hcount # 0
  BY <1>1, FrameConstants DEF Begun, Over, vis_now, FrameTypes
<1>3. ~out_run /\ ~vis_q
  BY <1>1, <1>2, RunningLine DEF Windows, FrameTypes
<1>4. ~out_run'
  BY <1>2, <1>3 DEF Window
<1>5. vs_line' = vs_line /\ (vs_line <=> vcount \in 0 .. r_vesync - 1 /\ ~(number = 0 /\ vcount = 0))
  BY <1>1 DEF Lines, Registers, LineOfRegisters
<1>6. b.vs = vs_line
  BY <1>2 DEF Ahead, SyncsFollow, BenchStates, FrameTypes
<1>7. SyncsFollow(c)'
  <2>1. vs_line' = c.vs /\ c.vs \in BOOLEAN
    BY <1>5, <1>6 DEF BenchStates
  <2> QED
    BY <2>1 DEF SyncsFollow
<1>8. ~SyncDue(b)
  BY <1>1, <1>5, <1>6, FrameConstants, Sizes DEF SyncDue, FrameTypes
<1>9. /\ b.frames = number + Early - (IF BeforeSync(b) THEN 1 ELSE 0)
      /\ BeforeSync(b) => RowDone(b, IF number = 0 THEN -1 ELSE Height - 1)
      /\ ~BeforeSync(b) => RowDone(b, LastRow(vcount + 1))
  BY <1>2, <1>3 DEF Ahead, FramesFollow, RowsFollow
<1>10. BeforeSync(b) <=> number = 0 /\ vcount = 0 /\ Early = 1
  BY <1>8 DEF BeforeSync
<1>11. CASE vcount = r_vtotal
  <2>1. vcount' = 0 /\ number' = number + 1 /\ number \in Nat
    BY <1>1, <1>11 DEF Rasters, FrameTypes
  <2>2. ~BeforeSync(b)
    BY <1>10, <1>11, FrameConstants
  <2>3. BeforeSync(c)' /\ number' # 0
    BY <2>1 DEF BeforeSync, SyncDue
  <2>4. LastRow(vcount + 1) = Height - 1
    BY <1>11, FrameConstants, Sizes DEF LastRow
  <2>5. RowDone(c, Height - 1)
    BY <1>9, <2>2, <2>4 DEF RowDone
  <2>6. c.frames = number' + Early - 1
    BY <1>9, <2>1, <2>2, Sizes
  <2>7. FramesFollow(c)'
    BY <2>3, <2>6 DEF FramesFollow
  <2>8. RowsFollow(c)'
    BY <2>3, <2>5 DEF RowsFollow
  <2> QED
    BY <1>3, <1>6, <1>7, <2>7, <2>8 DEF Ahead
<1>12. CASE vcount # r_vtotal
  <2>1. vcount' = vcount + 1 /\ number' = number /\ number \in Nat /\ vcount \in Nat
    BY <1>1, <1>12, FrameConstants DEF Rasters, FrameTypes
  <2>2. BeforeSync(c)' <=> BeforeSync(b)
    BY <1>10, <2>1 DEF BeforeSync, SyncDue
  <2>3. FramesFollow(c)'
    BY <1>9, <2>1, <2>2 DEF FramesFollow
  <2>4. RowsFollow(c)'
    BY <1>2, <1>4, <1>9, <2>1, <2>2 DEF RowsFollow, RowDone
  <2> QED
    BY <1>3, <1>6, <1>7, <2>3, <2>4 DEF Ahead
<1> QED
  BY <1>11, <1>12

(* Within a line: a window that opens finds the row before it done, and a   *)
(* line out of the picture moves nothing.                                   *)
LEMMA OutOfPicture ==
  ASSUME FrameTypes, Registers, Windows, ~starts, ~Opens, ~out_run, cen_pix,
         hcount = r_heblnk, pix = PixClocks - 1
  PROVE  LastRow(vcount + 1) = LastRow(vcount)
<1>1. ~Begun
  BY FrameConstants DEF Begun
<1>2. ~vis_q /\ ~vis_now
  BY <1>1 DEF Windows, Opens, FrameTypes
<1>3. ~shown.visible
  BY <1>2, FrameConstants DEF vis_now
<1>4. ~InPicture(vcount - 1)
  BY <1>3 DEF Registers, LineOfRegisters
<1> QED
  BY <1>4, FrameConstants, Sizes DEF InPicture, LastRow, FrameTypes

LEMMA AheadWithin ==
  ASSUME PixClocks >= 2, FrameTypes, Registers, Windows, Rasters, Lines, Window, Pipeline,
         NEW b \in BenchStates, b.de = pipe[1].de, Ahead(b), ~starts, ~starts', ~cen_out
  PROVE  Ahead(b)'
<1>1. /\ vcount' = vcount /\ number' = number /\ vs_line' = vs_line
      /\ Begun => Begun'
      /\ ~Begun /\ Begun' => hcount = r_heblnk /\ pix = PixClocks - 1 /\ cen_pix
  BY StepOfRaster DEF Lines
<1>2. (SyncDue(b)' <=> SyncDue(b)) /\ (BeforeSync(b)' <=> BeforeSync(b))
  BY <1>1 DEF SyncDue, BeforeSync
<1>3. SyncsFollow(b)'
  <2>1. hcount = 0 /\ pix - 1 <= pdiv => hcount' = 0 /\ pix' - 1 <= pdiv'
    BY FrameConstants DEF Rasters, FrameTypes, cen_out, cen_vid
  <2> QED
    BY <1>1, <1>2, <2>1 DEF Ahead, SyncsFollow
<1>4. FramesFollow(b)'
  BY <1>1, <1>2 DEF Ahead, FramesFollow
<1>5. RowsFollow(b)'
  <2>1. CASE BeforeSync(b)
    BY <2>1, <1>1, <1>2 DEF Ahead, RowsFollow
  <2>2. CASE ~BeforeSync(b) /\ Opens
    <3>1. ~out_run /\ ~b.de /\ ~Begun
      BY <2>2, Opening
    <3>2. out_run' /\ out_cnt' = 0
      BY <2>2 DEF Window, Opens
    <3>3. RowDone(b, LastRow(vcount))
      BY <2>2, <3>1 DEF Ahead, RowsFollow
    <3> QED
      BY <2>2, <1>1, <1>2, <3>1, <3>2, <3>3 DEF RowsFollow
  <2>3. CASE ~BeforeSync(b) /\ ~Opens
    <3>1. out_run' = out_run /\ out_cnt' = out_cnt
      BY <2>3 DEF Window, Opens
    <3>2. CASE out_run
      BY <2>3, <3>2, <1>1, <1>2, <3>1 DEF Ahead, RowsFollow
    <3>3. CASE ~out_run
      <4>1. LastRow(IF Begun' THEN vcount + 1 ELSE vcount) = LastRow(IF Begun THEN vcount + 1 ELSE vcount)
        BY <1>1, <2>3, <3>3, OutOfPicture
      <4> QED
        BY <2>3, <3>3, <1>1, <1>2, <3>1, <4>1 DEF Ahead, RowsFollow
    <3> QED
      BY <3>2, <3>3
  <2> QED
    BY <2>1, <2>2, <2>3
<1> QED
  BY <1>3, <1>4, <1>5 DEF Ahead

(* The same on the clock a beat leaves: syncs, first words, last words.     *)
LEMMA AheadAtBeat ==
  ASSUME PixClocks >= 2, FrameTypes, Registers, Windows, Rasters, Lines, Window, Pipeline,
         NEW b \in BenchStates, b.de = pipe[1].de, Ahead(b), ~starts, ~starts', cen_out,
         NEW c \in BenchStates, c = Seen(b, Beat)
  PROVE  Ahead(c)'
<1>1. /\ vcount' = vcount /\ number' = number /\ vs_line' = vs_line
      /\ Begun => Begun'
      /\ ~Begun /\ Begun' => hcount = r_heblnk /\ pix = PixClocks - 1 /\ cen_pix
  BY StepOfRaster DEF Lines
<1>t. /\ Beat.de = out_run /\ Beat.vs = vs_line /\ out_run \in BOOLEAN /\ vs_line \in BOOLEAN
      /\ Beat.de \in BOOLEAN /\ Beat.vs \in BOOLEAN
      /\ b.frames \in Nat /\ b.y \in Int /\ b.x \in Nat
      /\ number \in Nat /\ vcount \in Nat /\ out_cnt \in Nat
  BY BeatFields, FrameConstants DEF FrameTypes, BenchStates
<1>s. /\ c.vs = vs_line /\ c.de = out_run
      /\ Completes(b, Beat) => c.frames = b.frames + 1
      /\ ~Completes(b, Beat) => c.frames = b.frames
      /\ Rises(b, Beat) => c.x = 1
      /\ Rises(b, Beat) /\ ~Completes(b, Beat) => c.y = b.y + 1
      /\ ~Rises(b, Beat) /\ out_run => c.x = b.x + 1
      /\ ~out_run => c.x = b.x
      /\ ~Rises(b, Beat) /\ ~Completes(b, Beat) => c.y = b.y
      /\ ~Rises(b, Beat) /\ Completes(b, Beat) => c.y = -1
  BY <1>t, SeenFields
<1>2. vs_line <=> vcount \in 0 .. r_vesync - 1 /\ ~(number = 0 /\ vcount = 0)
  BY DEF Registers, LineOfRegisters
<1>3. SyncsFollow(c)'
  BY <1>1, <1>s, <1>t DEF SyncsFollow
<1>4. ~SyncDue(c)'
  BY <1>1, <1>2, <1>s, FrameConstants, Sizes DEF SyncDue, FrameTypes
<1>5. BeforeSync(c)' <=> number = 0 /\ vcount = 0 /\ Early = 1
  BY <1>1, <1>4 DEF BeforeSync
<1>6. SyncDue(b) => Completes(b, Beat) /\ ~(number = 0 /\ vcount = 0)
  BY <1>2, <1>t, FrameConstants, Sizes DEF SyncDue, Completes, FrameTypes
<1>7. Completes(b, Beat) => SyncDue(b)
  BY <1>t DEF Completes, Ahead, SyncsFollow
<1>8. CASE number = 0 /\ vcount = 0 /\ Early = 1
  <2>1. BeforeSync(b) /\ BeforeSync(c)' /\ ~Completes(b, Beat) /\ ~out_run
    BY <1>5, <1>6, <1>7, <1>8, RunningSynced DEF BeforeSync
  <2>2. c.frames = b.frames /\ c.y = b.y /\ c.x = b.x
    BY <2>1, <1>s, <1>t DEF Rises
  <2>3. FramesFollow(c)'
    BY <1>1, <2>1, <2>2 DEF Ahead, FramesFollow
  <2>4. RowsFollow(c)'
    BY <1>1, <2>1, <2>2 DEF Ahead, RowsFollow, RowDone
  <2> QED
    BY <1>3, <2>3, <2>4 DEF Ahead
<1>9. CASE SyncDue(b)
  <2>1. BeforeSync(b) /\ ~BeforeSync(c)' /\ Completes(b, Beat) /\ ~out_run
    BY <1>5, <1>6, <1>9, RunningSynced DEF BeforeSync
  <2>2. c.frames = b.frames + 1 /\ c.y = -1
    BY <2>1, <1>s, <1>t DEF Rises
  <2>3. FramesFollow(c)'
    <3>1. b.frames = number + Early - 1
      BY <2>1 DEF Ahead, FramesFollow
    <3>2. c.frames = number + Early - 0
      BY <3>1, <2>2, <1>t, Sizes
    <3> QED
      BY <1>1, <2>1, <3>2 DEF FramesFollow
  <2>4. vcount <= 1 /\ ~out_run'
    <3>1. vcount <= 1
      BY <1>9 DEF SyncDue
    <3>2. ~Opens
      BY <3>1, <1>t, Opening, FrameConstants
    <3> QED
      BY <3>1, <3>2, <2>1 DEF Window, Opens
  <2>5. LastRow(vcount) = -1 /\ LastRow(vcount + 1) = -1
    BY <2>4, <1>t, FrameConstants DEF LastRow
  <2>6. RowsFollow(c)'
    BY <1>1, <2>1, <2>2, <2>4, <2>5 DEF RowsFollow, RowDone
  <2> QED
    BY <1>3, <2>3, <2>6 DEF Ahead
<1>10. CASE ~SyncDue(b) /\ ~(number = 0 /\ vcount = 0 /\ Early = 1)
  <2>1. ~BeforeSync(b) /\ ~BeforeSync(c)' /\ ~Completes(b, Beat) /\ c.frames = b.frames
    BY <1>5, <1>7, <1>10, <1>s DEF BeforeSync
  <2>2. FramesFollow(c)'
    BY <1>1, <2>1 DEF Ahead, FramesFollow
  <2>3. ASSUME out_run PROVE RowsFollow(c)'
    <3>1. /\ vcount \in r_veblnk + 1 .. r_vsblnk /\ Begun' /\ ~Opens
      BY <1>1, <2>3, RunningLine, Opening
    <3>2. out_cnt' = out_cnt + 1 /\ out_run' = (out_cnt + 1 # Width)
      BY <2>3, <3>1 DEF Window, Opens
    <3>3. c.y = LastRow(vcount) + 1 /\ c.x = out_cnt + 1
      <4>1. CASE b.de
        BY <4>1, <2>1, <2>3, <1>s, <1>t DEF Rises, Ahead, RowsFollow
      <4>2. CASE ~b.de
        <5>1. Rises(b, Beat) /\ RowDone(b, LastRow(vcount)) /\ out_cnt = 0
          BY <4>2, <2>1, <2>3, <1>t DEF Rises, Ahead, RowsFollow
        <5> QED
          BY <5>1, <2>1, <1>s DEF RowDone
      <4> QED
        BY <4>1, <4>2
    <3>4. CASE out_cnt + 1 # Width
      <4>1. out_run'
        BY <3>2, <3>4
      <4> QED
        BY <1>1, <1>s, <1>t, <2>1, <2>3, <3>2, <3>3, <4>1 DEF RowsFollow
    <3>5. CASE out_cnt + 1 = Width
      <4>1. ~out_run'
        BY <3>2, <3>5
      <4>2. LastRow(vcount + 1) = LastRow(vcount) + 1
        BY <3>1, FrameConstants DEF LastRow
      <4>3. RowDone(c, LastRow(vcount + 1))
        BY <3>3, <3>5, <4>2 DEF RowDone
      <4> QED
        BY <1>1, <2>1, <3>1, <4>1, <4>3 DEF RowsFollow
    <3> QED
      BY <3>4, <3>5
  <2>4. ASSUME ~out_run PROVE RowsFollow(c)'
    <3>1. c.y = b.y /\ c.x = b.x /\ ~c.de
      BY <2>1, <2>4, <1>s, <1>t DEF Rises
    <3>2. RowDone(b, LastRow(IF Begun THEN vcount + 1 ELSE vcount))
      BY <2>1, <2>4 DEF Ahead, RowsFollow
    <3>3. CASE Opens
      <4>1. out_run' /\ out_cnt' = 0 /\ ~Begun
        BY <3>3, Opening DEF Window, Opens
      <4>2. RowDone(c, LastRow(vcount))
        BY <3>1, <3>2, <4>1 DEF RowDone
      <4> QED
        BY <1>1, <2>1, <3>1, <4>1, <4>2 DEF RowsFollow
    <3>4. CASE ~Opens
      <4>1. ~out_run'
        BY <2>4, <3>4 DEF Window, Opens
      <4>2. LastRow(IF Begun' THEN vcount + 1 ELSE vcount) = LastRow(IF Begun THEN vcount + 1 ELSE vcount)
        BY <1>1, <2>4, <3>4, OutOfPicture
      <4>3. RowDone(c, LastRow(IF Begun' THEN vcount + 1 ELSE vcount))
        BY <3>1, <3>2, <4>2 DEF RowDone
      <4> QED
        BY <1>1, <2>1, <4>1, <4>3 DEF RowsFollow
    <3> QED
      BY <3>3, <3>4
  <2>5. RowsFollow(c)'
    BY <2>3, <2>4, <1>t
  <2> QED
    BY <1>3, <2>2, <2>5 DEF Ahead
<1> QED
  BY <1>8, <1>9, <1>10

-----------------------------------------------------------------------------
LEMMA BenchTyped ==
  ASSUME FrameTypes
  PROVE  /\ B0 \in BenchStates /\ B1 \in BenchStates /\ B2 \in BenchStates /\ B3 \in BenchStates
         /\ B3.de = pipe[1].de
<1>1. B0 \in BenchStates
  BY DEF B0, BenchStates, FrameTypes
<1>2. \A i \in 1 .. 3 : pipe[i].de \in BOOLEAN /\ pipe[i].vs \in BOOLEAN
  BY DEF FrameTypes
<1>3. B1 \in BenchStates
  BY <1>1, <1>2, SeenFields DEF B1
<1>4. B2 \in BenchStates
  BY <1>3, <1>2, SeenFields DEF B2
<1>5. B3 \in BenchStates /\ B3.de = pipe[1].de
  BY <1>4, <1>2, SeenFields DEF B3
<1> QED
  BY <1>1, <1>3, <1>4, <1>5

(* The bench has seen one beat more, and a new one follows.                 *)
LEMMA BenchMoves ==
  ASSUME Pipeline, Grab
  PROVE  /\ cen_out => /\ B0' = B1 /\ B1' = B2 /\ B2' = B3 /\ B3' = Seen(B3, Beat)
                       /\ pipe'[1] = Beat /\ pipe'[2] = pipe[1] /\ pipe'[3] = pipe[2]
         /\ ~cen_out => /\ B0' = B0 /\ B1' = B1 /\ B2' = B2 /\ B3' = B3 /\ pipe' = pipe
<1>1. ASSUME cen_out
      PROVE  /\ B0' = B1 /\ B1' = B2 /\ B2' = B3 /\ B3' = Seen(B3, Beat)
             /\ pipe'[1] = Beat /\ pipe'[2] = pipe[1] /\ pipe'[3] = pipe[2]
  <2>1. pipe'[1] = Beat /\ pipe'[2] = pipe[1] /\ pipe'[3] = pipe[2]
    BY <1>1 DEF Pipeline, Beat
  <2>2. B0' = B1
    <3>1. /\ frames' = Frames /\ y' = Row /\ x' = (IF de THEN Col + 1 ELSE Col)
          /\ prev_vs' = vsync /\ prev_de' = de
      BY <1>1 DEF Grab
    <3>2. /\ Completes(B0, pipe[3]) <=> FrameDone
          /\ Rises(B0, pipe[3]) <=> de /\ ~prev_de
          /\ pipe[3].de = de /\ pipe[3].vs = vsync
      BY DEF Completes, Rises, B0, FrameDone, de, vsync
    <3>3. /\ Frames = IF Completes(B0, pipe[3]) THEN B0.frames + 1 ELSE B0.frames
          /\ Row = IF Rises(B0, pipe[3]) THEN (IF Completes(B0, pipe[3]) THEN 0 ELSE B0.y + 1)
                   ELSE IF Completes(B0, pipe[3]) THEN -1 ELSE B0.y
          /\ (IF de THEN Col + 1 ELSE Col)
               = IF Rises(B0, pipe[3]) THEN 1 ELSE IF pipe[3].de THEN B0.x + 1 ELSE B0.x
      BY <3>2 DEF Frames, Row, Col, B0
    <3> QED
      BY <3>1, <3>2, <3>3 DEF B0, B1, Seen
  <2>3. B1' = B2
    BY <2>1, <2>2 DEF B1, B2
  <2>4. B2' = B3
    BY <2>1, <2>3 DEF B2, B3
  <2>5. B3' = Seen(B3, Beat)
    BY <2>1, <2>4 DEF B3
  <2> QED
    BY <2>1, <2>2, <2>3, <2>4, <2>5
<1>2. ASSUME ~cen_out PROVE B0' = B0 /\ B1' = B1 /\ B2' = B2 /\ B3' = B3 /\ pipe' = pipe
  <2>1. pipe' = pipe /\ UNCHANGED grab
    BY <1>2 DEF Pipeline, Grab
  <2>2. B0' = B0
    BY <2>1 DEF B0, grab
  <2>3. B1' = B1
    BY <2>1, <2>2 DEF B1
  <2>4. B2' = B2
    BY <2>1, <2>3 DEF B2
  <2>5. B3' = B3
    BY <2>1, <2>4 DEF B3
  <2> QED
    BY <2>1, <2>2, <2>3, <2>4, <2>5
<1> QED
  BY <1>1, <1>2

(* What is said of the value the bench will have is said of that bench.     *)
LEMMA AheadOfValue ==
  ASSUME NEW c, c = B3', Ahead(c)'
  PROVE  Ahead(B3)'
<1>1. c.frames = B3'.frames /\ c.y = B3'.y /\ c.x = B3'.x /\ c.vs = B3'.vs /\ c.de = B3'.de
  OBVIOUS
<1>2. (SyncDue(c)' <=> SyncDue(B3)') /\ (BeforeSync(c)' <=> BeforeSync(B3)')
  BY <1>1 DEF SyncDue, BeforeSync
<1>3. SyncsFollow(B3)'
  BY <1>1, <1>2 DEF Ahead, SyncsFollow
<1>4. FramesFollow(B3)'
  BY <1>1, <1>2 DEF Ahead, FramesFollow
<1>5. RowsFollow(B3)'
  BY <1>1, <1>2 DEF Ahead, RowsFollow, RowDone
<1> QED
  BY <1>3, <1>4, <1>5 DEF Ahead

LEMMA ChainKept ==
  ASSUME PixClocks >= 2, FrameTypes, Registers, Windows, Chain,
         Rasters, Lines, Window, Pipeline, Grab
  PROVE  Chain'
<1>1. PICK b : b = B3
  OBVIOUS
<1>2. PICK c : c = B3'
  OBVIOUS
<1>3. b \in BenchStates /\ b.de = pipe[1].de /\ Ahead(b)
  BY <1>1, BenchTyped DEF Chain
<1>4. BeatFits(b, Beat)
  BY <1>3, NewBeatFits
<1>5. (cen_out => c = Seen(b, Beat)) /\ (~cen_out => c = b)
  BY <1>1, <1>2, BenchMoves
<1>6. Seen(b, Beat) \in BenchStates /\ c \in BenchStates
  <2>1. Beat.de \in BOOLEAN /\ Beat.vs \in BOOLEAN
    BY BeatFields DEF FrameTypes
  <2> QED
    BY <1>3, <1>5, <2>1, SeenFields
<1>7. Ahead(c)'
  <2>1. CASE starts
    <3>1. Ahead(b)' /\ Seen(b, Beat) = b
      BY <1>3, <2>1, AheadAtStart
    <3>2. c = b
      BY <3>1, <1>5
    <3> QED
      BY <3>1, <3>2
  <2>2. CASE starts'
    <3>1. ~out_run /\ b.vs = vs_line
      BY <1>3, <2>2, AheadAtWrap
    <3>2. c.frames = b.frames /\ c.y = b.y /\ c.x = b.x /\ c.vs = b.vs
      <4>1. CASE ~cen_out
        BY <4>1, <1>5
      <4>2. CASE cen_out
        BY <4>2, <1>5, <3>1, BeatFields DEF Seen, Completes, Rises
      <4> QED
        BY <4>1, <4>2
    <3> QED
      BY <1>3, <1>6, <2>2, <3>2, AheadAtWrap
  <2>3. CASE ~starts /\ ~starts' /\ cen_out
    BY <1>3, <1>5, <1>6, <2>3, AheadAtBeat
  <2>4. CASE ~starts /\ ~starts' /\ ~cen_out
    <3>1. Ahead(b)'
      BY <1>3, <2>4, AheadWithin
    <3> QED
      BY <1>5, <2>4, <3>1
  <2> QED
    BY <2>1, <2>2, <2>3, <2>4
<1>8. Ahead(B3)'
  BY <1>2, <1>7, AheadOfValue
<1>9. BeatFits(B0, pipe[3])' /\ BeatFits(B1, pipe[2])' /\ BeatFits(B2, pipe[1])'
  <2>1. CASE cen_out
    <3>1. BeatFits(B0', pipe'[3]) /\ BeatFits(B1', pipe'[2]) /\ BeatFits(B2', pipe'[1])
      BY <2>1, <1>1, <1>4, BenchMoves DEF Chain
    <3> QED
      BY <3>1
  <2>2. CASE ~cen_out
    <3>1. BeatFits(B0', pipe'[3]) /\ BeatFits(B1', pipe'[2]) /\ BeatFits(B2', pipe'[1])
      BY <2>2, BenchMoves DEF Chain
    <3> QED
      BY <3>1
  <2> QED
    BY <2>1, <2>2
<1> QED
  BY <1>8, <1>9 DEF Chain

-----------------------------------------------------------------------------
(* A word of the picture goes where its beat belongs.                       *)
LEMMA WordPlaced ==
  ASSUME FrameTypes, BeatFits(B0, pipe[3]), de
  PROVE  /\ ~FrameDone /\ Inside /\ <<Row, Col>> \in Pixels
         /\ B1.y = Row /\ B1.x = Col + 1 /\ B1.frames = frames
         /\ rgb = <<frames - Early, r_veblnk + Row, Col>>
         /\ (Row = y /\ Col = x) \/ (Row = y + 1 /\ Col = 0 /\ (y = -1 \/ x = Width))
<1>t. /\ B0.frames = frames /\ B0.y = y /\ B0.x = x /\ B0.vs = prev_vs /\ B0.de = prev_de
      /\ pipe[3].de = de /\ pipe[3].vs = vsync /\ pipe[3].rgb = rgb
      /\ frames \in Nat /\ y \in Int /\ x \in Nat /\ de \in BOOLEAN /\ vsync \in BOOLEAN
  BY DEF B0, de, vsync, rgb, FrameTypes
<1>s. /\ ~Completes(B0, pipe[3]) => B1.frames = B0.frames
      /\ Rises(B0, pipe[3]) => B1.x = 1
      /\ Rises(B0, pipe[3]) /\ ~Completes(B0, pipe[3]) => B1.y = B0.y + 1
      /\ ~Rises(B0, pipe[3]) /\ pipe[3].de => B1.x = B0.x + 1
      /\ ~Rises(B0, pipe[3]) /\ ~Completes(B0, pipe[3]) => B1.y = B0.y
  <2>1. B0 \in BenchStates /\ pipe[3].de \in BOOLEAN /\ pipe[3].vs \in BOOLEAN
    BY BenchTyped DEF FrameTypes
  <2> QED
    BY <2>1, SeenFields DEF B1
<1>1. ~Completes(B0, pipe[3]) /\ ~FrameDone
  BY <1>t DEF BeatFits, Completes, FrameDone
<1>2. B1.frames = frames
  BY <1>1, <1>t, <1>s
<1>3. CASE prev_de
  <2>1. Row = y /\ Col = x
    BY <1>1, <1>3 DEF Row, Col
  <2>2. B1.y = y /\ B1.x = x + 1
    BY <1>1, <1>3, <1>t, <1>s DEF Rises
  <2>3. y \in 0 .. Height - 1 /\ x + 1 \in 1 .. Width /\ rgb = <<frames - Early, r_veblnk + y, x + 1 - 1>>
    BY <1>2, <1>t, <2>2 DEF BeatFits, B1, FrameOf
  <2>4. x + 1 - 1 = x /\ x \in 0 .. Width - 1
    BY <2>3, <1>t, Sizes
  <2> QED
    BY <1>1, <1>2, <1>t, <2>1, <2>2, <2>3, <2>4 DEF Inside, Pixels
<1>4. CASE ~prev_de
  <2>1. Row = y + 1 /\ Col = 0
    BY <1>1, <1>4 DEF Row, Col
  <2>2. B1.y = y + 1 /\ B1.x = 1 /\ Rises(B0, pipe[3])
    BY <1>1, <1>4, <1>t, <1>s DEF Rises
  <2>3. y + 1 \in 0 .. Height - 1 /\ rgb = <<frames - Early, r_veblnk + (y + 1), 1 - 1>> /\ (y = -1 \/ x = Width)
    BY <1>2, <1>t, <2>2 DEF BeatFits, B1, FrameOf
  <2>4. 0 \in 0 .. Width - 1 /\ 1 - 1 = 0
    BY Sizes
  <2> QED
    BY <1>1, <1>2, <1>t, <2>1, <2>2, <2>3, <2>4 DEF Inside, Pixels
<1> QED
  BY <1>3, <1>4, <1>t

(* With the word in its place, the buffer is filled as far as the bench is. *)
LEMMA FilledOn ==
  ASSUME FrameTypes, BeatFits(B0, pipe[3]), de, NEW buf, NEW new, DOMAIN buf = Pixels,
         Filled(buf, B0), new = [buf EXCEPT ![<<Row, Col>>] = rgb]
  PROVE  Filled(new, B1)
<1>w. /\ <<Row, Col>> \in Pixels
      /\ B1.y = Row /\ B1.x = Col + 1 /\ B1.frames = frames
      /\ rgb = <<frames - Early, r_veblnk + Row, Col>>
      /\ (Row = y /\ Col = x) \/ (Row = y + 1 /\ Col = 0 /\ (y = -1 \/ x = Width))
  BY WordPlaced
<1>t. B0.frames = frames /\ B0.y = y /\ B0.x = x /\ y \in Int /\ x \in Nat
  BY DEF B0, FrameTypes
<1> SUFFICES ASSUME NEW p \in Pixels, p[1] < B1.y \/ (p[1] = B1.y /\ p[2] < B1.x)
             PROVE  new[p] = <<FrameOf(B1), r_veblnk + p[1], p[2]>>
  BY DEF Filled
<1>p. p[1] \in 0 .. Height - 1 /\ p[2] \in 0 .. Width - 1 /\ p = <<p[1], p[2]>>
  BY DEF Pixels
<1>r. Row \in Int /\ Col \in Int
  BY <1>w, Sizes DEF Pixels
<1>f. FrameOf(B1) = frames - Early /\ FrameOf(B0) = frames - Early
  BY <1>w, <1>t DEF FrameOf
<1>1. CASE p = <<Row, Col>>
  <2>1. new[p] = rgb
    BY <1>1
  <2>2. p[1] = Row /\ p[2] = Col
    BY <1>1
  <2> QED
    BY <2>1, <2>2, <1>w, <1>f
<1>2. CASE p # <<Row, Col>>
  <2>1. new[p] = buf[p]
    BY <1>2
  <2>2. p[1] # Row \/ p[2] # Col
    BY <1>2, <1>p
  <2>3. p[1] < y \/ (p[1] = y /\ p[2] < x)
    BY <2>2, <1>w, <1>t, <1>p, <1>r, Sizes
  <2>4. buf[p] = <<FrameOf(B0), r_veblnk + p[1], p[2]>>
    BY <2>3, <1>t DEF Filled
  <2> QED
    BY <2>1, <2>4, <1>f
<1> QED
  BY <1>1, <1>2

LEMMA NoRowYet ==
  ASSUME NEW buf, NEW b, b.y = -1
  PROVE  Filled(buf, b)
<1> SUFFICES ASSUME NEW p \in Pixels, p[1] < b.y \/ (p[1] = b.y /\ p[2] < b.x) PROVE FALSE
  BY DEF Filled
<1>1. p[1] \in 0 .. Height - 1
  BY DEF Pixels
<1> QED
  BY <1>1, Sizes

LEMMA AllRows ==
  ASSUME NEW buf, NEW b, RowDone(b, Height - 1), Filled(buf, b)
  PROVE  PictureOf(buf, FrameOf(b))
<1> SUFFICES ASSUME NEW p \in Pixels PROVE buf[p] = <<FrameOf(b), r_veblnk + p[1], p[2]>>
  BY DEF PictureOf
<1>1. p[1] \in 0 .. Height - 1 /\ p[2] \in 0 .. Width - 1
  BY DEF Pixels
<1>2. b.y = Height - 1 /\ b.x = Width
  BY Sizes DEF RowDone
<1> QED
  BY <1>1, <1>2, Sizes DEF Filled

LEMMA GrabTyped ==
  ASSUME FrameTypes, Grab
  PROVE  /\ frames' \in Nat /\ x' \in Nat /\ y' \in Int
         /\ prev_vs' \in BOOLEAN /\ prev_de' \in BOOLEAN
         /\ DOMAIN fb' = Pixels /\ DOMAIN kept' = Pixels
<1>1. CASE cen_out
  <2>1. /\ frames' = Frames /\ y' = Row /\ x' = (IF de THEN Col + 1 ELSE Col)
        /\ prev_vs' = vsync /\ prev_de' = de
        /\ fb' = (IF Inside THEN [fb EXCEPT ![<<Row, Col>>] = rgb] ELSE fb)
        /\ kept' = (IF Inside /\ Frames = 2 THEN [kept EXCEPT ![<<Row, Col>>] = rgb] ELSE kept)
    BY <1>1 DEF Grab
  <2>2. Frames \in Nat /\ Row \in Int /\ Col \in Nat /\ vsync \in BOOLEAN /\ de \in BOOLEAN
    BY DEF FrameTypes, Frames, Row, Col, vsync, de
  <2>3. DOMAIN fb' = Pixels /\ DOMAIN kept' = Pixels
    BY <2>1 DEF FrameTypes
  <2> QED
    BY <2>1, <2>2, <2>3
<1>2. CASE ~cen_out
  BY <1>2 DEF Grab, grab, FrameTypes
<1> QED
  BY <1>1, <1>2

LEMMA GrabbedKept ==
  ASSUME FrameTypes, Chain, Grabbed, frames < Wanted, Pipeline, Grab
  PROVE  Grabbed'
<1>t. B0.frames = frames /\ B0.y = y /\ B0.x = x /\ frames \in Nat /\ y \in Int
  BY DEF B0, FrameTypes
<1>b. BeatFits(B0, pipe[3])
  BY DEF Chain
<1>1. CASE ~cen_out
  <2>1. UNCHANGED <<fb, kept, frames, y>> /\ B0' = B0
    BY <1>1, BenchMoves DEF Grab, grab
  <2>2. Filled(fb', B0') /\ (frames' = 2 => Filled(kept', B0'))
    BY <2>1 DEF Grabbed
  <2>3. Filled(fb, B0)' /\ (frames' = 2 => Filled(kept, B0)')
    BY <2>2
  <2>4. /\ frames' >= 2 /\ y' = -1 => PictureOf(fb, frames - Early - 1)'
        /\ frames' = 3 => PictureOf(kept, 2 - Early)'
    BY <2>1 DEF Grabbed
  <2> QED
    BY <2>3, <2>4 DEF Grabbed
<1>2. CASE cen_out
  <2>1. /\ frames' = Frames /\ y' = Row /\ B0' = B1
        /\ fb' = (IF Inside THEN [fb EXCEPT ![<<Row, Col>>] = rgb] ELSE fb)
        /\ kept' = (IF Inside /\ Frames = 2 THEN [kept EXCEPT ![<<Row, Col>>] = rgb] ELSE kept)
    BY <1>2, BenchMoves DEF Grab
  <2>2. B1.frames = Frames /\ B1.y = Row
    BY <2>1 DEF B0
  <2>3. CASE de
    <3>1. Inside /\ Frames = frames /\ Row >= 0
      BY <2>3, <1>b, WordPlaced, Sizes DEF Frames, Inside
    <3>2. Filled(fb', B1)
      <4>1. DOMAIN fb = Pixels /\ Filled(fb, B0) /\ fb' = [fb EXCEPT ![<<Row, Col>>] = rgb]
        BY <2>1, <3>1 DEF Grabbed, FrameTypes
      <4> QED
        BY <4>1, <2>3, <1>b, FilledOn
    <3>3. ASSUME frames = 2 PROVE Filled(kept', B1)
      <4>1. DOMAIN kept = Pixels /\ Filled(kept, B0) /\ kept' = [kept EXCEPT ![<<Row, Col>>] = rgb]
        BY <2>1, <3>1, <3>3 DEF Grabbed, FrameTypes
      <4> QED
        BY <4>1, <2>3, <1>b, FilledOn
    <3>4. Filled(fb', B0') /\ (frames' = 2 => Filled(kept', B0'))
      BY <2>1, <3>1, <3>2, <3>3
    <3>5. y' # -1 /\ frames' # 3
      BY <2>1, <3>1, <1>t DEF Wanted
    <3>6. Filled(fb, B0)' /\ (frames' = 2 => Filled(kept, B0)')
      BY <3>4
    <3> QED
      BY <3>5, <3>6 DEF Grabbed
  <2>4. CASE ~de /\ ~FrameDone
    <3>1. fb' = fb /\ kept' = kept /\ frames' = frames /\ y' = y
      BY <2>1, <2>4 DEF Inside, Frames, Row
    <3>2. B1.frames = frames /\ B1.y = y /\ B1.x = x
      <4>1. B1.frames = frames /\ B1.y = y
        BY <2>1, <2>2, <3>1
      <4>2. B1.x = x
        BY <2>4, <1>t DEF B1, Seen, Rises, de
      <4> QED
        BY <4>1, <4>2
    <3>3. Filled(fb, B1) /\ (frames = 2 => Filled(kept, B1))
      BY <3>2, <1>t DEF Grabbed, Filled, FrameOf
    <3>4. Filled(fb', B0') /\ (frames' = 2 => Filled(kept', B0'))
      BY <2>1, <3>1, <3>3
    <3>5. Filled(fb, B0)' /\ (frames' = 2 => Filled(kept, B0)')
      BY <3>4
    <3>6. /\ frames' >= 2 /\ y' = -1 => PictureOf(fb, frames - Early - 1)'
          /\ frames' = 3 => PictureOf(kept, 2 - Early)'
      BY <3>1 DEF Grabbed
    <3> QED
      BY <3>5, <3>6 DEF Grabbed
  <2>5. CASE ~de /\ FrameDone
    <3>1. fb' = fb /\ kept' = kept /\ frames' = frames + 1 /\ y' = -1 /\ B1.y = -1
      BY <2>1, <2>2, <2>5 DEF Inside, Frames, Row
    <3>2. Filled(fb, B1) /\ Filled(kept, B1)
      BY <3>1, NoRowYet
    <3>3. Filled(fb', B0') /\ Filled(kept', B0')
      BY <2>1, <3>1, <3>2
    <3>4. Filled(fb, B0)' /\ Filled(kept, B0)'
      BY <3>3
    <3>5. frames >= 1 => RowDone(B0, Height - 1)
      BY <2>5, <1>b, <1>t DEF BeatFits, Completes, FrameDone, B0, vsync
    <3>6. ASSUME frames' >= 2 PROVE PictureOf(fb, frames - Early - 1)'
      <4>1. RowDone(B0, Height - 1)
        BY <3>1, <3>5, <3>6, <1>t
      <4>2. PictureOf(fb, FrameOf(B0))
        BY <4>1, AllRows DEF Grabbed
      <4>3. FrameOf(B0) = frames' - Early - 1
        BY <3>1, <1>t, Sizes DEF FrameOf
      <4> QED
        BY <3>1, <4>2, <4>3
    <3>7. ASSUME frames' = 3 PROVE PictureOf(kept, 2 - Early)'
      <4>1. frames = 2 /\ RowDone(B0, Height - 1)
        BY <3>1, <3>5, <3>7, <1>t
      <4>2. PictureOf(kept, FrameOf(B0))
        BY <4>1, AllRows DEF Grabbed
      <4>3. FrameOf(B0) = 2 - Early
        BY <4>1, <1>t DEF FrameOf
      <4> QED
        BY <3>1, <4>2, <4>3
    <3> QED
      BY <3>4, <3>6, <3>7 DEF Grabbed
  <2> QED
    BY <2>3, <2>4, <2>5
<1> QED
  BY <1>1, <1>2

-----------------------------------------------------------------------------
LEMMA FrameStarts ==
  ASSUME PixClocks >= 2, NEW phase \in 0 .. 2 * PixClocks - 1, FrameInit(phase)
  PROVE  FrameInv
<1>1. FrameTypes
  <2>1. /\ pix \in 0 .. 2 * PixClocks - 1 /\ pdiv \in 0 .. OutClocks - 1
        /\ hcount \in 0 .. r_htotal /\ vcount \in 0 .. r_vtotal /\ number \in Nat
        /\ out_cnt \in Nat /\ frames \in Nat /\ x \in Nat /\ y \in Int
    BY FrameConstants DEF FrameInit
  <2>2. /\ starts = FALSE /\ vis_q = FALSE /\ out_run = FALSE /\ vs_line = FALSE
        /\ prev_vs = FALSE /\ prev_de = FALSE
    BY DEF FrameInit
  <2>3. /\ \A i \in 1 .. 3 : pipe[i].de \in BOOLEAN /\ pipe[i].vs \in BOOLEAN
        /\ coming.visible \in BOOLEAN /\ shown.visible \in BOOLEAN
    BY DEF FrameInit, Blank
  <2>4. DOMAIN fb = Pixels /\ DOMAIN kept = Pixels
    BY DEF FrameInit, Pixels
  <2> QED
    BY <2>1, <2>2, <2>3, <2>4 DEF FrameTypes
<1>2. Registers
  BY FrameConstants DEF FrameInit, Registers, LineOfRegisters, InPicture, Blank
<1>3. Windows
  BY DEF FrameInit, Windows, Blank
<1>4. \A i \in 1 .. 3 : pipe[i].de = FALSE /\ pipe[i].vs = FALSE
  BY DEF FrameInit
<1>5. B0.vs = FALSE /\ B0.de = FALSE /\ B0.frames = 0 /\ B0.y = -1 /\ B0.x = 0
  BY DEF B0, FrameInit
<1>6. B1 = B0 /\ B2 = B0 /\ B3 = B0
  <2>0. /\ pipe[1].de = B0.de /\ pipe[1].vs = B0.vs /\ pipe[2].de = B0.de /\ pipe[2].vs = B0.vs
        /\ pipe[3].de = B0.de /\ pipe[3].vs = B0.vs
    <3>1. /\ pipe[1].de = FALSE /\ pipe[1].vs = FALSE /\ pipe[2].de = FALSE /\ pipe[2].vs = FALSE
          /\ pipe[3].de = FALSE /\ pipe[3].vs = FALSE
      <4>1. 1 \in 1 .. 3 /\ 2 \in 1 .. 3 /\ 3 \in 1 .. 3
        OBVIOUS
      <4> QED
        BY <4>1, <1>4, Zenon
    <3> QED
      BY <3>1, <1>5, Zenon
  <2>1. B0 \in BenchStates
    BY <1>1, BenchTyped
  <2>2. B1 = B0
    <3>1. Seen(B0, pipe[3]) = B0
      BY <2>0, <2>1, <1>5, SeenUnmoved
    <3> QED
      BY <3>1 DEF B1
  <2>3. B2 = B0
    <3>1. Seen(B0, pipe[2]) = B0
      BY <2>0, <2>1, <1>5, SeenUnmoved
    <3> QED
      BY <2>1, <2>2, <3>1 DEF B2
  <2>4. B3 = B0
    <3>1. Seen(B0, pipe[1]) = B0
      BY <2>0, <2>1, <1>5, SeenUnmoved
    <3> QED
      BY <2>1, <2>3, <3>1 DEF B3
  <2> QED
    BY <2>2, <2>3, <2>4
<1>7. BeatFits(B0, pipe[3]) /\ BeatFits(B1, pipe[2]) /\ BeatFits(B2, pipe[1])
  BY <1>4, <1>6 DEF BeatFits, Completes, Rises
<1>8. Ahead(B0)
  <2>1. /\ ~vs_line /\ ~out_run /\ ~starts /\ number = 0 /\ vcount = 0 /\ hcount = 0
    BY DEF FrameInit
  <2>2. SyncsFollow(B0)
    BY <2>1, <1>5 DEF SyncsFollow
  <2>3. BeforeSync(B0) <=> Early = 1
    BY <2>1 DEF BeforeSync, SyncDue
  <2>4. FramesFollow(B0)
    BY <2>1, <2>3, <1>5, Sizes DEF FramesFollow
  <2>5. LastRow(vcount) = -1 /\ LastRow(vcount + 1) = -1
    BY <2>1, FrameConstants DEF LastRow
  <2>6. RowsFollow(B0)
    BY <2>1, <2>5, <1>5 DEF RowsFollow, RowDone
  <2> QED
    BY <2>2, <2>4, <2>6 DEF Ahead
<1>9. Chain
  <2>1. Ahead(B3)
    BY <1>6, <1>8
  <2> QED
    BY <2>1, <1>7 DEF Chain
<1>10. Grabbed
  <2>1. Filled(fb, B0)
    BY <1>5, NoRowYet
  <2>2. frames = 0
    BY DEF FrameInit
  <2> QED
    BY <2>1, <2>2 DEF Grabbed
<1> QED
  BY <1>1, <1>2, <1>3, <1>9, <1>10 DEF FrameInv

LEMMA FrameKept ==
  ASSUME PixClocks >= 2
  PROVE  FrameInv /\ [FrameNext]_framevars => FrameInv'
<1>1. ASSUME FrameInv, FrameNext PROVE FrameInv'
  <2>1. /\ FrameTypes /\ Registers /\ Windows /\ Chain /\ Grabbed
        /\ frames < Wanted /\ Rasters /\ Lines /\ Window /\ Pipeline /\ Grab
    BY <1>1 DEF FrameInv, FrameNext
  <2>2. Registers' /\ coming'.visible \in BOOLEAN /\ shown'.visible \in BOOLEAN /\ vs_line' \in BOOLEAN
    BY <2>1, StepOfRegisters
  <2>3. Windows' /\ vis_q' \in BOOLEAN /\ out_run' \in BOOLEAN /\ out_cnt' \in Nat
    BY <2>1, StepOfWindow
  <2>4. Chain'
    BY <2>1, ChainKept
  <2>5. Grabbed'
    BY <2>1, GrabbedKept
  <2>6. \A i \in 1 .. 3 : pipe'[i].de \in BOOLEAN /\ pipe'[i].vs \in BOOLEAN
    <3>1. CASE cen_out
      <4>1. /\ pipe'[1].de = out_run /\ pipe'[1].vs = vs_line
            /\ pipe'[2] = pipe[1] /\ pipe'[3] = pipe[2]
        BY <3>1, <2>1 DEF Pipeline
      <4> QED
        BY <4>1, <2>1 DEF FrameTypes
    <3>2. CASE ~cen_out
      BY <3>2, <2>1 DEF Pipeline, FrameTypes
    <3> QED
      BY <3>1, <3>2
  <2>7. FrameTypes'
    <3>1. /\ frames' \in Nat /\ x' \in Nat /\ y' \in Int
          /\ prev_vs' \in BOOLEAN /\ prev_de' \in BOOLEAN
          /\ DOMAIN fb' = Pixels /\ DOMAIN kept' = Pixels
      BY <2>1, GrabTyped
    <3>2. /\ pix' \in 0 .. 2 * PixClocks - 1 /\ pdiv' \in 0 .. OutClocks - 1
          /\ hcount' \in 0 .. r_htotal /\ vcount' \in 0 .. r_vtotal /\ number' \in Nat
          /\ starts' \in BOOLEAN
          /\ starts' => hcount' = 0 /\ pix' = 0 /\ (number' >= 1 \/ vcount' >= 1)
      BY <2>1, StepOfRaster
    <3> QED
      BY <3>1, <3>2, <2>2, <2>3, <2>6 DEF FrameTypes, Pixels, Height, Width
  <2> QED
    BY <2>2, <2>3, <2>4, <2>5, <2>7 DEF FrameInv
<1>2. ASSUME FrameInv, UNCHANGED framevars PROVE FrameInv'
  <2>1. UNCHANGED <<pix, pdiv, hcount, vcount, starts, number, coming, shown, vs_line, vis_q, out_run,
                    out_cnt, pipe, frames, x, y, prev_vs, prev_de, fb, kept>>
    BY <1>2 DEF framevars, raster, window, grab
  <2>2. B0' = B0 /\ B1' = B1 /\ B2' = B2 /\ B3' = B3
    BY <2>1 DEF B0, B1, B2, B3
  <2>3. FrameTypes' /\ Registers' /\ Windows'
    BY <1>2, <2>1 DEF FrameInv, FrameTypes, Registers, LineOfRegisters, Windows, Begun, Over, Elapsed, Open
  <2>4. Chain'
    <3>1. PICK c : c = B3'
      OBVIOUS
    <3>2. Ahead(c)
      BY <3>1, <2>2, <1>2 DEF FrameInv, Chain
    <3>3. Ahead(c)'
      BY <3>2, <2>1 DEF Ahead, SyncsFollow, FramesFollow, RowsFollow, SyncDue, BeforeSync, Begun
    <3>4. Ahead(B3)'
      BY <3>1, <3>3, AheadOfValue
    <3>5. BeatFits(B0', pipe'[3]) /\ BeatFits(B1', pipe'[2]) /\ BeatFits(B2', pipe'[1])
      BY <2>1, <2>2, <1>2 DEF FrameInv, Chain
    <3>6. BeatFits(B0, pipe[3])' /\ BeatFits(B1, pipe[2])' /\ BeatFits(B2, pipe[1])'
      BY <3>5
    <3> QED
      BY <3>4, <3>6 DEF Chain
  <2>5. Grabbed'
    <3>1. Filled(fb', B0') /\ (frames' = 2 => Filled(kept', B0'))
      BY <2>1, <2>2, <1>2 DEF FrameInv, Grabbed
    <3>2. Filled(fb, B0)' /\ (frames' = 2 => Filled(kept, B0)')
      BY <3>1
    <3>3. /\ frames' >= 2 /\ y' = -1 => PictureOf(fb, frames - Early - 1)'
          /\ frames' = 3 => PictureOf(kept, 2 - Early)'
      BY <2>1, <1>2 DEF FrameInv, Grabbed
    <3> QED
      BY <3>2, <3>3 DEF Grabbed
  <2> QED
    BY <2>3, <2>4, <2>5 DEF FrameInv
<1> QED
  BY <1>1, <1>2

(* The frames the bench has counted are behind the raster's.                *)
LEMMA FramesBehind ==
  ASSUME FrameTypes, Chain
  PROVE  frames <= number + Early
<1>1. /\ B0 \in BenchStates /\ B1 \in BenchStates /\ B2 \in BenchStates /\ B3 \in BenchStates
      /\ \A i \in 1 .. 3 : pipe[i].de \in BOOLEAN /\ pipe[i].vs \in BOOLEAN
  BY BenchTyped DEF FrameTypes
<1>2. ASSUME NEW b \in BenchStates, NEW i \in 1 .. 3 PROVE b.frames <= Seen(b, pipe[i]).frames
  <2>1. Seen(b, pipe[i]).frames = b.frames \/ Seen(b, pipe[i]).frames = b.frames + 1
    BY DEF Seen
  <2> QED
    BY <2>1, <1>2 DEF BenchStates
<1>3. B0.frames <= B1.frames /\ B1.frames <= B2.frames /\ B2.frames <= B3.frames
  BY <1>1, <1>2 DEF B1, B2, B3
<1>4. B3.frames <= number + Early
  BY Sizes DEF Chain, Ahead, FramesFollow, FrameTypes
<1>5. B0.frames = frames /\ frames \in Nat /\ B1.frames \in Nat /\ B2.frames \in Nat /\ B3.frames \in Nat
  BY <1>1 DEF B0, BenchStates, FrameTypes
<1> QED
  BY <1>3, <1>4, <1>5, Sizes DEF FrameTypes

LEMMA FrameInvWhole == FrameInv => PictureWhole
<1> SUFFICES ASSUME FrameInv PROVE PictureWhole
  OBVIOUS
<1>1. /\ frames <= number + Early /\ frames \in Nat /\ number \in Nat
      /\ DOMAIN fb = Pixels /\ DOMAIN kept = Pixels /\ Early \in 0 .. 1
  BY FramesBehind, Sizes DEF FrameInv, FrameTypes
<1>2. frames = Wanted => IsPicture(kept)
  <2>1. frames = 3 => PictureOf(kept, 2 - Early) /\ 2 - Early \in 0 .. number
    BY <1>1 DEF FrameInv, Grabbed
  <2> QED
    BY <2>1, <1>1 DEF IsPicture, PictureOf, Wanted
<1>3. frames >= 2 /\ y = -1 => IsPicture(fb)
  <2>1. frames >= 2 /\ y = -1 => PictureOf(fb, frames - Early - 1) /\ frames - Early - 1 \in 0 .. number
    BY <1>1 DEF FrameInv, Grabbed
  <2> QED
    BY <2>1, <1>1 DEF IsPicture, PictureOf
<1> QED
  BY <1>2, <1>3 DEF PictureWhole

(* PictureWhole: whatever the geometry, the ratio of the two pixel clocks   *)
(* and the phase they start at, the frame buffers that tb_system.cpp and    *)
(* tb_video.cpp keep from de and vsync alone hold each pixel in its row and *)
(* column, and all of one frame.  A cen_pix of one clock would open the     *)
(* window on the clock its line's registers change; the machine has 9.6.    *)
THEOREM WholePicture ==
  ASSUME PixClocks >= 2
  PROVE  FrameSpec => []PictureWhole
<1>1. (\E p \in 0 .. 2 * PixClocks - 1 : FrameInit(p)) => FrameInv
  BY FrameStarts
<1>2. FrameInv /\ [FrameNext]_framevars => FrameInv'
  BY FrameKept
<1>3. FrameInv => PictureWhole
  BY FrameInvWhole
<1> QED
  BY <1>1, <1>2, <1>3, PTL DEF FrameSpec
=============================================================================
