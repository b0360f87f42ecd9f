----------------------------- MODULE FrameGrab -----------------------------
(***************************************************************************)
(* How a picture leaves the machine and how the benches catch it: the      *)
(* timing half of src/rtl/gsp_video.sv (the visible window, the three      *)
(* stages behind it, the syncs) and the frame counters of sim/tb_video.cpp *)
(* and sim/tb_system.cpp, which know nothing but vsync and de.             *)
(*                                                                         *)
(* Every step is one clock.  What a line shows is its number and that of   *)
(* its frame; the line buffers themselves are in module LineFetch.         *)
(***************************************************************************)
EXTENDS Integers

CONSTANTS r_heblnk, r_hsblnk, r_htotal, r_vesync, r_veblnk, r_vsblnk, r_vtotal,
          PixClocks,     \* clocks of a cen_pix (9.6)
          OutClocks      \* clocks of a cen_out (4)

ASSUME FrameAssumption ==
    /\ {r_heblnk, r_hsblnk, r_htotal, r_vesync, r_veblnk, r_vsblnk, r_vtotal} \subseteq Nat
    /\ r_heblnk < r_hsblnk /\ r_hsblnk <= r_htotal
    /\ 0 < r_vesync /\ r_vesync <= r_veblnk /\ r_veblnk < r_vsblnk /\ r_vsblnk <= r_vtotal
    /\ PixClocks \in Nat \ {0} /\ OutClocks \in 1 .. PixClocks

Width   == 2 * (r_hsblnk - r_heblnk)
Height  == r_vsblnk - r_veblnk
Nothing == <<"black">>
Wanted  == 3             \* frames of tb_video; tb_system is told how many

VARIABLES
    pix, pdiv,                              \* the two dividers
    hcount, vcount, starts, number,             \* the raster; history: the frame's number
    coming, shown, vs_line,                 \* the line fetched, the line shown
    vis_q, out_run, out_cnt,
    pipe,                                  \* the pipeline of three: de, vs and the pixel
    frames, x, y, prev_vs, prev_de,         \* the bench
    fb, kept                                \* tb_system's buffer, tb_video's

raster == <<pix, pdiv, hcount, vcount, starts, number>>
window == <<coming, shown, vs_line, vis_q, out_run, out_cnt, pipe>>
grab   == <<frames, x, y, prev_vs, prev_de, fb, kept>>
framevars == <<raster, window, grab>>

cen_pix == pix >= 2 * PixClocks - 1 \/ pix = PixClocks - 1
cen_vid == pix >= 2 * PixClocks - 1         \* every other cen_pix
cen_out == pdiv = OutClocks - 1

Rasters ==
    LET wraps == hcount >= r_htotal
    IN /\ pix' = IF cen_vid THEN 0 ELSE pix + 1
       /\ pdiv' = IF cen_out THEN 0 ELSE pdiv + 1
       /\ hcount' = IF ~cen_vid THEN hcount ELSE IF wraps THEN 0 ELSE hcount + 1
       /\ vcount' = IF cen_vid /\ wraps THEN (IF vcount >= r_vtotal THEN 0 ELSE vcount + 1) ELSE vcount
       /\ starts' = (cen_vid /\ wraps)
       /\ number' = IF cen_vid /\ wraps /\ vcount >= r_vtotal THEN number + 1 ELSE number

Blank   == [visible |-> FALSE, line |-> 0, frame |-> 0]
vis_now == r_heblnk <= hcount /\ hcount < r_hsblnk /\ shown.visible

(* What was filled is now shown; the picture is a line behind the counters. *)
Lines ==
    IF starts
    THEN /\ shown' = coming
         /\ coming' = [visible |-> r_veblnk <= vcount /\ vcount < r_vsblnk, line |-> vcount, frame |-> number]
         /\ vs_line' = (vcount < r_vesync)
    ELSE UNCHANGED <<shown, coming, vs_line>>

(* mutant: the window closes a pixel early *)
WindowShort ==
    /\ vis_q' = IF cen_pix THEN vis_now ELSE vis_q
    /\ IF cen_pix /\ vis_now /\ ~vis_q THEN out_run' = TRUE /\ out_cnt' = 0
       ELSE IF cen_out /\ out_run THEN out_cnt' = out_cnt + 1 /\ out_run' = (out_cnt + 2 # Width)
       ELSE UNCHANGED <<out_run, out_cnt>>
Window ==
    /\ vis_q' = IF cen_pix THEN vis_now ELSE vis_q
    /\ IF cen_pix /\ vis_now /\ ~vis_q THEN out_run' = TRUE /\ out_cnt' = 0
       ELSE IF cen_out /\ out_run THEN out_cnt' = out_cnt + 1 /\ out_run' = (out_cnt + 1 # Width)
       ELSE UNCHANGED <<out_run, out_cnt>>

Pixel == IF out_run THEN <<shown.frame, shown.line, out_cnt>> ELSE Nothing
Pipeline ==
    pipe' = IF cen_out THEN <<[de |-> out_run, vs |-> vs_line, rgb |-> Pixel], pipe[1], pipe[2]>>
             ELSE pipe
de    == pipe[3].de
vsync == pipe[3].vs
rgb   == pipe[3].rgb

-----------------------------------------------------------------------------
(* The bench, on each cen_out, sees what the beat before has put out.       *)
FrameDone == vsync /\ ~prev_vs
Row == IF de /\ ~prev_de THEN (IF FrameDone THEN 0 ELSE y + 1) ELSE IF FrameDone THEN -1 ELSE y
Col == IF de /\ ~prev_de THEN 0 ELSE x
Inside == de /\ Row \in 0 .. Height - 1 /\ Col \in 0 .. Width - 1
Frames == IF FrameDone THEN frames + 1 ELSE frames

Grab ==
    IF cen_out
    THEN /\ frames' = Frames /\ y' = Row /\ x' = IF de THEN Col + 1 ELSE Col
         /\ prev_vs' = vsync /\ prev_de' = de
         /\ fb' = IF Inside THEN [fb EXCEPT ![<<Row, Col>>] = rgb] ELSE fb
         /\ kept' = IF Inside /\ Frames = 2 THEN [kept EXCEPT ![<<Row, Col>>] = rgb] ELSE kept
    ELSE UNCHANGED grab

FrameNext == frames < Wanted /\ Rasters /\ Lines /\ Window /\ Pipeline /\ Grab
FrameInit(phase) ==
    /\ pix = phase /\ pdiv = 0 /\ hcount = 0 /\ vcount = 0 /\ starts = FALSE /\ number = 0
    /\ coming = Blank /\ shown = Blank /\ vs_line = FALSE
    /\ vis_q = FALSE /\ out_run = FALSE /\ out_cnt = 0
    /\ pipe = [i \in 1 .. 3 |-> [de |-> FALSE, vs |-> FALSE, rgb |-> Nothing]]
    /\ frames = 0 /\ x = 0 /\ y = -1 /\ prev_vs = FALSE /\ prev_de = FALSE
    /\ fb = [p \in (0 .. Height - 1) \X (0 .. Width - 1) |-> Nothing] /\ kept = fb
FrameSpec == (\E p \in 0 .. 2 * PixClocks - 1 : FrameInit(p)) /\ [][FrameNext]_framevars

-----------------------------------------------------------------------------
(* Each line in its row, each pixel in its column, and all of one frame.    *)
IsPicture(buf) == \E n \in 0 .. number : \A p \in DOMAIN buf : buf[p] = <<n, r_veblnk + p[1], p[2]>>

(* What tb_video writes out, and tb_system when a frame is done from the    *)
(* second vertical sync on, is one whole picture.                           *)
PictureWhole ==
    /\ frames = Wanted => IsPicture(kept)
    /\ frames >= 2 /\ y = -1 => IsPicture(fb)
=============================================================================
