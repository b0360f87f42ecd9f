------------------------------- MODULE MCBoard -------------------------------
(***************************************************************************)
(* Small instances for TLC of five modules, side by side: a behaviour is   *)
(* one of the raster (Raster), of a picture on its way out (FrameGrab), of *)
(* the ADSP core under its trace bench (AdspTrace), of the SOM buffer      *)
(* (Som) or of the loader (RomLoad), and the others rest in their initial  *)
(* state.                                                                  *)
(***************************************************************************)
EXTENDS Raster, FrameGrab, AdspTrace, Som, RomLoad

VARIABLE part     \* "raster", "frame", "adsp", "som" or "load"

(* Recordings of three instructions over two or three words of data: loads  *)
(* and stores through a circular buffer, accesses that reach IO and nothing *)
(* at all, and the 68k writing data, program and the program in the middle  *)
(* of an instruction.                                                       *)
Instr(op, m) == [hi |-> op, lo |-> m]
At(a, b, c, ix, len) == [pm |-> (0 :> a) @@ (1 :> b) @@ (2 :> c), dm |-> [x_ \in 0 .. 3 |-> x_ % 2],
                         pc |-> 0, r |-> 0, i |-> ix, l |-> len]
Before(n_, e) == [n \in 1 .. 3 |-> IF n = n_ THEN <<e, <<"C">>>> ELSE <<>>]
Recorded == {
    [start |-> At(Instr("ld", 1), Instr("st", 1), Instr("ld", 1), 2, 0), host |-> Before(1, <<"X", 2, 1>>), mid |-> 2],
    [start |-> At(Instr("st", 1), Instr("ld", 1), Instr("ld", -1), 2, 2), host |-> Before(2, <<"P", 3, 2>>), mid |-> 0],
    [start |-> At(Instr("ld", 1), Instr("st", 1), Instr("ld", 1), 4, 3), host |-> Before(3, <<"X", 1, 0>>), mid |-> 3],
    [start |-> At(Instr("ld", 1), Instr("nop", 1), Instr("ld", -1), 4, 2), host |-> Before(2, <<"P", 2, "st">>), mid |-> 0] }

TwoBuffers == {2, 6}
SaveFiles  == {<<>>, <<50, 51, 52, 53>>}

\* The hypothesis of ImageIsLoaded holds here.
ASSUME TheoremsApply == FifoSuffices

-----------------------------------------------------------------------------
AtRest(set) == CHOOSE one \in set : TRUE
RasterRests == RasterInit(AtRest(Buffers))
FrameRests  == FrameInit(0)
AdspRests   == AInit(AtRest(Recordings)) /\ fault[1] = "none"
SomRests    == SomInit
LoadRests   == LoadInit(<<>>, 0)

Init == \/ /\ part = "raster" /\ FrameRests /\ AdspRests /\ SomRests /\ LoadRests
           /\ \E b \in Buffers : RasterInit(b)
        \/ /\ part = "frame" /\ RasterRests /\ AdspRests /\ SomRests /\ LoadRests
           /\ \E p \in 0 .. 2 * PixClocks - 1 : FrameInit(p)
        \/ /\ part = "adsp" /\ RasterRests /\ FrameRests /\ SomRests /\ LoadRests
           /\ \E rec \in Recordings : AInit(rec)
        \/ /\ part = "som" /\ RasterRests /\ FrameRests /\ AdspRests /\ LoadRests /\ SomInit
        \/ /\ part = "load" /\ RasterRests /\ FrameRests /\ AdspRests /\ SomRests
           /\ \E z \in Saves, n \in 0 .. Interval : LoadInit(z, n)

OnRaster == part = "raster" /\ UNCHANGED <<part, framevars, avars, somvars, loadvars>>
OnFrame  == part = "frame"  /\ UNCHANGED <<part, rastervars, avars, somvars, loadvars>>
OnAdsp   == part = "adsp"   /\ UNCHANGED <<part, rastervars, framevars, somvars, loadvars>>
OnSom    == part = "som"    /\ UNCHANGED <<part, rastervars, framevars, avars, loadvars>>
OnLoad   == part = "load"   /\ UNCHANGED <<part, rastervars, framevars, avars, somvars>>
Next == \/ RasterNext /\ OnRaster
        \/ FrameNext  /\ OnFrame
        \/ ANext      /\ OnAdsp
        \/ SomNext    /\ OnSom
        \/ LoadNext   /\ OnLoad

boardvars == <<part, rastervars, framevars, avars, somvars, loadvars>>
Spec == Init /\ [][Next]_boardvars
=============================================================================
