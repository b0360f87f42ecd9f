-------------------------------- MODULE MCGsp --------------------------------
(***************************************************************************)
(* Small instances for TLC of the three modules about the GSP, side by     *)
(* side: a behaviour is one of the memory glue (GspBus), of the core in    *)
(* the machine (GspHost) or of the core under the trace bench (GspTrace),  *)
(* and the two others rest in their initial state.                         *)
(***************************************************************************)
EXTENDS GspHost, GspTrace, GspBus

VARIABLE part     \* "bus", "board" or "bench"

-----------------------------------------------------------------------------
(* GspBus: 32 words of VRAM, shift-register rows of 4 words (16 in the      *)
(* expander region), pieces of 2 words.  Every byte of VRAM holds a value   *)
(* of its own, but for some zeros.                                          *)
Distinct == [b \in 0 .. 2 * VramWords - 1 |-> IF b % 7 = 0 THEN 0 ELSE b]
NewWord == <<100, 101>>

Asks(region, we, srt, addr, data) ==
    [row |-> FALSE, region |-> region, we |-> we, srt |-> srt, addr |-> addr, data |-> data]
Rd(region, addr) == Asks(region, FALSE, FALSE, addr, <<0, 0>>)
Wr(region, addr, data) == Asks(region, TRUE, FALSE, addr, data)
SrtIn(region, addr) == Asks(region, FALSE, TRUE, addr, <<0, 0>>)
SrtOut(region, addr) == Asks(region, TRUE, TRUE, addr, <<0, 0>>)
PixelRow(fill, src, dst, len, transp) ==
    [row |-> TRUE, fill |-> fill, src |-> src, dst |-> dst, len |-> len,
     transp |-> transp, color |-> <<90, 0>>]

\* Rows over all byte phases and lengths, apart and overlapping both ways.
PixelRows == {PixelRow(f, s, d, n, tr) : f \in BOOLEAN, s \in {12, 13}, d \in {10, 11, 14, 15, 30, 31},
                                        n \in 1 .. 7, tr \in BOOLEAN}

Copying == Wr("chi", 8, <<1, 1>>)              \* the address, not the data, enables the copy
Sequences ==
    { <<Wr("vram", 33, <<70, 71>>), Rd("vram", 1)>>,
      <<SrtOut("vram", 9)>>,
      <<Copying, SrtIn("vram", 5), Wr("vram", 6, <<70, 71>>), SrtOut("vram", 9)>>,
      <<Copying, SrtIn("vram", 2), SrtOut("exp", 5), Wr("chi", 0, <<1, 1>>), SrtOut("vram", 9)>>,
      <<Copying, SrtIn("exp", 4), SrtOut("vram", 1)>>,
      <<Wr("clo", 0, <<80, 81>>), Wr("clo", 1, <<82, 83>>), Wr("exp", 3, {0, 3, 4, 7}), Wr("exp", 7, {2, 3}), Rd("exp", 3)>>,
      <<Wr("plo", 1, <<1, 2>>), Rd("plo", 1), Wr("chi", 10, <<0, 0>>), Rd("plo", 1), Wr("phi", 1, <<3, 4>>),
        Wr("chi", 11, <<0, 0>>), Rd("phi", 1), Wr("chi", 2, <<0, 0>>), Wr("chi", 3, <<0, 0>>), Rd("phi", 1)>>,
      <<Wr("chi", 1, <<13, 0>>), Rd("chi", 1), Rd("clo", 15), Wr("none", 0, <<9, 9>>), Rd("none", 0)>>,
      <<PixelRow(FALSE, 13, 30, 5, FALSE), Rd("vram", 15), PixelRow(FALSE, 30, 45, 4, TRUE), Wr("vram", 23, <<0, 1>>),
        PixelRow(FALSE, 46, 3, 3, TRUE)>> }

AllPrograms == {<<r>> : r \in PixelRows} \cup Sequences
AllRequests == UNION {{p[i] : i \in DOMAIN p} : p \in AllPrograms}

-----------------------------------------------------------------------------
(* The core: blits of three rows against a window of three, with a handler  *)
(* that blits a row of its own and one that does not.                       *)
FiveRows == 0 .. 4
LastWord == {6}
BlitsToo == <<"save", "blit", "restore", "ack", "reti">>
OnlyAcks == <<"ack", "reti">>
Loops    == <<"setb", "load", "blit", "loop">>
Stores   == <<"setb", "blit", "store", "loop">>
Blit(fast, yrev, daddr, dydx) ==
    [fast |-> fast, yrev |-> yrev, daddr |-> daddr, dydx |-> dydx, fresh |-> TRUE]
Does(main, handler, job_) == <<[main |-> main, handler |-> handler], job_>>

\* Fast; resumed around a blit of the handler; clipped at either end.
Boards == { Does(Loops, OnlyAcks, Blit(TRUE, FALSE, 0, 3)),
            Does(Stores, BlitsToo, Blit(FALSE, FALSE, 1, 3)),
            Does(Loops, OnlyAcks, Blit(FALSE, FALSE, 0, 3)),
            Does(Loops, OnlyAcks, Blit(FALSE, TRUE, 2, 3)) }

\* The trace: two host accesses before the second entry and two before the
\* fourth, an interrupt before any of the first four steps, whole and split
\* blits, and recordings with a wrong register or a wrong row.
Straight == <<"load", "blit", "store", "load">>
Benches  == {Does(Straight, h, j) : h \in {OnlyAcks, BlitsToo},
                                    j \in {Blit(FALSE, FALSE, 1, 2), Blit(TRUE, TRUE, 0, 2)}}
HostDo(at, we, adr, data) == [at |-> at, we |-> we, adr |-> adr, data |-> data]
Accesses == <<HostDo(1, TRUE, 5, 2), HostDo(2, FALSE, 6, 0), HostDo(4, TRUE, 6, 1), HostDo(5, TRUE, 5, 1)>>
Schedules == [first : {1}, host : {<<>>, Accesses}, interrupt : 0 .. 4, split : BOOLEAN, length : {5, 7}]
NoSchedule == [first |-> 1, host |-> <<>>, interrupt |-> 0, split |-> FALSE, length |-> 5]
AtRest == Does(Straight, OnlyAcks, Blit(TRUE, FALSE, 0, 3))

-----------------------------------------------------------------------------
OffBoard == bst = "idle" /\ lines = 0 /\ asks = 0
Init == \/ /\ part = "bus" /\ OffBoard /\ TInit(AtRest[1], AtRest[2], NoSchedule, "none")
           /\ \E p \in Programs : BusInit(p)
        \/ /\ part = "board" /\ BusInit(<<>>)
           /\ \E b \in Boards : HostInit(b[1], b[2]) /\ BenchInit(b[2], NoSchedule, "none")
        \/ /\ part = "bench" /\ BusInit(<<>>) /\ OffBoard
           /\ \E b \in Benches, s \in Schedules, f \in {"none", "register", "vram"} : TInit(b[1], b[2], s, f)

OnBus   == part = "bus"   /\ UNCHANGED <<part, board, tracevars>>
OnBoard == part = "board" /\ UNCHANGED <<part, busvars, rec, log, stage, bench, result>>
OnBench == part = "bench" /\ UNCHANGED <<part, busvars, board>>
Next == \/ BusNext /\ OnBus
        \/ HostNextState /\ OnBoard
        \/ TNext /\ OnBench

\* BusFairness and HostFairness, each where its part runs.
Fairness ==
    /\ WF_busvars(part = "bus" /\ BusNext) /\ WF_busvars(part = "bus" /\ BusNext /\ Progress)
    /\ WF_hostvars(part = "board" /\ Machine) /\ WF_hostvars(part = "board" /\ HostReady)
    /\ WF_hostvars(part = "board" /\ GspGoes)
    /\ WF_tracevars(part = "bench" /\ TNext)
gspvars == <<part, busvars, board, tracevars>>
Spec == Init /\ [][Next]_gspvars /\ Fairness

==============================================================================
