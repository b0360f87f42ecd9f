----------------------------- MODULE AdspTrace -----------------------------
(***************************************************************************)
(* sim/adsp/tb_adsp.cpp: the ADSP-2100 core, clock by clock, replays what  *)
(* a reference machine recorded.  The bench loads the recorded state, runs *)
(* one instruction per trace line, matches every data access with a log    *)
(* that also says where the 68k wrote into the ADSP's memories, answers IO *)
(* reads from the log, and throws halts and slow IO at the core.           *)
(*                                                                         *)
(* The core is its sequencer (adsp2100.sv 840-1000), one register, one     *)
(* index register with its circular buffer, and three instructions; a      *)
(* program word has the two halves the 68k writes apart.  An address has   *)
(* AW bits, the upper two of which decode RAM, IO and nothing, as the 14   *)
(* of the chip do.  No interrupt is raised here (the bench drives irq 0).  *)
(***************************************************************************)
EXTENDS Integers, Sequences, SequencesExt

CONSTANTS AW,        \* width of a data address
          Recordings, \* start states with their program, see Recording below
          Length,    \* instructions recorded
          CEN,       \* clocks per cen pulse
          HALT,      \* longest halt the bench injects
          MaxHalts,  \* bound: halts injected in a run
          IOWAIT,    \* longest wait after an IO read
          GUARD,     \* clocks an instruction may take
          MAXMIS     \* mismatches after which the bench gives up

ASSUME AdspTraceAssumption ==
    /\ AW \in Nat /\ AW > 2 /\ Length \in Nat \ {0} /\ CEN \in Nat \ {0}
    /\ HALT \in Nat \ {0} /\ MaxHalts \in Nat /\ IOWAIT \in Nat /\ MAXMIS \in Nat \ {0}
    /\ GUARD > (CEN + HALT) * (MaxHalts + 1) + 8 + IOWAIT

RAM     == 0 .. 2 ^ (AW - 1) - 1
IsIo(a) == a \in 2 ^ (AW - 1) .. 3 * 2 ^ (AW - 2) - 1
Ones    == 1                      \* what reads as 0xffff

-----------------------------------------------------------------------------
(* Circular buffers.                                                        *)
Span(l)    == CHOOSE p \in {2 ^ k : k \in 0 .. AW} : p >= l /\ \A k \in 0 .. AW : 2 ^ k >= l => p <= 2 ^ k
Base(i, l) == i - (i % Span(l))
Within(n, base, l) ==
    IF n < base THEN n + l ELSE IF n >= base + l THEN n - l ELSE n
Modify(i, m, base, l) == Within((i + m) % 2 ^ AW, base, l) % 2 ^ AW

-----------------------------------------------------------------------------
(* The recording.  A start state is [pm, dm, pc, r, i, l]; a host action is *)
(* <<"X", a, v>>, <<"P", half, v>> or <<"C">>, taken before instruction n.  *)
Half(word, a, v) == IF a % 2 = 1 THEN [word EXCEPT !.lo = v] ELSE [word EXCEPT !.hi = v]

HostWrite(s, e) ==
    CASE e[1] = "X" -> [s EXCEPT !.dm[e[2]] = e[3]]
      [] e[1] = "P" -> [s EXCEPT !.pm[e[2] \div 2] = Half(@, e[2], e[3])]
      [] OTHER      -> s

(* What the reference machine reads at a: an IO port gives a fresh value.   *)
Reads(s, a) == IF a \in RAM THEN s.dm[a] ELSE IF IsIo(a) THEN 1 - s.r ELSE Ones

Executed(s) ==
    LET w == s.pm[s.pc]
        t == [s EXCEPT !.pc = (@ + 1) % Cardinality(DOMAIN s.pm)]
        u == IF w.hi = "nop" THEN t ELSE [t EXCEPT !.i = Modify(@, w.lo, Base(s.i, s.l), s.l)]
    IN CASE w.hi = "ld" -> [u EXCEPT !.r = Reads(s, s.i)]
         [] w.hi = "st" -> IF s.i \in RAM THEN [u EXCEPT !.dm[s.i] = s.r] ELSE u
         [] OTHER       -> u
Accessed(s) ==
    LET op == s.pm[s.pc].hi
    IN CASE op = "ld" -> <<<<"R", s.i, Reads(s, s.i)>>>>
         [] op = "st" -> <<<<"W", s.i, s.r>>>>
         [] OTHER     -> <<>>

(* host[n]: what the 68k does before instruction n; mid: the instruction at *)
(* which the register trace begins, 0 when there is no PC-only stretch.     *)
Recording(start, host, mid) ==
    LET S[n \in 0 .. Length] ==
            IF n = 0 THEN start ELSE Executed(FoldLeft(HostWrite, S[n - 1], host[n]))
        Before(n) == FoldLeft(HostWrite, S[n - 1], host[n])
        Marker(n) == IF mid # 0 /\ n = mid THEN <<<<"M">>>> ELSE <<>>
        Log[n \in 0 .. Length] ==
            IF n = 0 THEN <<>> ELSE Log[n - 1] \o Marker(n) \o host[n] \o Accessed(Before(n))
    IN [start |-> start, log |-> Log[Length], mid |-> mid,
        midState |-> IF mid = 0 THEN start ELSE S[mid - 1], end |-> S[Length],
        trace |-> [n \in 1 .. Length |-> [pc |-> S[n - 1].pc, has_regs |-> n >= mid,
                                          r |-> S[n - 1].r, i |-> S[n - 1].i]]]

(* One thing wrong in a recording: what a core that differs from the        *)
(* reference in one access, one result or one step looks like to the bench. *)
Faults(rec) ==
    {<<"none", 0>>, <<"end", 0>>}
    \cup {<<f, j>> : f \in {"value", "lost", "twice"}, j \in {k \in DOMAIN rec.log : rec.log[k][1] \in {"R", "W"}}}
    \cup {<<f, n>> : f \in {"pc"}, n \in 1 .. Length}
    \cup {<<"reg", n>> : n \in {k \in 1 .. Length : rec.trace[k].has_regs}}
    \cup (IF rec.mid = 0 THEN {} ELSE {<<"mid", 0>>})
Faulty(rec, f) ==
    CASE f[1] = "value" -> [rec EXCEPT !.log[f[2]][3] = 1 - @]
      [] f[1] = "lost"  -> [rec EXCEPT !.log = RemoveAt(@, f[2])]
      [] f[1] = "twice" -> [rec EXCEPT !.log = InsertAt(@, f[2], @[f[2]])]
      [] f[1] = "pc"    -> [rec EXCEPT !.trace[f[2]].pc = (@ + 1) % Cardinality(DOMAIN rec.start.pm)]
      [] f[1] = "reg"   -> [rec EXCEPT !.trace[f[2]].r = 1 - @]
      [] f[1] = "mid"   -> [rec EXCEPT !.midState.r = 1 - @]
      [] f[1] = "end"   -> [rec EXCEPT !.end.dm[0] = 1 - @]
      [] OTHER          -> rec

-----------------------------------------------------------------------------
VARIABLES
    tape, fault,                          \* the recording and what is wrong with it
    st, pc, r, i, base, dm, pm, ir,       \* the core
    io_rd, io_pending_rd, dm_addr_lat, dm_data_lat, dbg_dm, dbg_instr_done,
    io_rdata, io_hold, halt_hold, halts, cycles,     \* what the bench drives
    phase, line, io_idx, mismatches, guard, failed, verdict

core   == <<st, pc, r, i, base, dm, pm, ir, io_rd, io_pending_rd, dm_addr_lat, dm_data_lat,
            dbg_dm, dbg_instr_done>>
drive  == <<io_rdata, io_hold, halt_hold, halts, cycles>>
judge  == <<phase, line, io_idx, mismatches, guard, failed, verdict>>
avars  == <<tape, fault, core, drive, judge>>

Log     == tape.log
Left    == SubSeq(Log, io_idx, Len(Log))
Head1   == IF io_idx <= Len(Log) THEN Log[io_idx] ELSE <<"-">>
Word    == pm[pc]
None    == <<>>

(* apply_pending_host: the 68k's writes that come before the next access.   *)
(* A half-word write reads the word first, one clock for each port cycle.   *)
HostRun == {k \in DOMAIN Left : \A j \in 1 .. k : Left[j][1] \in {"X", "P", "C"}}
Pending == SubSeq(Left, 1, Cardinality(HostRun))
HostClocks == FoldLeft(LAMBDA n, e : n + (CASE e[1] = "X" -> 1 [] e[1] = "P" -> 3 [] OTHER -> 0), 0, Pending)
ApplyPendingHost ==
    LET s == FoldLeft(HostWrite, [dm |-> dm, pm |-> pm], Pending)
    IN /\ dm' = s.dm /\ pm' = s.pm
       /\ io_idx' = io_idx + Len(Pending)
       /\ cycles' = (cycles + HostClocks) % CEN

-----------------------------------------------------------------------------
(* The core, clocked.                                                       *)
Idle(cen, halt) ==
    /\ st = "IDLE"
    /\ st' = IF cen /\ ~halt THEN "WAIT" ELSE "IDLE"
    /\ dbg_dm' = None /\ io_rd' = FALSE /\ dbg_instr_done' = FALSE
    /\ UNCHANGED <<pc, r, i, base, dm, ir, io_pending_rd, dm_addr_lat, dm_data_lat>>
Fetch ==
    /\ st \in {"WAIT", "LATCH", "DEC"}
    /\ st' = CASE st = "WAIT" -> "LATCH" [] st = "LATCH" -> "DEC" [] OTHER -> "ISSUE"
    /\ ir' = IF st = "LATCH" THEN Word ELSE ir
    /\ dbg_dm' = None /\ io_rd' = FALSE /\ dbg_instr_done' = FALSE
    /\ UNCHANGED <<pc, r, i, base, dm, io_pending_rd, dm_addr_lat, dm_data_lat>>
(* Mutant: an IO read that does not wait for its word.                      *)
IssueNoWait ==
    /\ st = "ISSUE" /\ st' = "MEM"
    /\ dm_addr_lat' = i
    /\ io_rd' = (ir.hi = "ld" /\ IsIo(i)) /\ io_pending_rd' = FALSE
    /\ dbg_dm' = IF ir.hi = "st" THEN <<"W", i, r>> ELSE None
    /\ dm' = IF ir.hi = "st" /\ i \in RAM THEN [dm EXCEPT ![i] = r] ELSE dm
    /\ dbg_instr_done' = FALSE
    /\ UNCHANGED <<pc, r, i, base, ir, dm_data_lat>>
Issue ==
    /\ st = "ISSUE" /\ st' = "MEM"
    /\ dm_addr_lat' = i
    /\ io_rd' = (ir.hi = "ld" /\ IsIo(i)) /\ io_pending_rd' = io_rd'
    /\ dbg_dm' = IF ir.hi = "st" THEN <<"W", i, r>> ELSE None
    /\ dm' = IF ir.hi = "st" /\ i \in RAM THEN [dm EXCEPT ![i] = r] ELSE dm
    /\ dbg_instr_done' = FALSE
    /\ UNCHANGED <<pc, r, i, base, ir, dm_data_lat>>
Mem(io_wait) ==
    LET word == IF io_pending_rd THEN io_rdata
                ELSE IF dm_addr_lat \in RAM THEN dm[dm_addr_lat] ELSE Ones
        waits == io_pending_rd /\ io_wait
    IN /\ st = "MEM"
       /\ st' = IF waits THEN "MEM" ELSE "WB"
       /\ io_pending_rd' = (io_pending_rd /\ io_wait)
       /\ dm_data_lat' = IF waits THEN dm_data_lat ELSE word
       /\ dbg_dm' = IF ir.hi = "ld" /\ ~waits THEN <<"R", dm_addr_lat, word>> ELSE None
       /\ io_rd' = FALSE /\ dbg_instr_done' = FALSE
       /\ UNCHANGED <<pc, r, i, base, dm, ir, dm_addr_lat>>
WriteBack ==
    /\ st = "WB" /\ st' = "IDLE"
    /\ pc' = (pc + 1) % Cardinality(DOMAIN pm)
    /\ r' = IF ir.hi = "ld" THEN dm_data_lat ELSE r
    /\ i' = IF ir.hi = "nop" THEN i ELSE Modify(i, ir.lo, base, tape.start.l)
    /\ dbg_instr_done' = TRUE /\ dbg_dm' = None /\ io_rd' = FALSE
    /\ UNCHANGED <<base, dm, ir, io_pending_rd, dm_addr_lat, dm_data_lat>>
Core(cen, halt, io_wait) == Idle(cen, halt) \/ Fetch \/ Issue \/ Mem(io_wait) \/ WriteBack

-----------------------------------------------------------------------------
(* The bench.                                                               *)
Adds(n) == mismatches + n

(* The switch to the register trace: the marker, then the registers.        *)
Mid ==
    LET s == tape.midState
    IN /\ phase = "compare" /\ line = tape.mid /\ Head1[1] = "M"
       /\ io_idx' = io_idx + 1
       /\ mismatches' = Adds(IF s.r = r /\ s.i = i /\ s.pc = pc THEN 0 ELSE 1)
       /\ UNCHANGED <<tape, fault, core, drive, phase, line, guard, failed, verdict>>

(* The marker is not where the switch is.                                   *)
MidMissing ==
    /\ phase = "compare" /\ line = tape.mid /\ Head1[1] # "M" /\ \E k \in DOMAIN Left : Left[k][1] = "M"
    /\ failed' = TRUE /\ phase' = "end"
    /\ UNCHANGED <<tape, fault, core, drive, line, io_idx, mismatches, guard, verdict>>

(* Before an instruction: compare, resynchronise the PC, let the 68k write. *)
Compare ==
    LET t == tape.trace[line]
        wrong == (IF pc # t.pc THEN 1 ELSE 0) + (IF t.has_regs /\ (t.r # r \/ t.i # i) THEN 1 ELSE 0)
    IN /\ phase = "compare" /\ line <= Length
       /\ line = tape.mid => \A k \in DOMAIN Left : Left[k][1] # "M"
       /\ mismatches' = Adds(wrong)
       /\ failed' = (wrong > 0 /\ mismatches' >= MAXMIS)
       /\ IF failed' THEN phase' = "end" /\ UNCHANGED <<pc, dm, pm, io_idx, cycles>>
                     ELSE phase' = "run" /\ pc' = t.pc /\ ApplyPendingHost
       /\ guard' = 0
       /\ UNCHANGED <<tape, fault, st, r, i, base, ir, io_rd, io_pending_rd, dm_addr_lat, dm_data_lat,
                      dbg_dm, dbg_instr_done, io_rdata, io_hold, halt_hold, halts, line, verdict>>

(* One clock of the run loop, with what it then sees on the core's outputs. *)
Served == Head1[1] = "R" /\ Head1[2] \notin RAM
Halts  == IF halt_hold > 0 \/ halts = MaxHalts THEN {0} ELSE 0 .. HALT
Tick ==
    \E h \in Halts :
       /\ phase = "run"
       /\ Core(cycles = 0, halt_hold > 0, io_hold > 0)
       /\ cycles' = (cycles + 1) % CEN
       /\ halt_hold' = IF halt_hold > 0 THEN halt_hold - 1 ELSE h
       /\ halts' = IF h > 0 THEN halts + 1 ELSE halts
       /\ io_rdata' = IF io_rd' THEN (IF Served THEN Head1[3] ELSE Ones) ELSE io_rdata
       /\ IF io_rd' THEN io_hold' \in 0 .. IOWAIT ELSE io_hold' = IF io_hold > 0 THEN io_hold - 1 ELSE 0
       /\ io_idx' = IF dbg_dm' # None /\ Head1[1] = dbg_dm'[1] THEN io_idx + 1 ELSE io_idx
       /\ mismatches' = Adds((IF io_rd' /\ ~(Served /\ Head1[2] = i) THEN 1 ELSE 0)
                             + (IF dbg_dm' # None /\ dbg_dm' # Head1 THEN (IF dbg_dm'[1] = "W" /\ IsIo(i) THEN 2 ELSE 1) ELSE 0))
       /\ guard' = guard + 1
       /\ failed' = (guard' > GUARD \/ mismatches' >= MAXMIS)
       /\ phase' = IF failed' THEN "end" ELSE IF dbg_instr_done' THEN "compare" ELSE "run"
       /\ line' = IF dbg_instr_done' THEN line + 1 ELSE line
       /\ UNCHANGED <<tape, fault, pm, verdict>>

Over == phase = "end" \/ (phase = "compare" /\ line > Length)
End ==
    LET s == FoldLeft(HostWrite, [dm |-> dm, pm |-> pm], Pending)
        left == \E k \in DOMAIN Left : Left[k][1] \in {"R", "W"}
        same == r = tape.end.r /\ i = tape.end.i /\ pc = tape.end.pc
                /\ s.dm = tape.end.dm /\ s.pm = tape.end.pm
    IN /\ Over /\ verdict = "none"
       /\ verdict' = IF ~failed /\ mismatches = 0 /\ same /\ ~left THEN "PASS" ELSE "FAIL"
       /\ phase' = "done"
       /\ UNCHANGED <<tape, fault, core, drive, line, io_idx, mismatches, guard, failed>>

-----------------------------------------------------------------------------
(* load_state, and the memories through the 68k's ports.                    *)
LoadState(s) ==
    /\ pc = s.pc /\ r = s.r /\ i = s.i /\ base = Base(s.i, s.l) /\ dm = s.dm /\ pm = s.pm
    /\ st = "IDLE" /\ ir = s.pm[s.pc] /\ io_rd = FALSE /\ io_pending_rd = FALSE
    /\ dm_addr_lat = 0 /\ dm_data_lat = 0 /\ dbg_dm = None /\ dbg_instr_done = FALSE
AInit(x) ==
    /\ LET rec == Recording(x.start, x.host, x.mid)
       IN /\ fault \in Faults(rec) /\ tape = Faulty(rec, fault)
          /\ LoadState(rec.start)
    /\ io_rdata = 0 /\ io_hold = 0 /\ halt_hold = 0 /\ halts = 0 /\ cycles = 0
    /\ phase = "compare" /\ line = 1 /\ io_idx = 1 /\ mismatches = 0 /\ guard = 0
    /\ failed = FALSE /\ verdict = "none"
ANext == Mid \/ MidMissing \/ Compare \/ Tick \/ End

-----------------------------------------------------------------------------
(* The bench passes exactly the cores that do what was recorded: any halt   *)
(* and any wait for an IO word leaves no trace in what the core does, and   *)
(* one access, value, register or memory word that differs is found.        *)
VerdictRight == phase = "done" => (verdict = "PASS" <=> fault[1] = "none")

=============================================================================
