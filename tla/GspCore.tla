------------------------------ MODULE GspCore ------------------------------
(***************************************************************************)
(* The sequencer of the TMS34010 core (src/rtl/gsp/tms34010.sv): the       *)
(* instruction boundary S_CHECK, the fetch, the word primitive, the three  *)
(* places where a host access is inserted between the core's own, and      *)
(* FILL/PIXBLT with its interrupts: before it starts, between its rows, or *)
(* (under the trace bench) after its rows and before its registers.        *)
(*                                                                         *)
(* The instruction set is a load, a store, a blit, an acknowledge of the   *)
(* display interrupt, the saving of the B file and RETI; a row is one word *)
(* of memory, numbered by its address.  Whether the instruction cache hits *)
(* is a choice, and so is whether a blit is older than its budget.  The    *)
(* strobes of the host and the raster fall between two clocks of the core: *)
(* that differs from the code only when both write one register at once.   *)
(***************************************************************************)
EXTENDS Integers, Sequences, FiniteSets

CONSTANTS Rows,         \* addresses of the rows a blit may paint
          HandlerRow,   \* the row the handler's own blit paints
          Scratch,      \* the word loads and stores use
          HostWords,    \* words only the host uses
          IoReg,        \* a host address inside the core's I/O registers
          WSTART, WEND  \* the window, in rows

ASSUME GspCoreAssumption ==
    /\ Rows \subseteq Nat /\ IsFiniteSet(Rows) /\ HostWords \subseteq Nat
    /\ HandlerRow \in Nat \ Rows /\ Scratch \in Nat \ (Rows \cup {HandlerRow})
    /\ IoReg \notin Rows \cup {HandlerRow, Scratch} \cup HostWords
    /\ WSTART \in Nat /\ WEND \in Nat

Words == {Scratch} \cup HostWords       \* the contents of a row are in painted

VARIABLES
    state, program,   \* program: main, entered at 1, and handler, at Vector
    cpu,              \* pc, ie and p of ST, the accumulator, DADDR.y, DYDX.y, the stack
    di, force_pend,   \* INTPEND.DI, and the bench's forced interrupt
    w, hw_ret, mrd,   \* the word primitive
    host,             \* the host port: pend, we, data, ready, rdata, HSTADR and HSTCTLH: adr, halted, inc
    blt,              \* the blit engine
    mem,
    job,              \* what the blit is asked: fast or not, CONTROL.PBV, its registers
    painted,          \* history: how often the blit under way has painted each row
    waited            \* history: the core's memory cycles that ended while a host access waits

regs   == <<program, cpu, di, force_pend>>
word   == <<w, hw_ret, mrd>>
engine == <<blt, job, painted>>
gvars  == <<state, regs, word, host, engine, mem, waited>>

Blank  == [a \in Rows \cup {HandlerRow} |-> 0]
Vector == Len(program.main) + 1
Code   == program.main \o program.handler
Op     == Code[cpu.pc - 1]          \* in S_EXEC, pc has moved past the instruction

IntReady   == cpu.ie /\ di
host_is_io == host.adr = IoReg
HostHere   == host.pend /\ ~host_is_io      \* an access that may be inserted
Goes(s)    == state' = s
Ends(kind) == waited' = IF HostHere THEN [waited EXCEPT ![kind] = @ + 1] ELSE waited
NoWait     == [words |-> 0, rows |-> 0]
Access(a, we, v, ret) == w' = [addr |-> a, we |-> we, data |-> v, ret |-> ret] /\ Goes("W0")

(* A data access of the host has been made; inc holds TRUE if HSTADR moves  *)
(* on after a write (INCW), FALSE if it does after a read (INCR).           *)
HostGets(we, v) ==
    host' = [host EXCEPT !.ready = TRUE, !.rdata = v, !.adr = IF we \in host.inc THEN @ + 1 ELSE @]

-----------------------------------------------------------------------------
(* S_CHECK: the host first, then halt and hold, then an interrupt, then the *)
(* next instruction.                                                        *)
CheckHost ==
    /\ state = "CHECK" /\ host.pend
    /\ host' = [host EXCEPT !.pend = FALSE]
    /\ Access(host.adr, host.we, host.data, "HOST1") /\ waited' = NoWait
    /\ UNCHANGED <<regs, hw_ret, mrd, engine, mem>>
Check(hold, inhibit) ==
    /\ state = "CHECK" /\ ~host.pend /\ ~host.halted /\ ~hold
    /\ IF IntReady /\ (~inhibit \/ force_pend)
       THEN Goes("INT") /\ force_pend' = FALSE
       ELSE Goes("FT0") /\ UNCHANGED force_pend       \* dbg_instr
    /\ UNCHANGED <<program, cpu, di, word, host, engine, mem, waited>>
Host1 ==
    /\ state = "HOST1" /\ Goes("CHECK") /\ HostGets(w.we, mrd)
    /\ UNCHANGED <<regs, word, engine, mem, waited>>
(* The entry: PC and ST pushed, ST cleared, PC from the vector.             *)
Interrupt ==
    /\ state = "INT" /\ Goes("CHECK")
    /\ cpu' = [cpu EXCEPT !.stack = Append(@, [pc |-> cpu.pc, ie |-> cpu.ie, p |-> cpu.p]),
                          !.pc = Vector, !.ie = FALSE, !.p = FALSE]
    /\ UNCHANGED <<program, di, force_pend, word, host, engine, mem, waited>>

-----------------------------------------------------------------------------
(* The fetch, and a host access inserted on a miss of the cache.            *)
Insert(ret) == /\ host' = [host EXCEPT !.pend = FALSE] /\ waited' = NoWait
               /\ hw_ret' = ret /\ Goes("HW1")
Fetch0 ==
    /\ state = "FT0" /\ Goes("FT1")
    /\ UNCHANGED <<regs, word, host, engine, mem, waited>>
Fetched == /\ (state = "FT1" \/ state = "FT2")
           /\ cpu' = [cpu EXCEPT !.pc = @ + 1] /\ Goes("EXEC")
           /\ IF state = "FT2" THEN Ends("words") ELSE UNCHANGED waited
           /\ UNCHANGED <<program, di, force_pend, word, host, engine, mem>>
FetchInsert ==
    /\ state = "FT1" /\ HostHere /\ Insert("FT1")
    /\ UNCHANGED <<regs, w, mrd, engine, mem>>
FetchMiss ==
    /\ state = "FT1" /\ ~HostHere /\ Goes("FT2")
    /\ UNCHANGED <<regs, word, host, engine, mem, waited>>

-----------------------------------------------------------------------------
(* The word primitive.  An access to an I/O register takes no memory cycle; *)
(* the core's is the one that clears INTPEND.DI.                            *)
WordIo ==
    /\ state = "W0" /\ w.addr = IoReg /\ Goes(w.ret)
    /\ di' = (di /\ w.ret = "HOST1") /\ mrd' = 0
    /\ UNCHANGED <<program, cpu, force_pend, w, hw_ret, host, engine, mem, waited>>
WordInsert ==
    /\ state = "W0" /\ w.addr # IoReg /\ HostHere /\ Insert("W0")
    /\ UNCHANGED <<regs, w, mrd, engine, mem>>
(* Mutant: the host waits for the instruction boundary, as it once did.     *)
WordIssueAlways ==
    /\ state = "W0" /\ w.addr # IoReg /\ Goes("W1")
    /\ UNCHANGED <<regs, word, host, engine, mem, waited>>
WordIssue ==
    /\ state = "W0" /\ w.addr # IoReg /\ ~HostHere /\ Goes("W1")
    /\ UNCHANGED <<regs, word, host, engine, mem, waited>>
Paints(a) == painted' = IF a \in DOMAIN painted THEN [painted EXCEPT ![a] = @ + 1] ELSE painted
WordDone ==
    /\ state = "W1" /\ Goes(w.ret) /\ Ends("words")
    /\ mrd' = IF w.addr \in Words THEN mem[w.addr] ELSE mrd
    /\ mem' = IF w.we /\ w.addr \in Words THEN [mem EXCEPT ![w.addr] = w.data] ELSE mem
    /\ IF w.ret = "NEXTROW" THEN Paints(w.addr) ELSE UNCHANGED painted
    /\ UNCHANGED <<regs, w, hw_ret, host, blt, job>>
(* An inserted host access completes, and the core's own is issued again.   *)
(* Mutant: INCW or INCR is chosen by the core's access, not the host's.     *)
HostDoneOfCore ==
    /\ state = "HW1" /\ Goes(hw_ret) /\ HostGets(w.we, mem[host.adr])
    /\ mem' = IF host.we THEN [mem EXCEPT ![host.adr] = host.data] ELSE mem
    /\ UNCHANGED <<regs, word, engine, waited>>
HostDone ==
    /\ state = "HW1" /\ Goes(hw_ret) /\ HostGets(host.we, mem[host.adr])
    /\ mem' = IF host.we THEN [mem EXCEPT ![host.adr] = host.data] ELSE mem
    /\ UNCHANGED <<regs, word, engine, waited>>

-----------------------------------------------------------------------------
(* S_EXEC of the plain instructions.                                        *)
Top    == cpu.stack[Len(cpu.stack)]
Popped == SubSeq(cpu.stack, 1, Len(cpu.stack) - 1)

MemoryOp ==
    /\ \/ Op = "load"  /\ Access(Scratch, FALSE, 0, "LOADED")
       \/ Op = "store" /\ Access(Scratch, TRUE, cpu.a, "CHECK")
       \/ Op = "ack"   /\ Access(IoReg, TRUE, 0, "CHECK")
    /\ UNCHANGED cpu
RegisterOp ==
    /\ Goes("CHECK") /\ UNCHANGED w
    /\ \/ Op = "loop" /\ cpu' = [cpu EXCEPT !.pc = 1]
       \/ Op = "setb" /\ cpu' = [cpu EXCEPT !.daddr = job.daddr, !.dydx = job.dydx]
       \/ Op = "save" /\ cpu' = [cpu EXCEPT !.stack = Append(@, [daddr |-> cpu.daddr, dydx |-> cpu.dydx]),
                                            !.daddr = HandlerRow, !.dydx = 1]
       \/ Op = "restore" /\ cpu' = [cpu EXCEPT !.stack = Popped, !.daddr = Top.daddr, !.dydx = Top.dydx]
       \/ Op = "reti" /\ cpu' = [cpu EXCEPT !.stack = Popped, !.pc = Top.pc, !.ie = Top.ie, !.p = Top.p]
Execute ==
    /\ state = "EXEC" /\ (MemoryOp \/ RegisterOp)
    /\ UNCHANGED <<program, di, force_pend, hw_ret, mrd, host, engine, mem, waited>>
Loaded ==
    /\ state = "LOADED" /\ Goes("CHECK") /\ cpu' = [cpu EXCEPT !.a = mrd]
    /\ UNCHANGED <<program, di, force_pend, word, host, engine, mem, waited>>

-----------------------------------------------------------------------------
(* FILL and PIXBLT.  The rows left after clipping, from the registers as    *)
(* they are now; the handler's own blit is inside the window.               *)
Outer         == cpu.daddr # HandlerRow
Reversed      == job.yrev /\ Outer
Larger(x, y)  == IF x > y THEN x ELSE y
Smaller(x, y) == IF x < y THEN x ELSE y
ClipFirst(d)    == Larger(d, WSTART)
ClipLast(d, dy) == Smaller(d + dy - 1, WEND)
FirstRow == IF Outer THEN ClipFirst(cpu.daddr) ELSE cpu.daddr
LastRow == IF Outer THEN ClipLast(cpu.daddr, cpu.dydx) ELSE cpu.daddr + cpu.dydx - 1

(* A pending interrupt is taken before the blit has touched anything.       *)
BlitYields(inhibit) ==
    /\ state = "EXEC" /\ Op = "blit" /\ ~cpu.p /\ IntReady /\ ~inhibit
    /\ cpu' = [cpu EXCEPT !.p = TRUE, !.pc = @ - 1] /\ Goes("CHECK")
    /\ UNCHANGED <<program, di, force_pend, word, host, engine, mem, waited>>
(* Otherwise it starts, or resumes from what the registers hold now.        *)
BlitIssue(inhibit, int_pending) ==
    LET runs  == FirstRow <= LastRow
        fresh == runs /\ Outer /\ job.fresh
    IN /\ state = "EXEC" /\ Op = "blit" /\ (cpu.p \/ ~IntReady \/ inhibit)
       /\ cpu' = [cpu EXCEPT !.p = runs]
       /\ blt' = [blt EXCEPT !.defer = @ \/ (~cpu.p /\ int_pending /\ inhibit),
                             !.y = 0, !.dy = LastRow - FirstRow + 1, !.old = FALSE,
                             !.row = IF Reversed THEN LastRow ELSE FirstRow]
       /\ Goes(IF runs THEN "ROW" ELSE "CHECK")
       /\ painted' = IF fresh THEN [Blank EXCEPT ![HandlerRow] = painted[HandlerRow]] ELSE painted
       /\ job' = IF fresh THEN [job EXCEPT !.fresh = FALSE] ELSE job
       /\ UNCHANGED <<program, di, force_pend, word, host, mem, waited>>
RowsDone ==
    /\ state = "ROW" /\ blt.rows_done
    /\ blt' = [blt EXCEPT !.rows_done = FALSE] /\ Goes("END")
    /\ UNCHANGED <<regs, word, host, job, painted, mem, waited>>
Row ==
    /\ state = "ROW" /\ ~blt.rows_done
    /\ blt' = [blt EXCEPT !.defer = FALSE, !.forced_after = @ \/ blt.defer]
    /\ IF job.fast THEN Goes("RC") /\ UNCHANGED w
                   ELSE Access(blt.row, TRUE, 1, "NEXTROW")
    /\ UNCHANGED <<regs, hw_ret, mrd, host, job, painted, mem, waited>>
RowCommand ==
    /\ state = "RC" /\ Goes("NEXTROW")
    /\ Paints(blt.row) /\ Ends("rows")
    /\ UNCHANGED <<regs, word, host, blt, job, mem>>
(* Between two rows: on to the next, or the interrupt, with the progress.   *)
(* Mutant: the row just painted is not counted.                             *)
CountedShort(y) == y - 1
Counted(y) == y
NextRow(inhibit) ==
    \E old \in {x \in BOOLEAN : blt.old => x} :
       LET y    == blt.y + 1
           over == y = blt.dy
           cut  == ~over /\ IntReady /\ ~inhibit /\ ~job.fast /\ old
       IN /\ state = "NEXTROW"
          /\ blt' = [blt EXCEPT !.y = y, !.old = old, !.int_wb = cut, !.done = IF cut THEN Counted(y) ELSE @,
                                !.row = IF over THEN @ ELSE IF Reversed THEN @ - 1 ELSE @ + 1]
          /\ Goes(IF over \/ cut THEN "END" ELSE "ROW")
          /\ UNCHANGED <<regs, word, host, job, painted, mem, waited>>
(* The registers: all of them, or the progress so far with P kept, or none  *)
(* yet when the bench forces the interrupt.                                 *)
Advances == IF ~blt.int_wb THEN cpu.dydx ELSE IF Reversed THEN 0 ELSE blt.done
BlitForced ==
    /\ state = "END" /\ blt.forced_after /\ Goes("CHECK")
    /\ blt' = [blt EXCEPT !.forced_after = FALSE, !.rows_done = TRUE]
    /\ cpu' = [cpu EXCEPT !.pc = @ - 1]
    /\ UNCHANGED <<program, di, force_pend, word, host, job, painted, mem, waited>>
BlitEnd ==
    /\ state = "END" /\ ~blt.forced_after /\ Goes("CHECK")
    /\ blt' = [blt EXCEPT !.int_wb = FALSE]
    /\ cpu' = [cpu EXCEPT !.p = blt.int_wb, !.daddr = @ + Advances,
                          !.dydx = IF blt.int_wb THEN @ - blt.done ELSE @,
                          !.pc = IF blt.int_wb THEN @ - 1 ELSE @]
    /\ job' = IF Outer /\ ~blt.int_wb THEN [job EXCEPT !.fresh = TRUE] ELSE job
    /\ UNCHANGED <<program, di, force_pend, word, host, painted, mem, waited>>

-----------------------------------------------------------------------------
Core(hold, inhibit, int_pending) ==
    \/ CheckHost \/ Check(hold, inhibit) \/ Host1 \/ Interrupt
    \/ Fetch0 \/ Fetched \/ FetchInsert \/ FetchMiss
    \/ WordIo \/ WordInsert \/ WordIssue \/ WordDone \/ HostDone
    \/ Execute \/ Loaded
    \/ BlitYields(inhibit) \/ BlitIssue(inhibit, int_pending) \/ RowsDone \/ Row \/ RowCommand
    \/ NextRow(inhibit) \/ BlitForced \/ BlitEnd

(* Out of reset, the program and the memory in place, and INCR and INCW as  *)
(* the boot code leaves them (HSTCTL = b800, docs/boot-sequence.md).        *)
CoreInit ==
    /\ state = "CHECK" /\ di = FALSE /\ force_pend = FALSE
    /\ cpu = [pc |-> 1, ie |-> TRUE, p |-> FALSE, a |-> 0, daddr |-> job.daddr, dydx |-> job.dydx,
              stack |-> <<>>]
    /\ w = [addr |-> Scratch, we |-> FALSE, data |-> 0, ret |-> "CHECK"] /\ hw_ret = "W0" /\ mrd = 0
    /\ host = [pend |-> FALSE, we |-> FALSE, data |-> 0, ready |-> FALSE, rdata |-> 0, adr |-> Scratch,
               halted |-> FALSE, inc |-> BOOLEAN]
    /\ blt = [y |-> 0, dy |-> 0, row |-> 0, old |-> FALSE, int_wb |-> FALSE, done |-> 0,
              defer |-> FALSE, forced_after |-> FALSE, rows_done |-> FALSE]
    /\ mem = [a \in Words |-> 0] /\ painted = Blank /\ waited = NoWait

-----------------------------------------------------------------------------
(* What a blit was asked to paint, and the side it starts from.             *)
Asked      == ClipFirst(job.daddr) .. ClipLast(job.daddr, job.dydx)
ClippedFirst == IF job.yrev THEN job.daddr + job.dydx - 1 > WEND ELSE job.daddr < WSTART
BlitOver   == state = "END" /\ Outer /\ ~blt.int_wb /\ ~blt.forced_after

(* However often a blit is interrupted, when it ends it has painted all the *)
(* rows inside the window and none outside; it paints none twice, unless    *)
(* the window cuts rows off the side it starts from (then DYDX.y, which     *)
(* counts the rows painted, not those cut off, starts a part of it again);  *)
(* and DADDR is where an uninterrupted one leaves it, if not y-reversed.    *)
BlitWhole ==
    BlitOver => /\ \A r \in Rows : painted[r] >= 1 <=> r \in Asked
                /\ ~ClippedFirst => \A r \in Rows : painted[r] <= 1
                /\ ~job.yrev => cpu.daddr + Advances = job.daddr + job.dydx

(* "the 68k waits for at most one memory cycle even mid-blit" (docs/gsp.md) *)
(* holds of the cycles of one word: whatever the core does - fetches, loads *)
(* and stores, the words of a blit - at most one such cycle ends while an   *)
(* access of the host to memory waits.  The rows a fast blit hands to the   *)
(* memory side are not among them: once one of them has ended, the host     *)
(* waits for the rest of that blit, and for nothing after it.               *)
HostNext == /\ waited.words <= 1
            /\ waited.rows > 0 => state \in {"ROW", "RC", "NEXTROW", "END", "CHECK"}
=============================================================================
