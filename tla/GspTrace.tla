------------------------------ MODULE GspTrace ------------------------------
(***************************************************************************)
(* sim/gsp/tb_gsp.cpp: the GSP core, parked at each instruction boundary,  *)
(* is given the host accesses the reference machine (MAME) saw before the  *)
(* instruction, is made to take the interrupts it took, is compared with   *)
(* its registers, and runs one instruction.  A FILL or PIXBLT is traced    *)
(* again each time MAME resumes it: such entries are dropped, and one      *)
(* entry of lookahead tells whether an interrupt came inside the blit.     *)
(*                                                                         *)
(* The bench inhibits the core's own interrupts; its memory answers after  *)
(* one to six clocks, one step here.                                       *)
(***************************************************************************)
EXTENDS GspCore, SequencesExt

CONSTANTS HWRAP,     \* the trace prints the count of host accesses modulo HWRAP
          MaxEntries \* bound: steps of the reference machine

VARIABLES
    rec,             \* what was recorded: trace, host, end
    log,             \* what went into it: schedule and fault
    stage,           \* where main() is
    pos, lookahead,  \* t and tla: indices into rec.trace, 0 for none
    int_pending, deferred_pc,
    lasth, hostidx, result

bench  == <<pos, lookahead, int_pending, deferred_pc, lasth, hostidx>>
tracevars == <<gvars, rec, log, stage, bench, result>>

-----------------------------------------------------------------------------
(* The reference machine executes on its own: at step n it makes the host   *)
(* accesses scheduled there, takes the interrupt scheduled there, and else  *)
(* an instruction.  A blit paints all its rows at once, and either writes   *)
(* its registers or, out of cycles, sets P and is executed once more.       *)
Pushed(m) == [m EXCEPT !.stack = Append(@, [pc |-> m.pc, ie |-> m.ie, p |-> m.p]),
                       !.pc = Vector, !.ie = FALSE, !.p = FALSE]
RowsOf(m) == IF m.daddr = HandlerRow THEN {HandlerRow}
             ELSE ClipFirst(m.daddr) .. ClipLast(m.daddr, m.dydx)
TopOf(m)  == m.stack[Len(m.stack)]
PopOf(m)  == [m EXCEPT !.stack = Front(@), !.pc = @ + 1]
RefStep(m, code, split) ==
    LET next == [m EXCEPT !.pc = @ + 1]
        op   == code[m.pc]
    IN CASE op = "load"  -> [next EXCEPT !.a = m.mem[Scratch]]
         [] op = "store" -> [next EXCEPT !.mem[Scratch] = m.a]
         [] op = "save"  -> [next EXCEPT !.stack = Append(@, [daddr |-> m.daddr, dydx |-> m.dydx]),
                                         !.daddr = HandlerRow, !.dydx = 1]
         [] op = "restore" -> [PopOf(m) EXCEPT !.daddr = TopOf(m).daddr, !.dydx = TopOf(m).dydx]
         [] op = "reti"  -> [PopOf(m) EXCEPT !.pc = TopOf(m).pc, !.ie = TopOf(m).ie, !.p = TopOf(m).p]
         [] op = "blit" /\ ~m.p /\ split -> [m EXCEPT !.rows = @ \cup RowsOf(m), !.p = TRUE]
         [] op = "blit" /\ (m.p \/ ~split) ->
               [next EXCEPT !.rows = @ \cup RowsOf(m), !.p = FALSE, !.daddr = @ + m.dydx]
         [] OTHER -> next

Traced(m, code) == [pc |-> m.pc, ie |-> m.ie, p |-> m.p, a |-> m.a, daddr |-> m.daddr, dydx |-> m.dydx,
                    depth |-> Len(m.stack), h |-> m.count % HWRAP, blit |-> code[m.pc] = "blit"]
HostEffect(m, e) == [m EXCEPT !.count = e.n, !.mem = IF e.we THEN [@ EXCEPT ![e.adr] = e.data] ELSE @]

(* A schedule: the first count, host accesses [at, we, adr, data], the step *)
(* before which the interrupt comes (0 for never), whether blits are split. *)
(* A fault: a register of the last entry that is compared, or a row of the  *)
(* final dump, is wrong.                                                    *)
HostLog(sched) ==
    [k \in DOMAIN sched.host |-> [n |-> sched.first + k, we |-> sched.host[k].we,
                                  adr |-> sched.host[k].adr, data |-> sched.host[k].data]]
Recorded(code, j, sched, fault) ==
    LET start == [pc |-> 1, ie |-> TRUE, p |-> FALSE, a |-> 0, daddr |-> j.daddr, dydx |-> j.dydx,
                  stack |-> <<>>, mem |-> [a \in Words |-> 0], rows |-> {}, count |-> sched.first]
        due(n) == SelectSeq([k \in DOMAIN sched.host |-> <<sched.host[k].at, HostLog(sched)[k]>>],
                            LAMBDA e : e[1] = n)
        run[n \in 0 .. MaxEntries] ==
            IF n = 0 THEN [m |-> start, trace |-> <<>>]
            ELSE LET x == run[n - 1]
                     m == FoldLeft(LAMBDA y, e : HostEffect(y, e[2]), x.m, due(n))
                 IN IF n = sched.interrupt THEN [x EXCEPT !.m = Pushed(m)]
                    ELSE IF Len(x.trace) = sched.length \/ (m.pc = Vector /\ m.stack = <<>>) THEN [x EXCEPT !.m = m]
                    ELSE [m |-> RefStep(m, code, sched.split), trace |-> Append(x.trace, Traced(m, code))]
        all == run[MaxEntries]
        seen == {k \in DOMAIN all.trace : ~(all.trace[k].blit /\ all.trace[k].p)}
        last == CHOOSE k \in seen : \A x \in seen : x <= k
        bad == IF fault = "register" THEN [all.trace EXCEPT ![last].a = @ + 1] ELSE all.trace
    IN [trace |-> bad, host |-> HostLog(sched), mem |-> all.m.mem,
        rows |-> IF fault = "vram" THEN all.m.rows \cup {WEND + 1} ELSE all.m.rows]

-----------------------------------------------------------------------------
(* read_entry: the next entry that is not the continuation of a blit.       *)
Kept(k)   == ~(rec.trace[k].blit /\ rec.trace[k].p)
From(k)   == {n \in k .. Len(rec.trace) : Kept(n)}
NextEntry(k) == IF From(k) = {} THEN 0 ELSE CHOOSE n \in From(k) : \A x \in From(k) : n <= x
t == rec.trace[pos]

(* The count of host accesses, past the wrap of the one printed.            *)
Unwrapped(printed) == LET h == (lasth \div HWRAP) * HWRAP + printed
                      IN IF h < lasth THEN h + HWRAP ELSE h

ReadEntry ==
    LET here  == lookahead
        ahead == IF here = 0 THEN 0 ELSE NextEntry(here + 1)
        defers == here # 0 /\ rec.trace[here].blit /\ ahead # 0 /\ rec.trace[ahead].pc = Vector
    IN /\ stage = "read" /\ stage' = "host"
       /\ pos' = here /\ lookahead' = ahead /\ int_pending' = defers
       /\ deferred_pc' = IF defers THEN rec.trace[here].pc ELSE deferred_pc
       /\ lasth' = IF here = 0 THEN lasth ELSE Unwrapped(rec.trace[here].h)
       /\ UNCHANGED <<gvars, rec, log, hostidx, result>>

(* apply_host: those counted so far, or at the end all that are left.       *)
Due == hostidx < Len(rec.host) /\ (pos = 0 \/ rec.host[hostidx + 1].n <= lasth)
HostStrobe ==
    /\ stage = "host" /\ Due /\ stage' = "answer" /\ hostidx' = hostidx + 1
    /\ LET e == rec.host[hostidx + 1]
       IN host' = [host EXCEPT !.pend = TRUE, !.we = e.we, !.adr = e.adr, !.data = e.data, !.ready = FALSE]
    /\ UNCHANGED <<state, regs, word, engine, mem, waited, rec, log, pos, lookahead,
                   int_pending, deferred_pc, lasth, result>>
HostAnswered ==
    /\ stage = "answer" /\ host.ready /\ stage' = "host"
    /\ UNCHANGED <<gvars, rec, log, bench, result>>
HostDoneWith ==
    /\ stage = "host" /\ ~Due /\ stage' = (IF pos = 0 THEN "end" ELSE "idle")
    /\ UNCHANGED <<gvars, rec, log, bench, result>>

(* Clocks of the core, parked by dbg_hold or run to the next boundary.      *)
Parked   == state = "CHECK" /\ ~host.pend
Boundary == state = "FT0"
Clock ==
    /\ \/ stage = "answer" /\ ~host.ready /\ Core(TRUE, TRUE, int_pending)
       \/ stage \in {"idle", "execute"} /\ ~Parked /\ Core(TRUE, TRUE, int_pending)
       \/ stage \in {"run", "forced", "resumed"} /\ ~Boundary /\ Core(FALSE, TRUE, int_pending)
    /\ UNCHANGED <<rec, log, stage, bench, result>>
HoldOff ==
    /\ stage = "idle" /\ Parked /\ stage' = "run"
    /\ UNCHANGED <<gvars, rec, log, bench, result>>

(* At the boundary: an interrupt MAME took here is forced; a blit the       *)
(* interrupt had deferred is run to its end, its entry having been dropped; *)
(* and then the registers are compared.                                     *)
ForceInterrupt ==
    /\ stage = "run" /\ Boundary /\ cpu.pc # t.pc /\ t.pc = Vector
    /\ di' = TRUE /\ force_pend' = TRUE /\ Goes("CHECK") /\ stage' = "forced"
    /\ UNCHANGED <<program, cpu, word, host, engine, mem, waited, rec, log, bench, result>>
AtInstruction ==
    /\ Boundary
    /\ \/ stage = "forced" \/ stage = "resumed"
       \/ stage = "run" /\ (cpu.pc = t.pc \/ t.pc # Vector)
(* Mutant: the resumed blit is compared with the entry after it.            *)
ResumesNever == FALSE
Resumes == cpu.pc # t.pc /\ cpu.pc = deferred_pc /\ stage # "resumed"
StepResumed ==
    /\ AtInstruction /\ Resumes /\ stage' = "resumed" /\ deferred_pc' = 0 /\ Fetch0
    /\ UNCHANGED <<rec, log, pos, lookahead, int_pending, lasth, hostidx, result>>
Same == /\ cpu.pc = t.pc /\ cpu.ie = t.ie /\ cpu.p = t.p /\ cpu.a = t.a
        /\ cpu.daddr = t.daddr /\ cpu.dydx = t.dydx /\ Len(cpu.stack) = t.depth
CompareEqual ==
    /\ AtInstruction /\ ~Resumes /\ Same /\ stage' = "execute" /\ Fetch0
    /\ UNCHANGED <<rec, log, bench, result>>
Verdict(v) == result' = v /\ stage' = "done" /\ UNCHANGED <<gvars, rec, log, bench>>
Diverged == AtInstruction /\ ~Resumes /\ ~Same /\ Verdict("FAIL")
Executed ==
    /\ stage = "execute" /\ Parked /\ stage' = "read"
    /\ UNCHANGED <<gvars, rec, log, bench, result>>
CompareVram ==
    /\ stage = "end"
    /\ Verdict(IF mem = rec.mem /\ {a \in DOMAIN painted : painted[a] > 0} = rec.rows THEN "PASS" ELSE "FAIL")

-----------------------------------------------------------------------------
BenchInit(j, sched, fault) ==
    /\ log = [split |-> sched.split, fault |-> fault]
    /\ rec = Recorded(Code, j, sched, fault)
    /\ stage = "read" /\ pos = 0 /\ lookahead = NextEntry(1) /\ int_pending = FALSE /\ deferred_pc = 0
    /\ lasth = 0 /\ hostidx = 0 /\ result = "none"
TInit(p, j, sched, fault) ==
    program = p /\ job = j /\ CoreInit /\ BenchInit(j, sched, fault)
TNext == \/ ReadEntry \/ HostStrobe \/ HostAnswered \/ HostDoneWith \/ Clock \/ HoldOff
         \/ ForceInterrupt \/ StepResumed \/ CompareEqual \/ Diverged \/ Executed \/ CompareVram

(* The two things the bench cannot judge: an interrupt that MAME took just  *)
(* after a blit had ended looks like one inside it; and a handler that runs *)
(* a blit of its own inside an interrupted one (see the README).            *)
Interrupted(k) == rec.trace[k].blit /\ rec.trace[k + 1].pc = Vector
Ended(k)   == rec.trace[k].p \/ ~log.split
OwnBlit    == \E k \in DOMAIN program.handler : program.handler[k] = "blit"
Undecided  == \E k \in 1 .. Len(rec.trace) - 1 : Interrupted(k) /\ (Ended(k) \/ OwnBlit)

(* The bench prints PASS exactly when the core did what the reference did:  *)
(* through host accesses at every boundary, a wrapping count of them,       *)
(* interrupts between instructions and inside blits, and wrong recordings.  *)
TraceVerdictRight ==
    stage = "done" => (result = "PASS" <=> log.fault = "none" /\ ~Undecided)
=============================================================================
