------------------------------ MODULE GspHost ------------------------------
(***************************************************************************)
(* The GSP core in the machine: the 68k's accesses to its host port        *)
(* (stunrun_main.sv, B_WAIT_GSP), which come at any time and one by one,   *)
(* its writes of HSTCTL (halt, INCW, INCR), and the display interrupt of   *)
(* the raster.                                                             *)
(***************************************************************************)
EXTENDS GspCore

CONSTANT MaxEvents    \* bound: display interrupts, data accesses and writes of HSTCTL

ASSUME GspHostAssumption == MaxEvents \in Nat \ {0}

VARIABLES bst,        \* the 68k: "idle" or waiting for host_ready
          lines, asks

board == <<bst, lines, asks>>
hostvars == <<gvars, board>>

HostIdle == bst = "idle" /\ ~host.pend
Strobe(h) == host' = h /\ UNCHANGED <<state, regs, word, engine, mem, lines>>
(* A write of HSTCTL: HLT, INCW and INCR at once.                           *)
Controls(halt) == \E inc \in SUBSET BOOLEAN : Strobe([host EXCEPT !.halted = halt, !.inc = inc])
Control == /\ HostIdle /\ lines + asks < MaxEvents /\ asks' = asks + 1
           /\ \E halt \in BOOLEAN : Controls(halt)
           /\ UNCHANGED <<bst, waited>>
GspGoes == HostIdle /\ host.halted /\ Controls(FALSE) /\ UNCHANGED <<bst, asks, waited>>
(* The writes of HSTADR fold into the access that follows them.             *)
HostAsk == /\ HostIdle /\ lines + asks < MaxEvents /\ asks' = asks + 1
           /\ bst' = "wait" /\ UNCHANGED waited
           /\ \E we \in BOOLEAN, a \in HostWords \cup {Scratch, IoReg, host.adr} :
                 /\ a \in Words \cup {IoReg}
                 /\ Strobe([host EXCEPT !.pend = TRUE, !.we = we, !.data = asks + 1, !.adr = a,
                                       !.ready = FALSE])
HostReady == /\ bst = "wait" /\ host.ready /\ bst' = "idle"
             /\ Strobe([host EXCEPT !.ready = FALSE]) /\ UNCHANGED <<asks, waited>>

(* line_start at DPYINT: not on the clock on which the handler clears DI.   *)
LineStart == /\ lines + asks < MaxEvents /\ lines' = lines + 1 /\ di' = TRUE
             /\ UNCHANGED <<state, program, cpu, force_pend, word, host, engine, mem, waited, bst, asks>>

Machine == Core(FALSE, FALSE, FALSE) /\ UNCHANGED board

HostInit(p, j) == /\ program = p /\ job = j /\ CoreInit
                  /\ bst = "idle" /\ lines = 0 /\ asks = 0
HostNextState == Machine \/ Control \/ GspGoes \/ HostAsk \/ HostReady \/ LineStart

(* The clock never stops, the memory answers, the 68k steps on host_ready,  *)
(* and does not leave the GSP halted for ever.                              *)
HostFairness == /\ WF_hostvars(Machine) /\ WF_hostvars(HostReady)
                /\ WF_hostvars(GspGoes)

HostSafety(p, j) == HostInit(p, j) /\ [][HostNextState]_hostvars

-----------------------------------------------------------------------------
(* The host port under refinement: an access that S_CHECK has taken is on   *)
(* the word primitive, and one that was inserted is in S_HW1.               *)
Taken   == state \in {"W0", "W1"} /\ w.ret = "HOST1"
Waiting == host.pend \/ state = "HW1" \/ Taken
Values  == 0 .. MaxEvents
pointer == IF state = "HOST1" /\ host.we \in host.inc THEN host.adr + 1 ELSE host.adr
request == [we |-> Waiting /\ host.we, data |-> IF Waiting THEN host.data ELSE 0, asked |-> Waiting]
answer  == IF state = "HOST1" THEN mrd ELSE host.rdata
Port == INSTANCE HostPort WITH memory <- mem, increments <- host.inc

(* Wherever it is inserted, a host access is one atomic access at HSTADR,   *)
(* made once, and made in the end: halted core, missing cache or long blit. *)
ServesHostPort == Port!PortSpec

-----------------------------------------------------------------------------
(* The programs the blit engine is given: main loads the registers before   *)
(* each of its blits and then leaves them alone, the handler blits only     *)
(* between its saving of the B file and its restoring it, and the rows of   *)
(* the two are apart.                                                       *)
Simple == {"load", "store", "ack"}
Since(k, op, ends) == \E s \in 1 .. k - 1 : Code[s] = op /\ \A t \in s + 1 .. k - 1 : Code[t] \notin ends
Ready(k) == Since(k, "setb", {"blit", "loop"})
Own(k)    == Since(k, "save", {"blit", "restore"})
Saved(k)  == Since(k, "save", {"restore"})

Proper ==
    /\ program \in [main : Seq(STRING), handler : Seq(STRING)]
    /\ Len(program.main) > 0 /\ Len(program.handler) > 0
    /\ \A k \in 1 .. Vector - 2 : Code[k] \in Simple \cup {"setb", "blit"}
    /\ Code[Vector - 1] = "loop"
    /\ \A k \in Vector .. Len(Code) - 1 : Code[k] \in Simple \cup {"save", "blit", "restore"}
    /\ Code[Len(Code)] = "reti"
    /\ \A k \in 1 .. Len(Code) :
          /\ Code[k] = "blit" => Ready(k) \/ Own(k)
          /\ Code[k] = "restore" => Saved(k)
          /\ Code[k] \in {"save", "reti"} => ~Saved(k)
    /\ HandlerRow \notin job.daddr .. job.daddr + job.dydx

(* However often a blit of main is interrupted between two rows, and        *)
(* whatever the handler blits meanwhile, at its end the rows asked for      *)
(* inside the window are painted, no others, and DADDR is where the whole   *)
(* blit would leave it.  The bench forces an interrupt on a blit that has   *)
(* been painted already: TraceVerdictRight judges it.                       *)
BlitsWhole == Proper => BlitWhole
=============================================================================
