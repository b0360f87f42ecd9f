----------------------------- MODULE GspProofs -----------------------------
(***************************************************************************)
(* Theorems about the GSP: the core in the machine (GspHost), for every    *)
(* program, every blit and every number of host accesses; and its memory-  *)
(* side glue (GspBus), for every size of VRAM, rows and bursts and every   *)
(* sequence of requests.                                                   *)
(***************************************************************************)
EXTENDS GspHost, GspBus, TLAPS

(* What the core is given; the registers of an access and of the port.      *)
Jobs == [fast : BOOLEAN, yrev : BOOLEAN, daddr : Nat, dydx : Nat, fresh : BOOLEAN]
HostTypeOK ==
    /\ DOMAIN host = {"pend", "we", "data", "ready", "rdata", "adr", "halted", "inc"}
    /\ host.pend \in BOOLEAN /\ host.we \in BOOLEAN /\ host.ready \in BOOLEAN /\ host.data \in Values
    /\ w.ret \in {"CHECK", "HOST1", "LOADED", "NEXTROW"} /\ w.data \in Values
    /\ hw_ret \in {"FT1", "W0"} /\ mrd \in Values
    /\ "a" \in DOMAIN cpu /\ cpu.a \in Values
    /\ mem \in [Words -> Values]
    /\ bst \in {"idle", "wait"} /\ lines \in Nat /\ asks \in Nat
    /\ host.inc \in SUBSET BOOLEAN /\ job \in Jobs

(* A host access is in one place at a time - waiting, on the core's word    *)
(* primitive, inserted before one, or just answered - and the 68k waits     *)
(* for it there.                                                            *)
OnePlace ==
    /\ host.pend \/ state \in {"HW1", "HOST1"} \/ Taken => bst = "wait" /\ ~host.ready
    /\ state \in {"HW1", "HOST1"} \/ Taken => ~host.pend
    /\ host.pend \/ Taken => host.adr \in Words \cup {IoReg}
    /\ Taken => w.addr = host.adr /\ w.we = host.we /\ w.data = host.data
    /\ state = "HOST1" => w.we = host.we
    /\ state = "W1" => w.addr # IoReg
    /\ state = "HW1" => host.adr \in Words /\ (hw_ret = "W0" => w.ret # "HOST1")

HostInv == HostTypeOK /\ OnePlace

-----------------------------------------------------------------------------
LEMMA HostStarts ==
  ASSUME NEW p, NEW j \in Jobs, HostInit(p, j)
  PROVE  HostInv /\ Port!PortInit
<1>1. /\ state = "CHECK" /\ mrd = 0 /\ hw_ret = "W0" /\ job = j
      /\ bst = "idle" /\ lines = 0 /\ asks = 0
      /\ w = [addr |-> Scratch, we |-> FALSE, data |-> 0, ret |-> "CHECK"]
      /\ host = [pend |-> FALSE, we |-> FALSE, data |-> 0, ready |-> FALSE, rdata |-> 0, adr |-> Scratch,
                 halted |-> FALSE, inc |-> BOOLEAN]
      /\ mem = [a \in Words |-> 0]
  BY DEF HostInit, CoreInit
<1>2. "a" \in DOMAIN cpu /\ cpu.a = 0
  BY DEF HostInit, CoreInit
<1>3. 0 \in Values /\ Scratch \in Words
  BY GspHostAssumption DEF Values, Words
<1>4. HostTypeOK
  BY <1>1, <1>2, <1>3 DEF HostTypeOK
<1>5. OnePlace
  BY <1>1 DEF OnePlace, Taken
<1>6. Port!PortInit
  <2>1. Waiting = FALSE
    BY <1>1 DEF Waiting, Taken
  <2>2. request = [we |-> FALSE, data |-> 0, asked |-> FALSE]
    <3>1. (Waiting /\ host.we) = FALSE
      BY <2>1
    <3>2. request = [we |-> (Waiting /\ host.we), data |-> (IF Waiting THEN host.data ELSE 0), asked |-> Waiting]
      BY DEF request
    <3> QED BY <2>1, <3>1, <3>2, Zenon
  <2>3. pointer = Scratch /\ answer = 0
    BY <1>1 DEF pointer, answer
  <2> QED BY <1>1, <1>3, <2>2, <2>3 DEF Port!PortInit, Port!None
<1> QED
  BY <1>4, <1>5, <1>6 DEF HostInv

(* A clock of the core that leaves the host's access where it is.           *)
Elsewhere == {"W0", "W1", "HW1", "HOST1"}
LEMMA LeavesHost ==
  ASSUME HostInv, host' = host, mem' = mem, mrd' = mrd, hw_ret' = hw_ret, board' = board,
         "a" \in DOMAIN cpu', cpu'.a \in Values, job' \in Jobs,
         state \notin Elsewhere, state' \notin Elsewhere \/ (state' = "W0" /\ w'.ret # "HOST1"),
         w'.ret \in {"CHECK", "HOST1", "LOADED", "NEXTROW"}, w'.data \in Values
  PROVE  HostInv' /\ UNCHANGED Port!hvars
<1>1. bst' = bst /\ lines' = lines /\ asks' = asks
  BY DEF board
<1>2. HostTypeOK /\ OnePlace
  BY DEF HostInv
<1>3. HostTypeOK'
  BY <1>1, <1>2 DEF HostTypeOK
<1>4. state \notin {"HW1", "HOST1"} /\ ~Taken /\ state' \notin {"HW1", "HOST1", "W1"} /\ ~Taken'
  BY DEF Elsewhere, Taken
<1>5. OnePlace'
  BY <1>1, <1>2, <1>4 DEF OnePlace
<1>6. Waiting' = Waiting
  BY <1>4 DEF Waiting
<1>7. pointer' = pointer /\ request' = request /\ answer' = answer
  BY <1>4, <1>6 DEF pointer, request, answer
<1> QED
  BY <1>3, <1>5, <1>7 DEF HostInv, Port!hvars

-----------------------------------------------------------------------------
(* The actions of the core that leave it.                                   *)
LEMMA BoundarySteps ==
  ASSUME HostInv, UNCHANGED board, Check(FALSE, FALSE) \/ Interrupt \/ Fetch0 \/ Fetched \/ FetchMiss
  PROVE  HostInv' /\ UNCHANGED Port!hvars
<1>1. HostTypeOK
  BY DEF HostInv
<1>2. host' = host /\ mem' = mem /\ w' = w /\ hw_ret' = hw_ret /\ mrd' = mrd /\ job' = job
  BY DEF Check, Interrupt, Fetch0, Fetched, FetchMiss, word, engine
<1>3. state \notin Elsewhere /\ state' \notin Elsewhere
  BY DEF Check, Interrupt, Fetch0, Fetched, FetchMiss, Goes, Elsewhere
<1>4. "a" \in DOMAIN cpu' /\ cpu'.a = cpu.a
  BY <1>1 DEF HostTypeOK, Check, Interrupt, Fetch0, Fetched, FetchMiss, regs
<1> QED
  BY <1>1, <1>2, <1>3, <1>4, LeavesHost DEF HostTypeOK

LEMMA ExecuteSteps ==
  ASSUME HostInv, UNCHANGED board, Execute \/ Loaded
  PROVE  HostInv' /\ UNCHANGED Port!hvars
<1>1. HostTypeOK
  BY DEF HostInv
<1>2. host' = host /\ mem' = mem /\ hw_ret' = hw_ret /\ mrd' = mrd /\ job' = job
  BY DEF Execute, Loaded, word, engine
<1>3. 0 \in Values /\ 1 \in Values
  BY GspHostAssumption DEF Values
<1>4. CASE Loaded
  <2>1. state = "LOADED" /\ state' = "CHECK" /\ w' = w /\ cpu' = [cpu EXCEPT !.a = mrd]
    BY <1>4 DEF Loaded, Goes, word
  <2>2. "a" \in DOMAIN cpu' /\ cpu'.a \in Values
    BY <1>1, <2>1 DEF HostTypeOK
  <2> QED BY <1>1, <1>2, <2>1, <2>2, LeavesHost DEF HostTypeOK, Elsewhere
<1>5. CASE Execute /\ MemoryOp
  <2>1. state = "EXEC" /\ state' = "W0" /\ cpu' = cpu
    BY <1>5 DEF Execute, MemoryOp, Access, Goes
  <2>2. w'.ret \in {"CHECK", "LOADED"} /\ w'.data \in Values
    BY <1>1, <1>3, <1>5 DEF MemoryOp, Access, HostTypeOK
  <2> QED BY <1>1, <1>2, <2>1, <2>2, LeavesHost DEF HostTypeOK, Elsewhere
<1>6. CASE Execute /\ RegisterOp
  <2>1. state = "EXEC" /\ state' = "CHECK" /\ w' = w
    BY <1>6 DEF Execute, RegisterOp, Goes
  <2>2. "a" \in DOMAIN cpu' /\ cpu'.a = cpu.a
    BY <1>1, <1>6 DEF RegisterOp, HostTypeOK
  <2> QED BY <1>1, <1>2, <2>1, <2>2, LeavesHost DEF HostTypeOK, Elsewhere
<1> QED
  BY <1>4, <1>5, <1>6 DEF Execute

LEMMA BlitSteps ==
  ASSUME HostInv, UNCHANGED board,
         BlitYields(FALSE) \/ BlitIssue(FALSE, FALSE) \/ RowsDone \/ Row \/ RowCommand
         \/ NextRow(FALSE) \/ BlitForced \/ BlitEnd
  PROVE  HostInv' /\ UNCHANGED Port!hvars
<1>1. HostTypeOK
  BY DEF HostInv
<1>2. host' = host /\ mem' = mem /\ hw_ret' = hw_ret /\ mrd' = mrd
  BY DEF BlitYields, BlitIssue, RowsDone, Row, RowCommand, NextRow, BlitForced, BlitEnd, word
<1>3. job' \in Jobs /\ job'.fast = job.fast
  <2>1. job' = job \/ job' = [job EXCEPT !.fresh = FALSE] \/ job' = [job EXCEPT !.fresh = TRUE]
    BY DEF BlitYields, BlitIssue, RowsDone, Row, RowCommand, NextRow, BlitForced, BlitEnd, engine
  <2> QED BY <1>1, <2>1 DEF HostTypeOK, Jobs
<1>4. "a" \in DOMAIN cpu' /\ cpu'.a = cpu.a
  BY <1>1 DEF HostTypeOK, BlitYields, BlitIssue, RowsDone, Row, RowCommand, NextRow, BlitForced, BlitEnd, regs
<1>5. state \notin Elsewhere
  BY DEF BlitYields, BlitIssue, RowsDone, Row, RowCommand, NextRow, BlitForced, BlitEnd, Elsewhere
<1>6. CASE Row /\ ~job.fast
  <2>1. state' = "W0" /\ w'.ret = "NEXTROW" /\ w'.data \in Values
    BY <1>6, GspHostAssumption DEF Row, Access, Goes, Values
  <2> QED BY <1>1, <1>2, <1>3, <1>4, <1>5, <2>1, LeavesHost DEF HostTypeOK
<1>7. CASE Row /\ job.fast
  <2>1. state' = "RC" /\ w' = w
    BY <1>7 DEF Row, Goes
  <2> QED BY <1>1, <1>2, <1>3, <1>4, <1>5, <2>1, LeavesHost DEF HostTypeOK, Elsewhere
<1>8. CASE ~Row
  <2>1. w' = w
    BY <1>8 DEF BlitYields, BlitIssue, RowsDone, RowCommand, NextRow, BlitForced, BlitEnd, word
  <2>2. state' \notin Elsewhere
    BY <1>8 DEF BlitYields, BlitIssue, RowsDone, RowCommand, NextRow, BlitForced, BlitEnd, Goes, Elsewhere
  <2> QED BY <1>1, <1>2, <1>3, <1>4, <1>5, <2>1, <2>2, LeavesHost DEF HostTypeOK
<1> QED
  BY <1>6, <1>7, <1>8

-----------------------------------------------------------------------------
(* The host's access: taken at the boundary, inserted before an access of   *)
(* the core or in place of a fetch that misses, made, and answered.         *)
PortNext == Port!Ask \/ Port!Control \/ Port!Serve \/ Port!CoreWrites

LEMMA TakeSteps ==
  ASSUME HostInv, UNCHANGED board, CheckHost \/ FetchInsert \/ WordInsert
  PROVE  HostInv' /\ UNCHANGED Port!hvars
<1>1. HostTypeOK /\ OnePlace
  BY DEF HostInv
<1>2. /\ host.pend /\ host' = [host EXCEPT !.pend = FALSE]
      /\ mem' = mem /\ mrd' = mrd /\ cpu' = cpu /\ job' = job
      /\ bst' = bst /\ lines' = lines /\ asks' = asks
  BY DEF CheckHost, FetchInsert, WordInsert, HostHere, Insert, regs, word, engine, board
<1>3. /\ ~host'.pend /\ host'.we = host.we /\ host'.data = host.data /\ host'.ready = host.ready
      /\ host'.adr = host.adr /\ host'.rdata = host.rdata /\ host'.inc = host.inc /\ DOMAIN host' = DOMAIN host
  BY <1>1, <1>2 DEF HostTypeOK
<1>4. bst = "wait" /\ ~host.ready /\ state \notin {"HW1", "HOST1"} /\ ~Taken /\ host.adr \in Words \cup {IoReg}
  BY <1>1, <1>2 DEF OnePlace
<1>5. CASE CheckHost
  <2>1. /\ state' = "W0" /\ hw_ret' = hw_ret
        /\ w' = [addr |-> host.adr, we |-> host.we, data |-> host.data, ret |-> "HOST1"]
    BY <1>5 DEF CheckHost, Access, Goes
  <2>2. HostTypeOK'
    BY <1>1, <1>2, <1>3, <2>1 DEF HostTypeOK
  <2>3. OnePlace'
    BY <1>2, <1>3, <1>4, <2>1 DEF OnePlace, Taken
  <2>4. Waiting' /\ Waiting
    BY <1>2, <2>1 DEF Waiting, Taken
  <2>5. pointer' = pointer /\ request' = request /\ answer' = answer
    BY <1>2, <1>3, <1>4, <2>1, <2>4 DEF pointer, request, answer
  <2> QED BY <1>2, <2>2, <2>3, <2>5 DEF HostInv, Port!hvars
<1>6. CASE FetchInsert \/ WordInsert
  <2>1. /\ state' = "HW1" /\ w' = w /\ hw_ret' \in {"FT1", "W0"} /\ host.adr \in Words
        /\ (hw_ret' = "W0" => state = "W0")
    BY <1>4, <1>6 DEF FetchInsert, WordInsert, HostHere, host_is_io, Insert, Goes
  <2>2. HostTypeOK'
    BY <1>1, <1>2, <1>3, <2>1 DEF HostTypeOK
  <2>3. OnePlace'
    BY <1>2, <1>3, <1>4, <2>1 DEF OnePlace, Taken
  <2>4. Waiting' /\ Waiting
    BY <1>2, <2>1 DEF Waiting
  <2>5. pointer' = pointer /\ request' = request /\ answer' = answer
    BY <1>2, <1>3, <1>4, <2>1, <2>4 DEF pointer, request, answer
  <2> QED BY <1>2, <2>2, <2>3, <2>5 DEF HostInv, Port!hvars
<1> QED
  BY <1>5, <1>6

LEMMA IssueSteps ==
  ASSUME HostInv, UNCHANGED board, WordIssue
  PROVE  HostInv' /\ UNCHANGED Port!hvars
<1>1. HostTypeOK /\ OnePlace
  BY DEF HostInv
<1>2. /\ state = "W0" /\ state' = "W1" /\ w.addr # IoReg /\ host' = host /\ w' = w
      /\ mem' = mem /\ mrd' = mrd /\ hw_ret' = hw_ret /\ cpu' = cpu /\ job' = job
      /\ bst' = bst /\ lines' = lines /\ asks' = asks
  BY DEF WordIssue, Goes, regs, word, engine, board
<1>3. Taken' = Taken /\ Waiting' = Waiting
  BY <1>2 DEF Taken, Waiting
<1>4. HostTypeOK'
  BY <1>1, <1>2 DEF HostTypeOK
<1>5. OnePlace'
  BY <1>1, <1>2, <1>3 DEF OnePlace
<1>6. pointer' = pointer /\ request' = request /\ answer' = answer
  BY <1>2, <1>3 DEF pointer, request, answer
<1> QED
  BY <1>2, <1>4, <1>5, <1>6 DEF HostInv, Port!hvars

(* The answer of an access on the word primitive.                           *)
LEMMA AnswerSteps ==
  ASSUME HostInv, UNCHANGED board, Host1
  PROVE  HostInv' /\ UNCHANGED Port!hvars
<1>1. HostTypeOK /\ OnePlace
  BY DEF HostInv
<1>2. /\ state = "HOST1" /\ state' = "CHECK"
      /\ host' = [host EXCEPT !.ready = TRUE, !.rdata = mrd, !.adr = IF w.we \in host.inc THEN @ + 1 ELSE @]
      /\ w' = w
      /\ mem' = mem /\ mrd' = mrd /\ hw_ret' = hw_ret /\ cpu' = cpu /\ job' = job
      /\ bst' = bst /\ lines' = lines /\ asks' = asks
  BY DEF Host1, HostGets, Goes, regs, word, engine, board
<1>3. /\ host'.pend = host.pend /\ host'.we = host.we /\ host'.data = host.data /\ host'.ready = TRUE
      /\ host'.adr = (IF host.we \in host.inc THEN host.adr + 1 ELSE host.adr)
      /\ host'.rdata = mrd /\ host'.inc = host.inc /\ DOMAIN host' = DOMAIN host
  BY <1>1, <1>2 DEF HostTypeOK, OnePlace
<1>4. ~host.pend /\ ~Taken /\ ~Taken'
  BY <1>1, <1>2 DEF OnePlace, Taken
<1>5. HostTypeOK'
  BY <1>1, <1>2, <1>3 DEF HostTypeOK
<1>6. OnePlace'
  BY <1>2, <1>3, <1>4 DEF OnePlace
<1>7. ~Waiting /\ ~Waiting'
  BY <1>2, <1>3, <1>4 DEF Waiting
<1>8. pointer' = pointer /\ answer' = answer
  BY <1>2, <1>3 DEF pointer, answer
<1>9. request' = request
  <2>1. /\ request = [we |-> (Waiting /\ host.we), data |-> (IF Waiting THEN host.data ELSE 0), asked |-> Waiting]
        /\ request' = [we |-> (Waiting' /\ host'.we), data |-> (IF Waiting' THEN host'.data ELSE 0), asked |-> Waiting']
    BY DEF request
  <2>2. Waiting = FALSE /\ Waiting' = FALSE
    BY <1>7 DEF Waiting
  <2>3. (Waiting /\ host.we) = FALSE /\ (Waiting' /\ host'.we) = FALSE
    BY <1>7
  <2> QED BY <2>1, <2>2, <2>3, Zenon
<1> QED
  BY <1>2, <1>5, <1>6, <1>8, <1>9 DEF HostInv, Port!hvars

(* The access itself: of the host, inserted.                                *)
LEMMA InsertedSteps ==
  ASSUME HostInv, UNCHANGED board, HostDone
  PROVE  HostInv' /\ Port!Serve
<1>1. HostTypeOK /\ OnePlace
  BY DEF HostInv
<1>2. /\ state = "HW1" /\ state' = hw_ret /\ w' = w /\ mrd' = mrd /\ hw_ret' = hw_ret
      /\ host' = [host EXCEPT !.ready = TRUE, !.rdata = mem[host.adr],
                               !.adr = IF host.we \in host.inc THEN @ + 1 ELSE @]
      /\ mem' = IF host.we THEN [mem EXCEPT ![host.adr] = host.data] ELSE mem
      /\ cpu' = cpu /\ job' = job
      /\ bst' = bst /\ lines' = lines /\ asks' = asks
  BY DEF HostDone, HostGets, Goes, regs, word, engine, board
<1>3. /\ host'.pend = host.pend /\ host'.we = host.we /\ host'.data = host.data /\ host'.ready = TRUE
      /\ host'.adr = (IF host.we \in host.inc THEN host.adr + 1 ELSE host.adr)
      /\ host'.rdata = mem[host.adr] /\ host'.inc = host.inc /\ DOMAIN host' = DOMAIN host
  BY <1>1, <1>2 DEF HostTypeOK
<1>4. /\ ~host.pend /\ host.adr \in Words /\ hw_ret \in {"FT1", "W0"} /\ (hw_ret = "W0" => w.ret # "HOST1")
  BY <1>1, <1>2 DEF OnePlace, HostTypeOK
<1>5. mem' \in [Words -> Values]
  BY <1>1, <1>2, <1>4 DEF HostTypeOK
<1>6. HostTypeOK'
  BY <1>1, <1>2, <1>3, <1>5 DEF HostTypeOK
<1>7. ~Taken' /\ state' \notin {"HW1", "HOST1", "W1"}
  BY <1>2, <1>4 DEF Taken
<1>8. OnePlace'
  BY <1>3, <1>4, <1>7 DEF OnePlace
<1>9. Waiting /\ ~Waiting'
  BY <1>2, <1>3, <1>4, <1>7 DEF Waiting
<1>10. /\ pointer = host.adr /\ answer' = mem[host.adr]
       /\ pointer' = (IF host.we \in host.inc THEN host.adr + 1 ELSE host.adr)
       /\ request.we = host.we /\ request.data = host.data /\ request.asked = TRUE
  <2>1. request = [we |-> (Waiting /\ host.we), data |-> (IF Waiting THEN host.data ELSE 0), asked |-> Waiting]
    BY DEF request
  <2>2. Waiting = TRUE /\ (Waiting /\ host.we) = host.we
    BY <1>1, <1>9 DEF HostTypeOK, Waiting
  <2>3. request = [we |-> host.we, data |-> host.data, asked |-> TRUE]
    BY <1>9, <2>1, <2>2, Zenon
  <2> QED BY <1>2, <1>3, <1>7, <2>3 DEF pointer, answer
<1>11. request' = Port!None
  <2>1. request' = [we |-> (Waiting' /\ host'.we), data |-> (IF Waiting' THEN host'.data ELSE 0), asked |-> Waiting']
    BY DEF request
  <2>2. Waiting' = FALSE /\ (Waiting' /\ host'.we) = FALSE
    BY <1>9 DEF Waiting
  <2> QED BY <2>1, <2>2, Zenon DEF Port!None
<1>12. request # Port!None /\ pointer # IoReg
  <2>1. Port!None.asked = FALSE
    BY DEF Port!None
  <2> QED BY <1>4, <1>10, <2>1, GspCoreAssumption DEF Words
<1> QED
  BY <1>2, <1>3, <1>6, <1>8, <1>10, <1>11, <1>12 DEF HostInv, Port!Serve

(* What the 68k is told while nothing is asked, and while something is.     *)
LEMMA RequestIs ==
  ASSUME HostTypeOK
  PROVE  /\ ~Waiting => request = Port!None
         /\ Waiting => request = [we |-> host.we, data |-> host.data, asked |-> TRUE] /\ request # Port!None
<1>1. request = [we |-> (Waiting /\ host.we), data |-> (IF Waiting THEN host.data ELSE 0), asked |-> Waiting]
  BY DEF request
<1>2. ASSUME ~Waiting PROVE request = Port!None
  <2>1. Waiting = FALSE /\ (Waiting /\ host.we) = FALSE
    BY <1>2 DEF Waiting
  <2> QED BY <1>1, <2>1, Zenon DEF Port!None
<1>3. ASSUME Waiting PROVE request = [we |-> host.we, data |-> host.data, asked |-> TRUE]
  <2>1. Waiting = TRUE /\ (Waiting /\ host.we) = host.we
    BY <1>3 DEF HostTypeOK, Waiting
  <2> QED BY <1>1, <1>3, <2>1, Zenon
<1>4. [we |-> host.we, data |-> host.data, asked |-> TRUE] # Port!None
  BY DEF Port!None
<1> QED
  BY <1>2, <1>3, <1>4

(* The access itself: on the word primitive, of the host or of the core.    *)
LEMMA WordSteps ==
  ASSUME HostInv, UNCHANGED board, WordIo \/ WordDone
  PROVE  HostInv' /\ (PortNext \/ UNCHANGED Port!hvars)
<1>1. HostTypeOK /\ OnePlace
  BY DEF HostInv
<1>2. /\ state \in {"W0", "W1"} /\ state' = w.ret /\ w' = w /\ hw_ret' = hw_ret /\ host' = host
      /\ cpu' = cpu /\ job' = job
      /\ bst' = bst /\ lines' = lines /\ asks' = asks
  BY DEF WordIo, WordDone, Goes, regs, word, engine, board
<1>3. w.ret \in {"CHECK", "HOST1", "LOADED", "NEXTROW"} /\ w.data \in Values /\ mem \in [Words -> Values]
  BY <1>1 DEF HostTypeOK
<1>4. IoReg \notin Words /\ 0 \in Values
  BY GspCoreAssumption, GspHostAssumption DEF Words, Values
<1>5. mem' \in [Words -> Values] /\ mrd' \in Values
  <2>1. CASE WordIo
    BY <1>1, <1>3, <1>4, <2>1 DEF WordIo, HostTypeOK
  <2>2. CASE WordDone
    BY <1>1, <1>3, <2>2 DEF WordDone, HostTypeOK
  <2> QED BY <2>1, <2>2
<1>6. HostTypeOK'
  BY <1>1, <1>2, <1>5 DEF HostTypeOK
<1>7. ~Taken' /\ state' \notin {"HW1", "W1"}
  BY <1>2, <1>3 DEF Taken
<1>8. state' = "HOST1" <=> Taken
  BY <1>2 DEF Taken
<1>9. OnePlace'
  BY <1>1, <1>2, <1>7, <1>8 DEF OnePlace
<1>10. CASE Taken
  <2>1. /\ ~host.pend /\ host.adr \in Words \cup {IoReg} /\ w.addr = host.adr /\ w.we = host.we /\ w.data = host.data
    BY <1>1, <1>10 DEF OnePlace
  <2>2. Waiting /\ ~Waiting'
    BY <1>2, <1>7, <1>10, <2>1 DEF Waiting
  <2>3. request # Port!None /\ request' = Port!None /\ request.we = host.we /\ request.data = host.data
    BY <1>1, <1>6, <2>2, RequestIs DEF Port!None, request, Waiting
  <2>4. /\ pointer = host.adr /\ answer' = mrd' /\ host'.inc = host.inc
        /\ pointer' = (IF host.we \in host.inc THEN host.adr + 1 ELSE host.adr)
    BY <1>2, <1>8, <1>10 DEF pointer, answer
  <2>5. CASE WordIo
    <3>1. host.adr = IoReg /\ mrd' = 0 /\ mem' = mem
      BY <2>1, <2>5 DEF WordIo
    <3>2. Port!Serve
      BY <2>3, <2>4, <3>1 DEF Port!Serve
    <3> QED BY <1>6, <1>9, <3>2 DEF HostInv, PortNext
  <2>6. CASE WordDone
    <3>1. host.adr \in Words /\ host.adr # IoReg
      BY <1>1, <2>1, <2>6 DEF WordDone, OnePlace
    <3>2. /\ mrd' = mem[host.adr]
          /\ mem' = IF host.we THEN [mem EXCEPT ![host.adr] = host.data] ELSE mem
      BY <2>1, <2>6, <3>1 DEF WordDone
    <3>3. Port!Serve
      BY <2>3, <2>4, <3>1, <3>2 DEF Port!Serve
    <3> QED BY <1>6, <1>9, <3>3 DEF HostInv, PortNext
  <2> QED BY <2>5, <2>6
<1>11. CASE ~Taken
  <2>1. Waiting' = Waiting
    BY <1>2, <1>7, <1>11 DEF Waiting
  <2>2. pointer' = pointer /\ request' = request /\ answer' = answer
    BY <1>2, <1>8, <1>11, <2>1 DEF pointer, request, answer
  <2>3. mem' = mem \/ (w.addr \in Words /\ mem' = [mem EXCEPT ![w.addr] = w.data])
    BY DEF WordIo, WordDone
  <2>4. CASE mem' = mem
    BY <1>2, <1>6, <1>9, <2>2, <2>4 DEF HostInv, Port!hvars
  <2>5. CASE w.addr \in Words /\ mem' = [mem EXCEPT ![w.addr] = w.data]
    <3>1. Port!CoreWrites
      BY <1>2, <1>3, <2>2, <2>5 DEF Port!CoreWrites
    <3> QED BY <1>6, <1>9, <3>1 DEF HostInv, PortNext
  <2> QED BY <2>3, <2>4, <2>5
<1> QED
  BY <1>10, <1>11

-----------------------------------------------------------------------------
(* The 68k, its writes of HSTCTL and the raster.                            *)
LEMMA BoardSteps ==
  ASSUME HostInv, Control \/ GspGoes \/ HostReady \/ LineStart
  PROVE  HostInv' /\ (PortNext \/ UNCHANGED Port!hvars)
<1>1. HostTypeOK /\ OnePlace
  BY DEF HostInv
<1>2. /\ state' = state /\ w' = w /\ hw_ret' = hw_ret /\ mrd' = mrd /\ mem' = mem
      /\ cpu' = cpu /\ job' = job
  BY DEF Control, Controls, GspGoes, HostReady, LineStart, Strobe, regs, word, engine
<1>3. /\ host'.pend = host.pend /\ host'.we = host.we /\ host'.data = host.data
      /\ host'.adr = host.adr /\ host'.rdata = host.rdata /\ DOMAIN host' = DOMAIN host
      /\ host'.ready = host.ready \/ (HostReady /\ host'.ready = FALSE)
  BY <1>1 DEF HostTypeOK, Control, Controls, GspGoes, HostReady, LineStart, Strobe
<1>10. /\ host'.inc \in SUBSET BOOLEAN
       /\ host'.inc = host.inc \/ ((Control \/ GspGoes) /\ bst = "idle" /\ ~host.pend)
  <2>1. CASE Control \/ GspGoes
    <3>1. PICK halt \in BOOLEAN, inc \in SUBSET BOOLEAN : host' = [host EXCEPT !.halted = halt, !.inc = inc]
      BY <2>1 DEF Control, GspGoes, Controls, Strobe
    <3> QED BY <1>1, <2>1, <3>1 DEF HostTypeOK, Control, GspGoes, HostIdle
  <2>2. CASE HostReady \/ LineStart
    BY <1>1, <2>2 DEF HostTypeOK, HostReady, LineStart, Strobe
  <2> QED BY <2>1, <2>2
<1>4. bst' = bst \/ (HostReady /\ host.ready /\ bst' = "idle")
  BY DEF Control, Controls, GspGoes, HostReady, LineStart, Strobe
<1>5. lines' \in Nat /\ asks' \in Nat
  <2>1. lines' \in {lines, lines + 1} /\ asks' \in {asks, asks + 1}
    BY DEF Control, Controls, GspGoes, HostReady, LineStart, Strobe
  <2> QED BY <1>1, <2>1 DEF HostTypeOK
<1>6. Taken' = Taken /\ Waiting' = Waiting
  BY <1>2, <1>3 DEF Taken, Waiting
<1>7. HostTypeOK'
  BY <1>1, <1>2, <1>3, <1>4, <1>5, <1>10 DEF HostTypeOK
<1>8. OnePlace'
  BY <1>1, <1>2, <1>3, <1>4, <1>6 DEF OnePlace, HostTypeOK
<1>9. request' = request /\ answer' = answer
  BY <1>2, <1>3, <1>6 DEF request, answer
<1>11. CASE host'.inc = host.inc
  <2>1. pointer' = pointer
    BY <1>2, <1>3, <1>11 DEF pointer
  <2> QED BY <1>2, <1>7, <1>8, <1>9, <1>11, <2>1 DEF HostInv, Port!hvars
<1>12. CASE bst = "idle" /\ ~host.pend
  <2>1. state # "HOST1" /\ ~Waiting
    BY <1>1, <1>12 DEF OnePlace, Waiting
  <2>2. request = Port!None
    BY <1>1, <2>1, RequestIs
  <2>3. pointer' = pointer
    BY <1>2, <1>3, <2>1 DEF pointer
  <2>4. Port!Control
    BY <1>2, <1>9, <1>10, <2>2, <2>3 DEF Port!Control
  <2> QED BY <1>7, <1>8, <2>4 DEF HostInv, PortNext
<1> QED
  BY <1>10, <1>11, <1>12

LEMMA AskSteps ==
  ASSUME HostInv, HostAsk
  PROVE  HostInv' /\ Port!Ask
<1>1. HostTypeOK /\ OnePlace
  BY DEF HostInv
<1>2. PICK we \in BOOLEAN, a \in HostWords \cup {Scratch, IoReg, host.adr} :
        /\ a \in Words \cup {IoReg}
        /\ host' = [host EXCEPT !.pend = TRUE, !.we = we, !.data = asks + 1, !.adr = a, !.ready = FALSE]
  BY DEF HostAsk, Strobe
<1>3. /\ bst = "idle" /\ ~host.pend /\ lines + asks < MaxEvents /\ asks' = asks + 1
      /\ bst' = "wait" /\ lines' = lines
      /\ state' = state /\ w' = w /\ hw_ret' = hw_ret /\ mrd' = mrd /\ mem' = mem
      /\ cpu' = cpu /\ job' = job
  BY DEF HostAsk, HostIdle, Strobe, regs, word, engine
<1>4. asks + 1 \in Values /\ asks + 1 \in Nat
  <2>1. lines \in Nat /\ asks \in Nat /\ MaxEvents \in Nat
    BY <1>1, GspHostAssumption DEF HostTypeOK
  <2> QED BY <1>3, <2>1 DEF Values
<1>5. /\ host'.pend = TRUE /\ host'.we = we /\ host'.data = asks + 1 /\ host'.adr = a /\ host'.ready = FALSE
      /\ host'.rdata = host.rdata /\ host'.inc = host.inc /\ DOMAIN host' = DOMAIN host
  BY <1>1, <1>2 DEF HostTypeOK
<1>6. state \notin {"HW1", "HOST1"} /\ ~Taken /\ ~Taken'
  BY <1>1, <1>3 DEF OnePlace, Taken
<1>7. HostTypeOK'
  BY <1>1, <1>2, <1>3, <1>4, <1>5 DEF HostTypeOK
<1>8. OnePlace'
  BY <1>1, <1>2, <1>3, <1>5, <1>6 DEF OnePlace
<1>9. ~Waiting /\ Waiting'
  BY <1>3, <1>5, <1>6 DEF Waiting
<1>10. request = Port!None
  BY <1>1, <1>9, RequestIs
<1>11. request' = [we |-> we, data |-> asks + 1, asked |-> TRUE]
  <2>1. request' = [we |-> (Waiting' /\ host'.we), data |-> (IF Waiting' THEN host'.data ELSE 0), asked |-> Waiting']
    BY DEF request
  <2>2. Waiting' = TRUE /\ (Waiting' /\ host'.we) = we
    BY <1>2, <1>5, <1>9 DEF Waiting
  <2> QED BY <1>5, <1>9, <2>1, <2>2, Zenon
<1>12. pointer' = a /\ answer' = answer
  BY <1>3, <1>5, <1>6 DEF pointer, answer
<1> QED
  BY <1>2, <1>3, <1>4, <1>5, <1>7, <1>8, <1>10, <1>11, <1>12 DEF HostInv, Port!Ask

-----------------------------------------------------------------------------
LEMMA HostSteps ==
  ASSUME HostInv, [HostNextState]_hostvars
  PROVE  HostInv' /\ (PortNext \/ UNCHANGED Port!hvars)
<1>1. CASE Machine
  <2>1. UNCHANGED board
    BY <1>1 DEF Machine
  <2>2. CASE Check(FALSE, FALSE) \/ Interrupt \/ Fetch0 \/ Fetched \/ FetchMiss
    BY <2>1, <2>2, BoundarySteps
  <2>3. CASE Execute \/ Loaded
    BY <2>1, <2>3, ExecuteSteps
  <2>4. CASE \/ BlitYields(FALSE) \/ BlitIssue(FALSE, FALSE) \/ RowsDone \/ Row \/ RowCommand
             \/ NextRow(FALSE) \/ BlitForced \/ BlitEnd
    BY <2>1, <2>4, BlitSteps
  <2>5. CASE CheckHost \/ FetchInsert \/ WordInsert
    BY <2>1, <2>5, TakeSteps
  <2>6. CASE WordIssue
    BY <2>1, <2>6, IssueSteps
  <2>7. CASE Host1
    BY <2>1, <2>7, AnswerSteps
  <2>8. CASE HostDone
    BY <2>1, <2>8, InsertedSteps DEF PortNext
  <2>9. CASE WordIo \/ WordDone
    BY <2>1, <2>9, WordSteps
  <2> QED BY <1>1, <2>2, <2>3, <2>4, <2>5, <2>6, <2>7, <2>8, <2>9 DEF Machine, Core
<1>2. CASE Control \/ GspGoes \/ HostReady \/ LineStart
  BY <1>2, BoardSteps
<1>3. CASE HostAsk
  BY <1>3, AskSteps DEF PortNext
<1>4. CASE UNCHANGED hostvars
  <2>1. /\ state' = state /\ w' = w /\ hw_ret' = hw_ret /\ mrd' = mrd /\ mem' = mem /\ host' = host
        /\ cpu' = cpu /\ job' = job
        /\ bst' = bst /\ lines' = lines /\ asks' = asks
    BY <1>4 DEF hostvars, gvars, regs, word, engine, board
  <2>2. Taken' = Taken /\ Waiting' = Waiting
    BY <2>1 DEF Taken, Waiting
  <2>3. HostInv'
    BY <2>1, <2>2 DEF HostInv, HostTypeOK, OnePlace
  <2>4. UNCHANGED Port!hvars
    BY <2>1, <2>2 DEF Port!hvars, pointer, request, answer
  <2> QED BY <2>3, <2>4
<1> QED
  BY <1>1, <1>2, <1>3, <1>4 DEF HostNextState

-----------------------------------------------------------------------------
(* How long it waits.  A memory cycle of the core is begun only while no    *)
(* host access to memory waits; only a fast blit hands over rows.           *)
WaitInv ==
    /\ waited \in [words : Nat, rows : Nat] /\ (~HostHere => waited = NoWait)
    /\ state \in {"W1", "FT2"} => waited.words = 0
    /\ state = "RC" \/ waited.rows > 0 => job.fast = TRUE
    /\ HostNext

LEMMA NothingWaits ==
  ASSUME waited' = NoWait, state' # "RC"
  PROVE  WaitInv'
<1>1. waited'.words = 0 /\ waited'.rows = 0 /\ waited' \in [words : Nat, rows : Nat]
  BY DEF NoWait
<1> QED
  BY <1>1 DEF WaitInv, HostNext

(* A clock that neither ends a memory cycle nor moves the host's access.    *)
LEMMA StillWaits ==
  ASSUME WaitInv, waited' = waited, host'.pend = host.pend, host'.adr = host.adr, job'.fast = job.fast,
         state' = "RC" => (state = "RC" \/ job.fast = TRUE),
         state' \in {"W1", "FT2"} => (state' = state \/ ~HostHere),
         waited.rows > 0 => state' \in {"ROW", "RC", "NEXTROW", "END", "CHECK"}
  PROVE  WaitInv'
<1>1. HostHere' <=> HostHere
  BY DEF HostHere, host_is_io
<1>2. ~HostHere => waited.words = 0
  BY DEF WaitInv, NoWait
<1> QED
  BY <1>1, <1>2 DEF WaitInv, HostNext

LEMMA WaitSteps ==
  ASSUME HostInv, WaitInv, [HostNextState]_hostvars
  PROVE  WaitInv'
<1>1. HostTypeOK /\ OnePlace /\ waited \in [words : Nat, rows : Nat]
  BY DEF HostInv, WaitInv
<1>2. CASE Control \/ GspGoes \/ HostAsk
  <2>1. waited' = waited /\ ~host.pend /\ state' = state /\ job' = job
    BY <1>2 DEF Control, Controls, GspGoes, HostAsk, HostIdle, Strobe, engine
  <2>2. waited = NoWait
    BY <2>1 DEF WaitInv, HostHere
  <2> QED BY <2>1, <2>2 DEF WaitInv, HostNext
<1>3. CASE HostReady \/ LineStart \/ UNCHANGED hostvars
  <2>1. waited' = waited /\ state' = state /\ job' = job /\ host'.pend = host.pend /\ host'.adr = host.adr
    BY <1>1, <1>3 DEF HostReady, LineStart, Strobe, hostvars, gvars, engine, HostTypeOK
  <2> QED BY <2>1, StillWaits DEF WaitInv, HostNext
<1>4. CASE CheckHost \/ FetchInsert \/ WordInsert
  BY <1>4, NothingWaits DEF CheckHost, Access, FetchInsert, WordInsert, Insert, Goes
<1>5. CASE WordDone \/ (Fetched /\ state = "FT2")
  <2>1. /\ waited' = (IF HostHere THEN [waited EXCEPT !["words"] = @ + 1] ELSE waited)
        /\ host' = host /\ job' = job /\ state \in {"W1", "FT2"} /\ state' \notin {"W1", "FT2", "RC"}
    BY <1>1, <1>5 DEF WordDone, Fetched, Ends, Goes, engine, HostTypeOK
  <2>2. waited.words = 0 /\ waited.rows = 0
    BY <1>1, <2>1 DEF WaitInv, HostNext
  <2>3. waited' \in [words : Nat, rows : Nat] /\ waited'.words <= 1 /\ waited'.rows = 0
    BY <1>1, <2>1, <2>2
  <2>4. HostHere' <=> HostHere
    BY <2>1 DEF HostHere, host_is_io
  <2> QED BY <2>1, <2>3, <2>4 DEF WaitInv, HostNext
<1>6. CASE RowCommand
  <2>1. /\ waited' = (IF HostHere THEN [waited EXCEPT !["rows"] = @ + 1] ELSE waited)
        /\ host' = host /\ job' = job /\ state = "RC" /\ state' = "NEXTROW"
    BY <1>6 DEF RowCommand, Ends, Goes
  <2>2. waited' \in [words : Nat, rows : Nat] /\ waited'.words = waited.words
    BY <1>1, <2>1
  <2>3. HostHere' <=> HostHere
    BY <2>1 DEF HostHere, host_is_io
  <2> QED BY <2>1, <2>2, <2>3 DEF WaitInv, HostNext
<1>7. CASE WordIssue \/ FetchMiss \/ (Fetched /\ state = "FT1")
  <2>1. /\ waited' = waited /\ host' = host /\ job' = job /\ state \in {"W0", "FT1"} /\ state' \in {"W1", "FT2", "EXEC"}
        /\ (state' # "EXEC" => ~HostHere)
    BY <1>7 DEF WordIssue, FetchMiss, Fetched, Goes, engine
  <2> QED BY <2>1, StillWaits DEF WaitInv, HostNext
<1>8. CASE Host1 \/ HostDone
  <2>1. waited' = waited /\ job' = job /\ ~host.pend /\ state' \in {"CHECK", "FT1", "W0"}
    BY <1>1, <1>8 DEF Host1, HostDone, Goes, engine, OnePlace, HostTypeOK
  <2>2. waited = NoWait
    BY <2>1 DEF WaitInv, HostHere
  <2> QED BY <2>1, <2>2, NothingWaits
<1>9. CASE Check(FALSE, FALSE) \/ Interrupt \/ Fetch0 \/ WordIo \/ Execute \/ Loaded
  <2>1. waited' = waited /\ host' = host /\ job' = job
    BY <1>9 DEF Check, Interrupt, Fetch0, WordIo, Execute, Loaded, engine
  <2>2. state' \notin {"RC", "W1", "FT2"}
    BY <1>1, <1>9 DEF Check, Interrupt, Fetch0, WordIo, Execute, MemoryOp, RegisterOp, Access, Loaded, Goes, HostTypeOK
  <2>3. state = "CHECK" => ~host.pend
    BY <1>9 DEF Check, Interrupt, Fetch0, WordIo, Execute, Loaded
  <2>4. state \notin {"ROW", "RC", "NEXTROW", "END"}
    BY <1>9 DEF Check, Interrupt, Fetch0, WordIo, Execute, Loaded
  <2>5. ~(waited.rows > 0)
    <3>1. CASE state = "CHECK"
      BY <2>3, <3>1 DEF WaitInv, HostHere, NoWait
    <3>2. CASE state # "CHECK"
      BY <2>4, <3>2 DEF WaitInv, HostNext
    <3> QED BY <3>1, <3>2
  <2> QED BY <2>1, <2>2, <2>5, StillWaits
<1>10. CASE BlitYields(FALSE) \/ BlitIssue(FALSE, FALSE)
  <2>1. /\ waited' = waited /\ host' = host /\ state = "EXEC" /\ state' \in {"ROW", "CHECK"}
        /\ (job' = job \/ job' = [job EXCEPT !.fresh = FALSE])
    BY <1>10 DEF BlitYields, BlitIssue, Goes, engine
  <2>2. job'.fast = job.fast
    BY <1>1, <2>1 DEF HostTypeOK, Jobs
  <2> QED BY <2>1, <2>2, StillWaits
<1>11. CASE Row
  <2>1. /\ waited' = waited /\ host' = host /\ job' = job /\ state = "ROW"
        /\ (IF job.fast THEN state' = "RC" ELSE state' = "W0")
    BY <1>11 DEF Row, Access, Goes
  <2>2. job.fast \in BOOLEAN
    BY <1>1 DEF HostTypeOK, Jobs
  <2> QED BY <2>1, <2>2, StillWaits DEF WaitInv
<1>12. CASE RowsDone \/ NextRow(FALSE) \/ BlitForced \/ BlitEnd
  <2>1. /\ waited' = waited /\ host' = host /\ state' \in {"ROW", "END", "CHECK"}
        /\ (job' = job \/ job' = [job EXCEPT !.fresh = TRUE])
    BY <1>12 DEF RowsDone, NextRow, BlitForced, BlitEnd, Goes
  <2>2. job'.fast = job.fast
    BY <1>1, <2>1 DEF HostTypeOK, Jobs
  <2> QED BY <2>1, <2>2, StillWaits
<1>13. Fetched => state \in {"FT1", "FT2"}
  BY DEF Fetched
<1> QED
  BY <1>2, <1>3, <1>4, <1>5, <1>6, <1>7, <1>8, <1>9, <1>10, <1>11, <1>12, <1>13 DEF HostNextState, Machine, Core

(* "the 68k waits for at most one memory cycle even mid-blit": while an     *)
(* access of the host to memory waits, at most one word cycle of the core   *)
(* ends, whatever the program does; and once a row of a fast blit has, only *)
(* the rest of that blit comes before it.                                   *)
THEOREM HostComesNext ==
  ASSUME NEW p, NEW j \in Jobs
  PROVE  HostSafety(p, j) => []HostNext
<1>1. HostInit(p, j) => HostInv /\ WaitInv
  <2>1. HostInit(p, j) => waited = NoWait /\ state = "CHECK"
    BY DEF HostInit, CoreInit
  <2> QED BY <2>1, HostStarts DEF WaitInv, HostNext, NoWait
<1>2. (HostInv /\ WaitInv) /\ [HostNextState]_hostvars => (HostInv /\ WaitInv)'
  BY HostSteps, WaitSteps
<1>3. HostInv /\ WaitInv => HostNext
  BY DEF WaitInv
<1> QED
  BY <1>1, <1>2, <1>3, PTL DEF HostSafety

(* Wherever it is inserted - at the boundary, in place of a fetch that      *)
(* misses, before an access of an instruction or a blit - an access of the  *)
(* host is one atomic access to the word HSTADR names, made once; nothing   *)
(* but the core's own writes changes the memory besides.                    *)
THEOREM HostPortServed ==
  ASSUME NEW p, NEW j \in Jobs
  PROVE  HostSafety(p, j) => Port!PortSafety
<1>1. HostInit(p, j) => HostInv /\ Port!PortInit
  BY HostStarts
<1>2. HostInv /\ [HostNextState]_hostvars => HostInv' /\ [PortNext]_(Port!hvars)
  BY HostSteps
<1> QED
  BY <1>1, <1>2, PTL DEF HostSafety, Port!PortSafety, PortNext
-----------------------------------------------------------------------------
(* The blits of a program that is Proper.  Point is the instruction the     *)
(* core is at: the one to be fetched, or in EXEC and among the rows of a    *)
(* blit the one that has been.                                              *)
InRows ==
    \/ state \in {"ROW", "RC", "NEXTROW", "END"}
    \/ state \in {"W0", "W1"} /\ w.ret = "NEXTROW"
    \/ state = "HW1" /\ hw_ret = "W0" /\ w.ret = "NEXTROW"
Point == IF state = "EXEC" \/ InRows THEN cpu.pc - 1 ELSE cpu.pc

(* A blit has painted to x when the rows asked for that it passes before x  *)
(* are painted, and without a window cutting its first rows none but these, *)
(* each once.  What DADDR and DYDX of an interrupted blit describe ends     *)
(* where the blit asked for ends.                                           *)
Behind(r, x) == IF job.yrev THEN r > x ELSE r < x
PaintedTo(x) ==
    \A r \in Rows : /\ painted[r] > 0 => r \in Asked
                    /\ r \in Asked /\ Behind(r, x) => painted[r] > 0
                    /\ ~ClippedFirst => painted[r] <= 1 /\ (~Behind(r, x) => painted[r] = 0)
RowAt(d, n, y) == IF job.yrev THEN ClipLast(d, n) - y ELSE ClipFirst(d) + y
LeftOf(d, n) ==
    /\ IF job.yrev THEN d = job.daddr /\ n <= job.dydx
                   ELSE d + n = job.daddr + job.dydx /\ d >= job.daddr
    /\ ClipFirst(d) <= ClipLast(d, n)

(* Main is at m, to resume a blit there if p, and the B file is its own,    *)
(* d and n; while the handler runs both are on the stack or in place.       *)
Frame(m, p) == [pc |-> m, ie |-> TRUE, p |-> p]
BFile(d, n) == [daddr |-> d, dydx |-> n]
View(m, p, d, n) ==
    /\ m \in 1 .. Vector - 1
    /\ \/ cpu.ie = TRUE /\ cpu.stack = <<>> /\ Point = m /\ cpu.p = p /\ cpu.daddr = d /\ cpu.dydx = n
       \/ /\ cpu.ie = FALSE /\ Point \in Vector .. Len(Code) /\ ~Saved(Point)
          /\ cpu.stack = <<Frame(m, p)>> /\ cpu.daddr = d /\ cpu.dydx = n
       \/ /\ cpu.ie = FALSE /\ Point \in Vector .. Len(Code) /\ Saved(Point)
          /\ cpu.stack = <<Frame(m, p), BFile(d, n)>>
(* Main outside its rows: the registers are those of the job, or the blit   *)
(* of m is interrupted and DADDR and DYDX are its remaining rows.           *)
AtRest(m, p, d, n) ==
    /\ p = TRUE => Code[m] = "blit"
    /\ job.fresh = TRUE => (Ready(m) => d = job.daddr /\ n = job.dydx)
    /\ job.fresh = FALSE => p = TRUE /\ LeftOf(d, n) /\ PaintedTo(RowAt(d, n, 0))
(* Main among its rows, and the handler, whose blits have one row.          *)
Painting(d, n) ==
    /\ job.fresh = FALSE /\ LeftOf(d, n) /\ blt.dy = ClipLast(d, n) - ClipFirst(d) + 1
    /\ state # "END" => /\ 0 <= blt.y /\ blt.y < blt.dy /\ blt.row = RowAt(d, n, blt.y)
    /\ state \notin {"NEXTROW", "END"} => PaintedTo(RowAt(d, n, blt.y))
    /\ state = "NEXTROW" => PaintedTo(RowAt(d, n, blt.y + 1))
    /\ state = "END" => /\ PaintedTo(RowAt(d, n, blt.y)) /\ 1 <= blt.y
                        /\ IF blt.int_wb = TRUE THEN blt.y < blt.dy /\ blt.done = blt.y ELSE blt.y = blt.dy
ItsOwn ==
    /\ blt.dy = 1 /\ blt.row = HandlerRow
    /\ state # "END" => blt.y = 0
    /\ state = "END" => blt.int_wb = FALSE
(* What the machine keeps besides, and the inductive invariant.             *)
Engine ==
    /\ DOMAIN cpu = {"pc", "ie", "p", "a", "daddr", "dydx", "stack"} /\ cpu.pc \in Nat /\ cpu.p \in BOOLEAN
    /\ cpu.daddr \in Int /\ cpu.dydx \in Int
    /\ DOMAIN blt = {"y", "dy", "row", "old", "int_wb", "done", "defer", "forced_after", "rows_done"}
    /\ blt.defer = FALSE /\ blt.forced_after = FALSE /\ blt.rows_done = FALSE
    /\ blt.y \in Int /\ blt.dy \in Int /\ blt.int_wb \in BOOLEAN
    /\ painted \in [Rows \cup {HandlerRow} -> Nat]
    /\ state = "INT" => cpu.ie = TRUE
    /\ InRows => Code[Point] = "blit"
    /\ InRows /\ state \in {"W0", "W1", "HW1"} => w.addr = blt.row
    /\ Own(Point) => cpu.daddr = HandlerRow /\ cpu.dydx = 1
    /\ InRows /\ cpu.ie = FALSE => ItsOwn
MainIs(m, p, d, n) ==
    /\ p \in BOOLEAN /\ d \in Int /\ n \in Int
    /\ View(m, p, d, n)
    /\ IF InRows /\ cpu.ie = TRUE THEN Painting(d, n) ELSE AtRest(m, p, d, n)
BlitInv == Proper => Engine /\ \E m, p, d, n : MainIs(m, p, d, n)
BlitTypes == job \in Jobs /\ w.ret \in {"CHECK", "HOST1", "LOADED", "NEXTROW"} /\ hw_ret \in {"FT1", "W0"}

-----------------------------------------------------------------------------
(* Where main and the handler are, and what surrounds each instruction.     *)
LEMMA Lengths ==
  ASSUME Proper
  PROVE  Len(Code) \in Nat /\ Vector \in Nat /\ 2 <= Vector /\ Vector <= Len(Code)
<1>1. program.main \in Seq(STRING) /\ program.handler \in Seq(STRING)
  BY DEF Proper
<1>2. Len(Code) = Len(program.main) + Len(program.handler)
  BY <1>1 DEF Code
<1>3. Len(program.main) \in Nat /\ Len(program.handler) \in Nat
  BY <1>1
<1> QED
  BY <1>2, <1>3 DEF Proper, Vector

LEMMA SinceNext ==
  ASSUME NEW k \in Nat \ {0}, NEW op, NEW ends
  PROVE  Since(k + 1, op, ends) <=> Code[k] = op \/ (Since(k, op, ends) /\ Code[k] \notin ends)
  BY DEF Since

LEMMA NextPoint ==
  ASSUME NEW k \in Nat \ {0}
  PROVE  /\ Ready(k + 1) <=> Code[k] = "setb" \/ (Ready(k) /\ Code[k] \notin {"blit", "loop"})
         /\ Own(k + 1) <=> Code[k] = "save" \/ (Own(k) /\ Code[k] \notin {"blit", "restore"})
         /\ Saved(k + 1) <=> Code[k] = "save" \/ (Saved(k) /\ Code[k] # "restore")
  BY SinceNext DEF Ready, Own, Saved

LEMMA SameProgram ==
  ASSUME program' = program, NEW k
  PROVE  /\ Code' = Code /\ Vector' = Vector
         /\ (Ready(k)' <=> Ready(k)) /\ (Own(k)' <=> Own(k)) /\ (Saved(k)' <=> Saved(k))
<1>1. Code' = Code /\ Vector' = Vector
  BY DEF Code, Vector
<1> QED
  BY <1>1 DEF Ready, Own, Saved, Since

LEMMA SameProper ==
  ASSUME program' = program, job'.daddr = job.daddr, job'.dydx = job.dydx
  PROVE  Proper' <=> Proper
<1>1. Code' = Code /\ Vector' = Vector
  BY DEF Code, Vector
<1> QED
  BY <1>1 DEF Proper, Ready, Own, Saved, Since

LEMMA OfMain ==
  ASSUME Proper, NEW k \in 1 .. Vector - 1
  PROVE  /\ ~Own(k) /\ ~Saved(k)
         /\ Code[k] \in {"load", "store", "ack", "setb", "blit", "loop"}
         /\ Code[k] = "blit" => Ready(k)
         /\ Code[k] # "loop" => k + 1 \in 1 .. Vector - 1
<1>1. Len(Code) \in Nat /\ Vector \in Nat /\ 2 <= Vector /\ Vector <= Len(Code)
  BY Lengths
<1>2. \A s \in 1 .. Vector - 2 : Code[s] \in {"load", "store", "ack", "setb", "blit"}
  BY DEF Proper, Simple
<1>3. Code[Vector - 1] = "loop"
  BY DEF Proper
<1>4. ~Own(k) /\ ~Saved(k)
  <2>1. \A s \in 1 .. k - 1 : Code[s] # "save"
    BY <1>1, <1>2
  <2> QED BY <2>1 DEF Own, Saved, Since
<1>5. Code[k] = "blit" => Ready(k) \/ Own(k)
  BY <1>1 DEF Proper
<1> QED
  BY <1>1, <1>2, <1>3, <1>4, <1>5

LEMMA OfHandler ==
  ASSUME Proper, NEW k \in Vector .. Len(Code)
  PROVE  /\ Code[k] \in {"load", "store", "ack", "save", "blit", "restore", "reti"}
         /\ Code[k] = "blit" => Own(k)
         /\ Code[k] = "restore" => Saved(k)
         /\ Code[k] \in {"save", "reti"} => ~Saved(k)
         /\ Code[k] # "reti" => k + 1 \in Vector .. Len(Code)
<1>1. Len(Code) \in Nat /\ Vector \in Nat /\ 2 <= Vector /\ Vector <= Len(Code)
  BY Lengths
<1>2. \A s \in Vector .. Len(Code) - 1 : Code[s] \in {"load", "store", "ack", "save", "blit", "restore"}
  BY DEF Proper, Simple
<1>3. Code[Vector - 1] = "loop" /\ Code[Len(Code)] = "reti"
  BY DEF Proper
<1>4. ~Ready(k)
  <2> SUFFICES ASSUME NEW s \in 1 .. k - 1, Code[s] = "setb",
                      \A t \in s + 1 .. k - 1 : Code[t] \notin {"blit", "loop"}
               PROVE  FALSE
    BY DEF Ready, Since
  <2>1. CASE s < Vector - 1
    <3>1. Vector - 1 \in s + 1 .. k - 1
      BY <1>1, <2>1
    <3> QED BY <1>3, <3>1
  <2>2. CASE s = Vector - 1
    BY <1>3, <2>2
  <2>3. CASE s > Vector - 1
    <3>1. s \in Vector .. Len(Code) - 1
      BY <1>1, <2>3
    <3> QED BY <1>2, <3>1
  <2> QED BY <1>1, <2>1, <2>2, <2>3
<1>5. /\ Code[k] = "blit" => Ready(k) \/ Own(k)
      /\ Code[k] = "restore" => Saved(k)
      /\ Code[k] \in {"save", "reti"} => ~Saved(k)
  <2>1. k \in 1 .. Len(Code)
    BY <1>1
  <2> QED BY <2>1 DEF Proper
<1> QED
  BY <1>1, <1>2, <1>3, <1>4, <1>5

(* The parts of the invariant that a step leaves alone.                     *)
LEMMA SamePainting ==
  ASSUME job'.yrev = job.yrev, job'.daddr = job.daddr, job'.dydx = job.dydx,
         \A r \in Rows : painted'[r] = painted[r],
         NEW d, NEW n, NEW x
  PROVE  /\ (PaintedTo(x)' <=> PaintedTo(x)) /\ RowAt(d, n, x)' = RowAt(d, n, x)
         /\ (LeftOf(d, n)' <=> LeftOf(d, n))
  BY DEF PaintedTo, Behind, Asked, ClippedFirst, RowAt, LeftOf, ClipFirst, ClipLast, Larger, Smaller

LEMMA SameView ==
  ASSUME NEW m, NEW p, NEW d, NEW n, View(m, p, d, n), program' = program, Point' = Point,
         cpu'.ie = cpu.ie, cpu'.p = cpu.p, cpu'.daddr = cpu.daddr, cpu'.dydx = cpu.dydx, cpu'.stack = cpu.stack
  PROVE  View(m, p, d, n)'
<1>1. PICK h : h = Point
  OBVIOUS
<1>2. Code' = Code /\ Vector' = Vector /\ (Saved(h)' <=> Saved(h))
  BY SameProgram
<1>3. Point' = h
  BY <1>1
<1> QED
  BY <1>1, <1>2, <1>3 DEF View, Frame, BFile

LEMMA QuietStep ==
  ASSUME Engine, NEW m, NEW p, NEW d, NEW n, MainIs(m, p, d, n),
         program' = program, job' = job, painted' = painted, Point' = Point, (InRows' <=> InRows),
         DOMAIN cpu' = DOMAIN cpu, cpu'.pc \in Nat, cpu'.ie = cpu.ie, cpu'.p = cpu.p,
         cpu'.daddr = cpu.daddr, cpu'.dydx = cpu.dydx, cpu'.stack = cpu.stack,
         DOMAIN blt' = DOMAIN blt, blt'.defer = FALSE, blt'.forced_after = FALSE, blt'.rows_done = FALSE,
         blt'.y = blt.y, blt'.dy = blt.dy, blt'.row = blt.row, blt'.done = blt.done, blt'.int_wb = blt.int_wb,
         state' = "INT" => cpu.ie = TRUE,
         InRows => (state' = "END" <=> state = "END") /\ (state' = "NEXTROW" <=> state = "NEXTROW"),
         InRows' /\ state' \in {"W0", "W1", "HW1"} => w'.addr = blt.row
  PROVE  Engine' /\ MainIs(m, p, d, n)'
<1>1. PICK h : h = Point
  OBVIOUS
<1>2. /\ Code' = Code /\ Vector' = Vector /\ (Own(h)' <=> Own(h))
      /\ (Ready(m)' <=> Ready(m))
  BY SameProgram
<1>3. Point' = h
  BY <1>1
<1>4. Engine'
  BY <1>1, <1>2, <1>3 DEF Engine, ItsOwn
<1>5. View(m, p, d, n)'
  BY SameView DEF MainIs
<1>6. /\ \A x : (PaintedTo(x)' <=> PaintedTo(x)) /\ RowAt(d, n, x)' = RowAt(d, n, x)
      /\ (LeftOf(d, n)' <=> LeftOf(d, n)) /\ ClipFirst(d)' = ClipFirst(d) /\ ClipLast(d, n)' = ClipLast(d, n)
  BY SamePainting DEF ClipFirst, ClipLast, Larger, Smaller
<1>7. Painting(d, n) /\ InRows => Painting(d, n)'
  BY <1>6 DEF Painting
<1>8. AtRest(m, p, d, n) => AtRest(m, p, d, n)'
  BY <1>2, <1>6 DEF AtRest
<1> QED
  BY <1>4, <1>5, <1>7, <1>8 DEF MainIs

(* The steps that leave main and the blit where they are.                   *)
LEMMA QuietClocks ==
  ASSUME BlitTypes, Engine, NEW m, NEW p, NEW d, NEW n, MainIs(m, p, d, n),
         \/ CheckHost \/ Check(FALSE, FALSE) \/ Host1 \/ Fetch0 \/ Fetched \/ FetchInsert \/ FetchMiss
         \/ HostDone \/ Loaded
  PROVE  Engine' /\ MainIs(m, p, d, n)'
<1>1. /\ program' = program /\ job' = job /\ painted' = painted /\ blt' = blt
      /\ DOMAIN cpu' = DOMAIN cpu /\ cpu'.ie = cpu.ie /\ cpu'.p = cpu.p
      /\ cpu'.daddr = cpu.daddr /\ cpu'.dydx = cpu.dydx /\ cpu'.stack = cpu.stack
      /\ IF Fetched THEN cpu'.pc = cpu.pc + 1 ELSE cpu'.pc = cpu.pc
  BY DEF Engine, CheckHost, Check, Host1, Fetch0, Fetched, FetchInsert, FetchMiss, HostDone, Loaded, regs, engine
<1>2. cpu.pc \in Nat /\ cpu.ie \in BOOLEAN
  BY DEF Engine, MainIs, View
<1>3. (InRows' <=> InRows) /\ Point' = Point
  <2>1. CASE HostDone
    <3>1. w' = w /\ hw_ret' = hw_ret /\ state = "HW1" /\ state' = hw_ret
      BY <2>1 DEF HostDone, word, Goes
    <3> QED BY <1>1, <2>1, <3>1 DEF HostDone, Fetched, InRows, Point, BlitTypes
  <2>2. CASE CheckHost
    BY <1>1, <2>2 DEF CheckHost, Access, Goes, InRows, Point, Fetched
  <2>3. CASE Fetched
    BY <1>1, <1>2, <2>3 DEF Fetched, Goes, InRows, Point
  <2>4. CASE Check(FALSE, FALSE) \/ Host1 \/ Fetch0 \/ FetchInsert \/ FetchMiss \/ Loaded
    BY <1>1, <2>4 DEF Check, Host1, Fetch0, FetchInsert, FetchMiss, Loaded, Insert, Goes, InRows, Point, Fetched
  <2> QED BY <2>1, <2>2, <2>3, <2>4
<1>4. state' = "INT" => cpu.ie = TRUE
  <2>1. CASE Check(FALSE, FALSE)
    BY <1>2, <2>1 DEF Check, Goes, IntReady
  <2>2. CASE HostDone
    BY <2>2 DEF HostDone, Goes, BlitTypes
  <2>3. CASE ~Check(FALSE, FALSE) /\ ~HostDone
    BY <2>3 DEF CheckHost, Access, Host1, Fetch0, Fetched, FetchInsert, FetchMiss, Loaded, Insert, Goes
  <2> QED BY <2>1, <2>2, <2>3
<1>5. InRows => HostDone /\ state' = "W0" /\ state = "HW1" /\ w' = w
  <2>1. state \in {"CHECK", "HOST1", "FT0", "FT1", "FT2", "LOADED"} \/ HostDone
    BY DEF CheckHost, Check, Host1, Fetch0, Fetched, FetchInsert, FetchMiss, Loaded
  <2>2. CASE HostDone
    BY <2>2 DEF HostDone, Goes, InRows, word
  <2>3. CASE state \in {"CHECK", "HOST1", "FT0", "FT1", "FT2", "LOADED"}
    BY <2>3 DEF InRows
  <2> QED BY <2>1, <2>2, <2>3
<1>6. InRows' /\ state' \in {"W0", "W1", "HW1"} => w'.addr = blt.row
  BY <1>3, <1>5 DEF Engine
<1>7. cpu'.pc \in Nat /\ blt.defer = FALSE /\ blt.forced_after = FALSE /\ blt.rows_done = FALSE
  BY <1>1, <1>2 DEF Engine
<1> QED
  BY <1>1, <1>3, <1>4, <1>5, <1>6, <1>7, QuietStep

LEMMA QuietWords ==
  ASSUME BlitTypes, Engine, NEW m, NEW p, NEW d, NEW n, MainIs(m, p, d, n),
         WordInsert \/ WordIssue \/ ((WordIo \/ WordDone) /\ w.ret # "NEXTROW")
  PROVE  Engine' /\ MainIs(m, p, d, n)'
<1>1. /\ program' = program /\ job' = job /\ painted' = painted /\ blt' = blt /\ cpu' = cpu /\ w' = w
      /\ state \in {"W0", "W1"} /\ (WordInsert => hw_ret' = "W0")
      /\ IF WordInsert THEN state' = "HW1" ELSE IF WordIssue THEN state' = "W1" ELSE state' = w.ret /\ w.ret # "NEXTROW"
  BY DEF WordInsert, WordIssue, WordIo, WordDone, Insert, Goes, regs, engine, word
<1>2. (InRows' <=> InRows) /\ Point' = Point
  BY <1>1 DEF BlitTypes, InRows, Point
<1>3. state' # "INT"
  BY <1>1 DEF BlitTypes
<1>4. InRows => state' \in {"W1", "HW1"}
  BY <1>1 DEF InRows
<1>5. InRows' /\ state' \in {"W0", "W1", "HW1"} => w'.addr = blt.row
  BY <1>1, <1>2 DEF Engine
<1>6. cpu.pc \in Nat /\ blt.defer = FALSE /\ blt.forced_after = FALSE /\ blt.rows_done = FALSE
  BY DEF Engine
<1> QED
  BY <1>1, <1>2, <1>3, <1>4, <1>5, <1>6, QuietStep

LEMMA QuietBoard ==
  ASSUME Engine, NEW m, NEW p, NEW d, NEW n, MainIs(m, p, d, n),
         Control \/ GspGoes \/ HostAsk \/ HostReady \/ LineStart \/ UNCHANGED hostvars
  PROVE  Engine' /\ MainIs(m, p, d, n)'
<1>1. /\ state' = state /\ program' = program /\ job' = job /\ painted' = painted /\ blt' = blt /\ cpu' = cpu
      /\ w' = w /\ hw_ret' = hw_ret
  BY DEF Control, Controls, GspGoes, HostAsk, HostReady, LineStart, Strobe, hostvars, gvars, regs, engine, word
<1>2. (InRows' <=> InRows) /\ Point' = Point
  BY <1>1 DEF InRows, Point
<1>3. /\ cpu.pc \in Nat /\ blt.defer = FALSE /\ blt.forced_after = FALSE /\ blt.rows_done = FALSE
      /\ (state = "INT" => cpu.ie = TRUE) /\ (InRows /\ state \in {"W0", "W1", "HW1"} => w.addr = blt.row)
  BY DEF Engine
<1> QED
  BY <1>1, <1>2, <1>3, QuietStep

LEMMA RowStep ==
  ASSUME Engine, NEW m, NEW p, NEW d, NEW n, MainIs(m, p, d, n), Row
  PROVE  Engine' /\ MainIs(m, p, d, n)'
<1>1. /\ blt' = [blt EXCEPT !.defer = FALSE, !.forced_after = @ \/ blt.defer]
      /\ state = "ROW" /\ program' = program /\ job' = job /\ painted' = painted /\ cpu' = cpu
      /\ \/ state' = "RC"
         \/ state' = "W0" /\ w'.ret = "NEXTROW" /\ w'.addr = blt.row
  BY DEF Row, Access, Goes, regs
<1>2. InRows /\ InRows' /\ Point' = Point
  BY <1>1 DEF InRows, Point
<1>3. /\ DOMAIN blt' = DOMAIN blt /\ blt'.defer = FALSE /\ blt'.rows_done = FALSE
      /\ blt'.y = blt.y /\ blt'.dy = blt.dy /\ blt'.row = blt.row /\ blt'.done = blt.done /\ blt'.int_wb = blt.int_wb
  BY <1>1 DEF Engine
<1>4. blt'.forced_after = FALSE
  <2>1. blt'.forced_after = (blt.forced_after \/ blt.defer)
    BY <1>1 DEF Engine
  <2>2. blt.forced_after = FALSE /\ blt.defer = FALSE
    BY DEF Engine
  <2>3. ~(blt.forced_after \/ blt.defer)
    BY <2>2
  <2> QED BY <2>1, <2>2, <2>3, Zenon
<1>5. cpu.pc \in Nat
  BY DEF Engine
<1> QED
  BY <1>1, <1>2, <1>3, <1>4, <1>5, QuietStep

-----------------------------------------------------------------------------
(* An interrupt finds main at rest and goes to the handler.                 *)
LEMMA AtRestStays ==
  ASSUME NEW m, NEW p, NEW d, NEW n, AtRest(m, p, d, n), program' = program, job' = job, painted' = painted
  PROVE  AtRest(m, p, d, n)'
<1>1. Code' = Code /\ (Ready(m)' <=> Ready(m))
  BY SameProgram
<1>2. \A x : (PaintedTo(x)' <=> PaintedTo(x)) /\ RowAt(d, n, x)' = RowAt(d, n, x) /\ (LeftOf(d, n)' <=> LeftOf(d, n))
  BY SamePainting
<1> QED
  BY <1>1, <1>2 DEF AtRest

LEMMA AtVector ==
  ASSUME Proper
  PROVE  ~Own(Vector) /\ ~Saved(Vector) /\ Vector \in Vector .. Len(Code) /\ Vector \in Nat
<1>1. Len(Code) \in Nat /\ Vector \in Nat /\ 2 <= Vector /\ Vector <= Len(Code)
  BY Lengths
<1>2. Code[Vector - 1] = "loop"
  BY DEF Proper
<1>3. PICK k \in Nat \ {0} : k = Vector - 1
  BY <1>1
<1>4. k \in 1 .. Vector - 1 /\ k + 1 = Vector
  BY <1>1, <1>3
<1>5. ~Own(k) /\ ~Saved(k)
  BY <1>4, OfMain
<1>6. ~Own(k + 1) /\ ~Saved(k + 1)
  BY <1>2, <1>3, <1>5, SinceNext DEF Own, Saved
<1> QED
  BY <1>1, <1>4, <1>6

LEMMA SameSequence ==
  ASSUME NEW S, NEW s \in Seq(S), NEW t \in Seq(S), Len(s) = Len(t), \A i \in 1 .. Len(s) : s[i] = t[i]
  PROVE  s = t
<1>1. s \in [1 .. Len(s) -> S] /\ t \in [1 .. Len(s) -> S]
  OBVIOUS
<1> QED
  BY <1>1

LEMMA Stacks ==
  ASSUME NEW x, NEW y
  PROVE  /\ Append(<<>>, x) = <<x>> /\ Append(<<x>>, y) = <<x, y>>
         /\ Len(<<x>>) = 1 /\ Len(<<x, y>>) = 2 /\ <<x>>[1] = x /\ <<x, y>>[2] = y
         /\ SubSeq(<<x>>, 1, 0) = <<>> /\ SubSeq(<<x, y>>, 1, 1) = <<x>>
<1>1. Append(<<>>, x) = <<x>> /\ SubSeq(<<x>>, 1, 0) = <<>>
  OBVIOUS
<1>2. /\ Len(<<x>>) = 1 /\ Len(<<x, y>>) = 2 /\ <<x>>[1] = x /\ <<x, y>>[1] = x /\ <<x, y>>[2] = y
      /\ <<x>> \in Seq({x, y}) /\ <<x, y>> \in Seq({x, y})
  OBVIOUS
<1>3. /\ Append(<<x>>, y) \in Seq({x, y}) /\ Len(Append(<<x>>, y)) = 2
      /\ Append(<<x>>, y)[1] = x /\ Append(<<x>>, y)[2] = y
  BY <1>2
<1>4. SubSeq(<<x, y>>, 1, 1) \in Seq({x, y}) /\ Len(SubSeq(<<x, y>>, 1, 1)) = 1 /\ SubSeq(<<x, y>>, 1, 1)[1] = x
  BY <1>2
<1>5. \A i \in 1 .. 2 : Append(<<x>>, y)[i] = <<x, y>>[i]
  BY <1>2, <1>3
<1>6. \A i \in 1 .. 1 : SubSeq(<<x, y>>, 1, 1)[i] = <<x>>[i]
  BY <1>2, <1>4
<1>7. Append(<<x>>, y) = <<x, y>>
  BY <1>2, <1>3, <1>5, SameSequence
<1>8. SubSeq(<<x, y>>, 1, 1) = <<x>>
  BY <1>2, <1>4, <1>6, SameSequence
<1> QED
  BY <1>1, <1>2, <1>7, <1>8

LEMMA InterruptStep ==
  ASSUME Proper, Engine, NEW m, NEW p, NEW d, NEW n, MainIs(m, p, d, n), Interrupt
  PROVE  Engine' /\ MainIs(m, p, d, n)'
<1>1. /\ state = "INT" /\ state' = "CHECK" /\ program' = program /\ job' = job /\ painted' = painted /\ blt' = blt
      /\ cpu' = [cpu EXCEPT !.stack = Append(@, [pc |-> cpu.pc, ie |-> cpu.ie, p |-> cpu.p]),
                            !.pc = Vector, !.ie = FALSE, !.p = FALSE]
  BY DEF Interrupt, Goes, engine
<1>2. ~InRows /\ ~InRows' /\ Point = cpu.pc /\ Point' = cpu'.pc
  BY <1>1 DEF InRows, Point
<1>3. /\ cpu.ie = TRUE /\ cpu.stack = <<>> /\ cpu.pc = m /\ cpu.p = p /\ cpu.daddr = d /\ cpu.dydx = n
      /\ m \in 1 .. Vector - 1 /\ AtRest(m, p, d, n) /\ p \in BOOLEAN /\ d \in Int /\ n \in Int
  BY <1>1, <1>2 DEF Engine, MainIs, View
<1>4. /\ cpu'.pc = Vector /\ cpu'.ie = FALSE /\ cpu'.p = FALSE /\ cpu'.daddr = d /\ cpu'.dydx = n
      /\ DOMAIN cpu' = DOMAIN cpu /\ cpu'.stack = <<Frame(m, p)>>
  <2>1. cpu'.stack = Append(<<>>, [pc |-> cpu.pc, ie |-> cpu.ie, p |-> cpu.p])
    BY <1>1, <1>3 DEF Engine
  <2>2. [pc |-> cpu.pc, ie |-> cpu.ie, p |-> cpu.p] = Frame(m, p)
    BY <1>3, Zenon DEF Frame
  <2>3. cpu'.stack = <<Frame(m, p)>>
    BY <2>1, <2>2, Stacks
  <2> QED BY <1>1, <1>3, <2>3 DEF Engine
<1>5. PICK v : v = Vector
  OBVIOUS
<1>6. /\ Code' = Code /\ Vector' = Vector /\ (Own(v)' <=> Own(v)) /\ (Saved(v)' <=> Saved(v))
  BY <1>1, SameProgram
<1>7. ~Own(v) /\ ~Saved(v) /\ v \in v .. Len(Code) /\ v \in Nat
  BY <1>5, AtVector
<1>8. Engine'
  BY <1>1, <1>2, <1>4, <1>5, <1>6, <1>7 DEF Engine
<1>9. View(m, p, d, n)'
  BY <1>2, <1>3, <1>4, <1>5, <1>6, <1>7 DEF View, Frame
<1>10. AtRest(m, p, d, n)'
  BY <1>1, <1>3, AtRestStays
<1> QED
  BY <1>2, <1>3, <1>8, <1>9, <1>10 DEF MainIs

-----------------------------------------------------------------------------
(* An instruction other than a blit, in main and in the handler.            *)
LEMMA SimpleAdvances ==
  ASSUME Proper, NEW k \in 1 .. Len(Code), Code[k] \in {"load", "store", "ack"}
  PROVE  /\ k \in 1 .. Vector - 1 => k + 1 \in 1 .. Vector - 1 /\ (Ready(k + 1) <=> Ready(k))
         /\ k \in Vector .. Len(Code) => k + 1 \in Vector .. Len(Code)
         /\ (Own(k + 1) <=> Own(k)) /\ (Saved(k + 1) <=> Saved(k))
<1>1. k \in Nat \ {0}
  BY Lengths
<1>2. (Ready(k + 1) <=> Ready(k)) /\ (Own(k + 1) <=> Own(k)) /\ (Saved(k + 1) <=> Saved(k))
  BY <1>1, SinceNext DEF Ready, Own, Saved
<1>3. k \in 1 .. Vector - 1 => k + 1 \in 1 .. Vector - 1
  BY OfMain
<1>4. k \in Vector .. Len(Code) => k + 1 \in Vector .. Len(Code)
  BY OfHandler
<1> QED
  BY <1>2, <1>3, <1>4

LEMMA BoundaryEngine ==
  ASSUME Engine, program' = program, blt' = blt, painted' = painted, ~InRows', state' # "INT",
         NEW k, Point' = k, Own(k) => cpu'.daddr = HandlerRow /\ cpu'.dydx = 1,
         DOMAIN cpu' = DOMAIN cpu, cpu'.pc \in Nat, cpu'.p \in BOOLEAN, cpu'.daddr \in Int, cpu'.dydx \in Int
  PROVE  Engine'
<1>1. Own(k)' <=> Own(k)
  BY SameProgram
<1> QED
  BY <1>1 DEF Engine

LEMMA Executing ==
  ASSUME Proper, Engine, NEW m, NEW p, NEW d, NEW n, MainIs(m, p, d, n), state = "EXEC"
  PROVE  /\ ~InRows /\ View(m, p, d, n) /\ AtRest(m, p, d, n) /\ p \in BOOLEAN /\ d \in Int /\ n \in Int
         /\ \E k \in 1 .. Len(Code) :
              /\ Point = k /\ cpu.pc = k + 1 /\ Op = Code[k]
              /\ (cpu.ie = TRUE => k = m /\ k \in 1 .. Vector - 1)
              /\ (cpu.ie # TRUE => cpu.ie = FALSE /\ k \in Vector .. Len(Code))
<1>0. PICK k : k = cpu.pc - 1
  OBVIOUS
<1>1. ~InRows /\ Point = k
  BY <1>0 DEF InRows, Point
<1>2. Len(Code) \in Nat /\ Vector \in Nat /\ 2 <= Vector /\ Vector <= Len(Code)
  BY Lengths
<1>3. cpu.pc \in Nat /\ cpu.pc = k + 1 /\ Op = Code[k]
  BY <1>0 DEF Op, Engine
<1>4. View(m, p, d, n) /\ AtRest(m, p, d, n) /\ p \in BOOLEAN /\ d \in Int /\ n \in Int
  BY <1>1 DEF MainIs
<1>5. m \in 1 .. Vector - 1
  BY <1>4 DEF View
<1>6. CASE cpu.ie = TRUE
  <2>1. k = m
    BY <1>1, <1>4, <1>6 DEF View
  <2>2. k \in 1 .. Len(Code) /\ k \in 1 .. Vector - 1
    BY <1>2, <1>5, <2>1
  <2> QED BY <1>1, <1>3, <1>4, <1>6, <2>1, <2>2
<1>7. CASE cpu.ie # TRUE
  <2>1. k \in Vector .. Len(Code) /\ cpu.ie = FALSE
    BY <1>1, <1>4, <1>7 DEF View
  <2>2. k \in 1 .. Len(Code)
    BY <1>2, <2>1
  <2> QED BY <1>1, <1>3, <1>4, <1>7, <2>1, <2>2
<1> QED
  BY <1>6, <1>7

LEMMA MemoryOpStep ==
  ASSUME Proper, Engine, NEW m, NEW p, NEW d, NEW n, MainIs(m, p, d, n), Execute, MemoryOp
  PROVE  Engine' /\ \E m1, p1, d1, n1 : MainIs(m1, p1, d1, n1)'
<1>1. /\ state = "EXEC" /\ state' = "W0" /\ w'.ret \in {"LOADED", "CHECK"} /\ cpu' = cpu
      /\ program' = program /\ job' = job /\ painted' = painted /\ blt' = blt
      /\ Op \in {"load", "store", "ack"}
  BY DEF Execute, MemoryOp, Access, Goes, engine
<1>2. PICK k \in 1 .. Len(Code) :
        /\ Point = k /\ cpu.pc = k + 1 /\ Op = Code[k]
        /\ (cpu.ie = TRUE => k = m /\ k \in 1 .. Vector - 1)
        /\ (cpu.ie # TRUE => cpu.ie = FALSE /\ k \in Vector .. Len(Code))
  BY <1>1, Executing
<1>3. View(m, p, d, n) /\ AtRest(m, p, d, n) /\ p \in BOOLEAN /\ d \in Int /\ n \in Int
  BY <1>1, Executing
<1>4. ~InRows' /\ Point' = k + 1
  BY <1>1, <1>2, <1>3 DEF InRows, Point
<1>5. /\ (k \in 1 .. Vector - 1) => k + 1 \in 1 .. Vector - 1 /\ (Ready(k + 1) <=> Ready(k))
      /\ (k \in Vector .. Len(Code)) => k + 1 \in Vector .. Len(Code)
      /\ (Own(k + 1) <=> Own(k)) /\ (Saved(k + 1) <=> Saved(k))
  BY <1>1, <1>2, <1>3, SimpleAdvances
<1>6. Engine'
  <2>1. Own(k + 1) => cpu.daddr = HandlerRow /\ cpu.dydx = 1
    BY <1>1, <1>2, <1>3, <1>5 DEF Engine
  <2> QED BY <1>1, <1>4, <2>1, BoundaryEngine DEF Engine
<1>7. PICK k1 : k1 = k + 1
  OBVIOUS
<1>8. /\ Code' = Code /\ Vector' = Vector /\ (Saved(k1)' <=> Saved(k1)) /\ (Ready(k1)' <=> Ready(k1))
  BY <1>1, SameProgram
<1>9. CASE cpu.ie = TRUE
  <2>1. /\ m = k /\ cpu.stack = <<>> /\ cpu.p = p /\ cpu.daddr = d /\ cpu.dydx = n
    BY <1>1, <1>2, <1>3, <1>9 DEF MainIs, View
  <2>2. View(k1, p, d, n)'
    BY <1>1, <1>2, <1>3, <1>4, <1>5, <1>7, <1>8, <1>9, <2>1 DEF View
  <2>3. AtRest(k1, p, d, n)
    BY <1>1, <1>2, <1>3, <1>5, <1>7, <1>9, <2>1 DEF AtRest
  <2>4. AtRest(k1, p, d, n)'
    BY <1>1, <2>3, AtRestStays
  <2> QED BY <1>1, <1>2, <1>3, <1>4, <1>6, <2>2, <2>4 DEF MainIs
<1>10. CASE cpu.ie # TRUE
  <2>1. View(m, p, d, n)'
    BY <1>1, <1>2, <1>3, <1>4, <1>5, <1>7, <1>8, <1>10 DEF View, MainIs, Frame, BFile
  <2>2. AtRest(m, p, d, n)'
    BY <1>1, <1>2, <1>3, AtRestStays
  <2> QED BY <1>1, <1>2, <1>3, <1>4, <1>6, <2>1, <2>2 DEF MainIs
<1> QED
  BY <1>9, <1>10

LEMMA MainOpStep ==
  ASSUME Proper, job \in Jobs, Engine, NEW m, NEW p, NEW d, NEW n, MainIs(m, p, d, n),
         Execute, RegisterOp, Op \in {"loop", "setb"}
  PROVE  Engine' /\ \E m1, p1, d1, n1 : MainIs(m1, p1, d1, n1)'
<1>1. /\ state = "EXEC" /\ state' = "CHECK"
      /\ program' = program /\ job' = job /\ painted' = painted /\ blt' = blt
      /\ cpu' = IF Op = "loop" THEN [cpu EXCEPT !.pc = 1]
                              ELSE [cpu EXCEPT !.daddr = job.daddr, !.dydx = job.dydx]
  BY DEF Execute, RegisterOp, Goes, engine
<1>2. PICK k \in 1 .. Len(Code) :
        /\ Point = k /\ cpu.pc = k + 1 /\ Op = Code[k]
        /\ (cpu.ie = TRUE => k = m /\ k \in 1 .. Vector - 1)
        /\ (cpu.ie # TRUE => cpu.ie = FALSE /\ k \in Vector .. Len(Code))
  BY <1>1, Executing
<1>3. View(m, p, d, n) /\ AtRest(m, p, d, n) /\ p \in BOOLEAN /\ d \in Int /\ n \in Int
  BY <1>1, Executing
<1>4. cpu.ie = TRUE /\ k = m /\ m \in 1 .. Vector - 1
  BY <1>2, OfHandler
<1>5. cpu.stack = <<>> /\ cpu.p = p /\ cpu.daddr = d /\ cpu.dydx = n
  BY <1>3, <1>4 DEF View
<1>6. p = FALSE /\ job.fresh = TRUE
  BY <1>2, <1>3, <1>4 DEF AtRest, Jobs
<1>7. Len(Code) \in Nat /\ Vector \in Nat /\ 2 <= Vector /\ Vector <= Len(Code)
  BY Lengths
<1>8. k \in Nat \ {0}
  BY <1>7
<1>9. job.daddr \in Nat /\ job.dydx \in Nat
  BY DEF Jobs
<1>10. ~InRows' /\ Point' = cpu'.pc
  BY <1>1 DEF InRows, Point
<1>11. CASE Op = "loop"
  <2>1. /\ cpu'.pc = 1 /\ cpu'.ie = TRUE /\ cpu'.stack = <<>> /\ cpu'.p = p /\ cpu'.daddr = d /\ cpu'.dydx = n
        /\ DOMAIN cpu' = DOMAIN cpu
    BY <1>1, <1>4, <1>5, <1>11 DEF Engine
  <2>2. PICK k1 : k1 = 1
    OBVIOUS
  <2>3. ~Ready(k1) /\ ~Own(k1) /\ ~Saved(k1)
    BY <2>2 DEF Ready, Own, Saved, Since
  <2>4. Code' = Code /\ Vector' = Vector /\ (Saved(k1)' <=> Saved(k1))
    BY <1>1, SameProgram
  <2>5. Engine'
    BY <1>1, <1>3, <1>10, <2>1, <2>2, <2>3, BoundaryEngine DEF Engine
  <2>6. View(k1, p, d, n)'
    BY <1>7, <1>10, <2>1, <2>2, <2>4 DEF View
  <2>7. AtRest(k1, p, d, n)
    BY <1>6, <2>3 DEF AtRest
  <2>8. AtRest(k1, p, d, n)'
    BY <1>1, <2>7, AtRestStays
  <2> QED BY <1>3, <1>10, <2>5, <2>6, <2>8 DEF MainIs
<1>12. CASE Op = "setb"
  <2>1. /\ cpu'.pc = k + 1 /\ cpu'.ie = TRUE /\ cpu'.stack = <<>> /\ cpu'.p = p /\ cpu'.daddr = job.daddr /\ cpu'.dydx = job.dydx
        /\ DOMAIN cpu' = DOMAIN cpu
    BY <1>1, <1>2, <1>4, <1>5, <1>12 DEF Engine
  <2>2. PICK k1 : k1 = k + 1
    OBVIOUS
  <2>3. k1 \in 1 .. Vector - 1 /\ ~Own(k1)
    BY <1>2, <1>4, <1>12, <2>2, OfMain
  <2>4. Code' = Code /\ Vector' = Vector
    BY <1>1, SameProgram
  <2>5. Engine'
    <3>1. cpu'.pc \in Nat /\ Point' = k1 /\ cpu'.p \in BOOLEAN
      BY <1>3, <1>8, <1>10, <2>1, <2>2
    <3> QED BY <1>1, <1>9, <1>10, <2>1, <2>3, <3>1, BoundaryEngine
  <2>6. PICK d1, n1 : d1 = job.daddr /\ n1 = job.dydx
    OBVIOUS
  <2>7. View(k1, p, d1, n1)'
    BY <1>1, <1>10, <2>1, <2>2, <2>3, <2>4, <2>6 DEF View
  <2>8. AtRest(k1, p, d1, n1)
    BY <1>6, <2>6 DEF AtRest
  <2>9. AtRest(k1, p, d1, n1)'
    BY <1>1, <2>8, AtRestStays
  <2> QED BY <1>3, <1>9, <1>10, <2>5, <2>6, <2>7, <2>9 DEF MainIs
<1> QED
  BY <1>11, <1>12

LEMMA HandlerOpStep ==
  ASSUME Proper, Engine, NEW m, NEW p, NEW d, NEW n, MainIs(m, p, d, n),
         Execute, RegisterOp, Op \in {"save", "restore", "reti"}
  PROVE  Engine' /\ \E m1, p1, d1, n1 : MainIs(m1, p1, d1, n1)'
<1>1. /\ state = "EXEC" /\ state' = "CHECK"
      /\ program' = program /\ job' = job /\ painted' = painted /\ blt' = blt
      /\ (Op = "save" => cpu' = [cpu EXCEPT !.stack = Append(@, BFile(cpu.daddr, cpu.dydx)),
                                            !.daddr = HandlerRow, !.dydx = 1])
      /\ (Op = "restore" => cpu' = [cpu EXCEPT !.stack = Popped, !.daddr = Top.daddr, !.dydx = Top.dydx])
      /\ (Op = "reti" => cpu' = [cpu EXCEPT !.stack = Popped, !.pc = Top.pc, !.ie = Top.ie, !.p = Top.p])
  BY DEF Execute, RegisterOp, Goes, engine, BFile
<1>2. PICK k \in 1 .. Len(Code) :
        /\ Point = k /\ cpu.pc = k + 1 /\ Op = Code[k]
        /\ (cpu.ie = TRUE => k = m /\ k \in 1 .. Vector - 1)
        /\ (cpu.ie # TRUE => cpu.ie = FALSE /\ k \in Vector .. Len(Code))
  BY <1>1, Executing
<1>3. View(m, p, d, n) /\ AtRest(m, p, d, n) /\ p \in BOOLEAN /\ d \in Int /\ n \in Int
  BY <1>1, Executing
<1>4. cpu.ie = FALSE /\ k \in Vector .. Len(Code) /\ m \in 1 .. Vector - 1
  <2>1. m \in 1 .. Vector - 1
    BY <1>3 DEF View
  <2> QED BY <1>2, <2>1, OfMain
<1>5. Len(Code) \in Nat /\ Vector \in Nat /\ 2 <= Vector /\ Vector <= Len(Code)
  BY Lengths
<1>6. k \in Nat \ {0}
  BY <1>5
<1>7. ~InRows' /\ Point' = cpu'.pc
  BY <1>1 DEF InRows, Point
<1>8. AtRest(m, p, d, n)'
  BY <1>1, <1>3, AtRestStays
<1>9. PICK k1 : k1 = k + 1
  OBVIOUS
<1>10. /\ Code' = Code /\ Vector' = Vector /\ (Saved(k1)' <=> Saved(k1))
  BY <1>1, SameProgram
<1>11. CASE Op = "save"
  <2>1. ~Saved(k) /\ k1 \in Vector .. Len(Code)
    BY <1>2, <1>4, <1>9, <1>11, OfHandler
  <2>2. Saved(k1)
    BY <1>2, <1>6, <1>9, <1>11, SinceNext DEF Saved
  <2>3. cpu.stack = <<Frame(m, p)>> /\ cpu.daddr = d /\ cpu.dydx = n
    BY <1>2, <1>3, <1>4, <2>1 DEF View
  <2>4. Append(cpu.stack, BFile(cpu.daddr, cpu.dydx)) = <<Frame(m, p), BFile(d, n)>>
    <3>1. Append(<<Frame(m, p)>>, BFile(d, n)) = <<Frame(m, p), BFile(d, n)>>
      BY Stacks
    <3> QED BY <2>3, <3>1
  <2>5. /\ cpu'.pc = k1 /\ cpu'.ie = FALSE /\ cpu'.p = cpu.p /\ cpu'.daddr = HandlerRow /\ cpu'.dydx = 1
        /\ cpu'.stack = <<Frame(m, p), BFile(d, n)>> /\ DOMAIN cpu' = DOMAIN cpu
    BY <1>1, <1>2, <1>4, <1>9, <1>11, <2>4 DEF Engine
  <2>6. Engine'
    BY <1>1, <1>6, <1>7, <1>9, <2>5, GspCoreAssumption, BoundaryEngine DEF Engine
  <2>7. View(m, p, d, n)'
    BY <1>4, <1>7, <1>10, <2>1, <2>2, <2>5 DEF View, Frame, BFile
  <2> QED BY <1>3, <1>7, <1>8, <2>6, <2>7 DEF MainIs
<1>12. CASE Op = "restore"
  <2>1. Saved(k) /\ k1 \in Vector .. Len(Code)
    BY <1>2, <1>4, <1>9, <1>12, OfHandler
  <2>2. ~Saved(k1) /\ ~Own(k1)
    <3>1. Code[k] = "restore"
      BY <1>2, <1>12
    <3>2. ~Saved(k + 1) /\ ~Own(k + 1)
      BY <1>6, <3>1, NextPoint
    <3> QED BY <1>9, <3>2
  <2>3. cpu.stack = <<Frame(m, p), BFile(d, n)>>
    BY <1>2, <1>3, <1>4, <2>1 DEF View
  <2>4. Popped = <<Frame(m, p)>> /\ Top.daddr = d /\ Top.dydx = n
    <3>1. /\ Len(<<Frame(m, p), BFile(d, n)>>) = 2 /\ <<Frame(m, p), BFile(d, n)>>[2] = BFile(d, n)
          /\ SubSeq(<<Frame(m, p), BFile(d, n)>>, 1, 1) = <<Frame(m, p)>>
      BY Stacks
    <3>2. Popped = <<Frame(m, p)>> /\ Top = BFile(d, n)
      BY <2>3, <3>1 DEF Popped, Top
    <3> QED BY <3>2 DEF BFile
  <2>5. /\ cpu'.pc = k1 /\ cpu'.ie = FALSE /\ cpu'.p = cpu.p /\ cpu'.daddr = d /\ cpu'.dydx = n
        /\ cpu'.stack = <<Frame(m, p)>> /\ DOMAIN cpu' = DOMAIN cpu
    BY <1>1, <1>2, <1>4, <1>9, <1>12, <2>4 DEF Engine
  <2>6. Engine'
    <3>1. cpu'.pc \in Nat /\ Point' = k1 /\ cpu'.p \in BOOLEAN
      BY <1>6, <1>7, <1>9, <2>5 DEF Engine
    <3> QED BY <1>1, <1>3, <1>7, <2>2, <2>5, <3>1, BoundaryEngine
  <2>7. View(m, p, d, n)'
    BY <1>4, <1>7, <1>10, <2>1, <2>2, <2>5 DEF View, Frame
  <2> QED BY <1>3, <1>7, <1>8, <2>6, <2>7 DEF MainIs
<1>13. CASE Op = "reti"
  <2>1. ~Saved(k)
    BY <1>2, <1>4, <1>13, OfHandler
  <2>2. cpu.stack = <<Frame(m, p)>> /\ cpu.daddr = d /\ cpu.dydx = n
    BY <1>2, <1>3, <1>4, <2>1 DEF View
  <2>3. Popped = <<>> /\ Top.pc = m /\ Top.ie = TRUE /\ Top.p = p
    <3>1. /\ Len(<<Frame(m, p)>>) = 1 /\ <<Frame(m, p)>>[1] = Frame(m, p) /\ SubSeq(<<Frame(m, p)>>, 1, 0) = <<>>
      BY Stacks
    <3>2. Popped = <<>> /\ Top = Frame(m, p)
      BY <2>2, <3>1 DEF Popped, Top
    <3> QED BY <3>2 DEF Frame
  <2>4. /\ cpu'.pc = m /\ cpu'.ie = TRUE /\ cpu'.p = p /\ cpu'.daddr = d /\ cpu'.dydx = n
        /\ cpu'.stack = <<>> /\ DOMAIN cpu' = DOMAIN cpu
    <3>1. cpu' = [cpu EXCEPT !.stack = Popped, !.pc = Top.pc, !.ie = Top.ie, !.p = Top.p]
      BY <1>1, <1>13
    <3>2. DOMAIN cpu = {"pc", "ie", "p", "a", "daddr", "dydx", "stack"}
      BY DEF Engine
    <3>3. /\ cpu'.pc = Top.pc /\ cpu'.ie = Top.ie /\ cpu'.p = Top.p /\ cpu'.daddr = cpu.daddr /\ cpu'.dydx = cpu.dydx
          /\ cpu'.stack = Popped /\ DOMAIN cpu' = DOMAIN cpu
      BY <3>1, <3>2
    <3> QED BY <2>2, <2>3, <3>3, Zenon
  <2>5. ~Own(m)
    BY <1>4, OfMain
  <2>6. Engine'
    <3>1. cpu'.pc \in Nat /\ Point' = m /\ cpu'.p \in BOOLEAN
      BY <1>3, <1>4, <1>5, <1>7, <2>4
    <3> QED BY <1>1, <1>3, <1>7, <2>4, <2>5, <3>1, BoundaryEngine
  <2>7. View(m, p, d, n)'
    BY <1>4, <1>7, <1>10, <2>4 DEF View
  <2> QED BY <1>3, <1>7, <1>8, <2>6, <2>7 DEF MainIs
<1> QED
  BY <1>11, <1>12, <1>13

-----------------------------------------------------------------------------
(* What is left of a blit after an interrupt is a part of it, and starts    *)
(* at the row the interrupt stopped at, or at one painted already.          *)
LEMMA ClipsFirst ==
  ASSUME NEW d \in Int
  PROVE  /\ ClipFirst(d) \in Int /\ ClipFirst(d) >= d /\ ClipFirst(d) >= WSTART
         /\ ClipFirst(d) = d \/ ClipFirst(d) = WSTART
  BY GspCoreAssumption DEF ClipFirst, Larger

LEMMA ClipsLast ==
  ASSUME NEW d \in Int, NEW n \in Int
  PROVE  /\ ClipLast(d, n) \in Int /\ ClipLast(d, n) <= d + n - 1 /\ ClipLast(d, n) <= WEND
         /\ ClipLast(d, n) = d + n - 1 \/ ClipLast(d, n) = WEND
  BY GspCoreAssumption DEF ClipLast, Smaller

LEMMA JobClips ==
  ASSUME job \in Jobs
  PROVE  ClipFirst(job.daddr) \in Int /\ ClipLast(job.daddr, job.dydx) \in Int
  BY GspCoreAssumption DEF Jobs, ClipFirst, ClipLast, Larger, Smaller

LEMMA LeftOuter ==
  ASSUME Proper, job \in Jobs, NEW d \in Int, NEW n \in Int,
         LeftOf(d, n) \/ (d = job.daddr /\ n = job.dydx)
  PROVE  d # HandlerRow
<1>1. HandlerRow \notin job.daddr .. job.daddr + job.dydx /\ job.daddr \in Nat /\ job.dydx \in Nat /\ HandlerRow \in Nat
  BY GspCoreAssumption DEF Proper, Jobs
<1>2. CASE LeftOf(d, n)
  <2>1. d = job.daddr \/ (d + n = job.daddr + job.dydx /\ d >= job.daddr)
    BY <1>2 DEF LeftOf
  <2>2. ClipFirst(d) <= ClipLast(d, n)
    BY <1>2 DEF LeftOf
  <2>3. n >= 1
    <3>1. ClipFirst(d) \in Int /\ ClipFirst(d) >= d
      BY ClipsFirst
    <3>2. ClipLast(d, n) \in Int /\ ClipLast(d, n) <= d + n - 1
      BY ClipsLast
    <3> QED BY <2>2, <3>1, <3>2
  <2> QED BY <1>1, <2>1, <2>3
<1>3. CASE d = job.daddr /\ n = job.dydx
  BY <1>1, <1>3
<1> QED
  BY <1>2, <1>3

(* The rows of what is left are rows that were asked for.                   *)
LEMMA LeftAsked ==
  ASSUME job \in Jobs, NEW d \in Int, NEW n \in Int, LeftOf(d, n)
  PROVE  /\ ClipFirst(d) >= ClipFirst(job.daddr) /\ ClipLast(d, n) <= ClipLast(job.daddr, job.dydx)
         /\ (job.yrev = TRUE => ClipFirst(d) = ClipFirst(job.daddr))
         /\ (job.yrev = FALSE => ClipLast(d, n) = ClipLast(job.daddr, job.dydx))
<1>1. job.daddr \in Nat /\ job.dydx \in Nat /\ job.yrev \in BOOLEAN
  BY DEF Jobs
<1> QED
  BY <1>1, GspCoreAssumption DEF LeftOf, ClipFirst, ClipLast, Larger, Smaller

LEMMA RowIsPainted ==
  ASSUME job \in Jobs, NEW d \in Int, NEW n \in Int, NEW y \in Int, LeftOf(d, n),
         0 <= y, y < ClipLast(d, n) - ClipFirst(d) + 1, PaintedTo(RowAt(d, n, y)),
         painted \in [Rows \cup {HandlerRow} -> Nat], job' = job,
         NEW a, a = RowAt(d, n, y),
         \A r \in Rows : painted'[r] = IF r = a THEN painted[r] + 1 ELSE painted[r]
  PROVE  PaintedTo(RowAt(d, n, y + 1))'
<1>1. job.daddr \in Nat /\ job.dydx \in Nat /\ job.yrev \in BOOLEAN
  BY DEF Jobs
<1>2. ClipFirst(d) \in Int /\ ClipLast(d, n) \in Int /\ ClipFirst(job.daddr) \in Int /\ ClipLast(job.daddr, job.dydx) \in Int
  <2>1. ClipFirst(d) \in Int
    BY ClipsFirst
  <2>2. ClipLast(d, n) \in Int
    BY ClipsLast
  <2> QED BY <2>1, <2>2, JobClips
<1>3. PICK f, l \in Int : f = ClipFirst(job.daddr) /\ l = ClipLast(job.daddr, job.dydx)
  BY <1>2
<1>4. a \in f .. l /\ a \in Int
  <2>1. ClipFirst(d) >= f /\ ClipLast(d, n) <= l
    BY <1>3, LeftAsked
  <2>2. a = ClipLast(d, n) - y \/ a = ClipFirst(d) + y
    BY DEF RowAt
  <2> QED BY <1>2, <2>1, <2>2
<1>5. PICK b \in Int : b = RowAt(d, n, y + 1)
  BY <1>1, <1>2 DEF RowAt
<1>6. /\ (job.yrev = TRUE => b = a - 1) /\ (job.yrev = FALSE => b = a + 1)
  BY <1>2, <1>5 DEF RowAt
<1>7. Asked = f .. l
  BY <1>3 DEF Asked
<1>8. /\ RowAt(d, n, y + 1)' = b /\ Asked' = f .. l /\ (ClippedFirst' <=> ClippedFirst)
      /\ job'.yrev = job.yrev
  BY <1>5, <1>7 DEF RowAt, Asked, ClippedFirst, ClipFirst, ClipLast
<1>9. ASSUME NEW r \in Rows
      PROVE  /\ (Behind(r, b) <=> Behind(r, a) \/ r = a) /\ ~Behind(a, a)
             /\ painted[r] \in Nat /\ r \in Nat
  BY <1>1, <1>4, <1>6, GspCoreAssumption DEF Behind
<1>10. ASSUME NEW r \in Rows
       PROVE  /\ painted'[r] > 0 => r \in f .. l
              /\ r \in f .. l /\ Behind(r, b) => painted'[r] > 0
              /\ ~ClippedFirst => painted'[r] <= 1 /\ (~Behind(r, b) => painted'[r] = 0)
  <2>1. /\ painted[r] > 0 => r \in f .. l
        /\ r \in f .. l /\ Behind(r, a) => painted[r] > 0
        /\ ~ClippedFirst => painted[r] <= 1 /\ (~Behind(r, a) => painted[r] = 0)
    BY <1>7 DEF PaintedTo
  <2> QED BY <1>4, <1>9, <2>1
<1>11. \A r \in Rows : Behind(r, b)' <=> Behind(r, b)
  BY <1>8 DEF Behind
<1>12. PaintedTo(b)'
  BY <1>8, <1>10, <1>11 DEF PaintedTo
<1> QED
  BY <1>8, <1>12 DEF PaintedTo, Behind

LEMMA Restarts ==
  ASSUME job \in Jobs, NEW d \in Int, NEW n \in Int, NEW y \in Int, LeftOf(d, n),
         1 <= y, y < ClipLast(d, n) - ClipFirst(d) + 1, PaintedTo(RowAt(d, n, y)),
         painted \in [Rows \cup {HandlerRow} -> Nat],
         NEW d1 \in Int, NEW n1 \in Int, n1 = n - y, d1 = IF job.yrev THEN d ELSE d + y
  PROVE  LeftOf(d1, n1) /\ PaintedTo(RowAt(d1, n1, 0))
<1>1. job.daddr \in Nat /\ job.dydx \in Nat /\ job.yrev \in BOOLEAN /\ WSTART \in Nat /\ WEND \in Nat
  BY GspCoreAssumption DEF Jobs
<1>2. PICK a, b \in Int : a = RowAt(d, n, y) /\ b = RowAt(d1, n1, 0)
  <2>1. ClipFirst(d) \in Int /\ ClipFirst(d1) \in Int
    BY ClipsFirst
  <2>2. ClipLast(d, n) \in Int /\ ClipLast(d1, n1) \in Int
    BY ClipsLast
  <2>3. RowAt(d, n, y) \in Int /\ RowAt(d1, n1, 0) \in Int
    BY <2>1, <2>2 DEF RowAt
  <2> QED BY <2>3
<1>3. CASE job.yrev = TRUE
  <2>1. d1 = d /\ d = job.daddr /\ n <= job.dydx
    BY <1>3 DEF LeftOf
  <2>2. /\ ClipFirst(d) = Larger(d, WSTART) /\ ClipLast(d, n) = Smaller(d + n - 1, WEND)
        /\ ClipLast(d, n1) = Smaller(d + n1 - 1, WEND)
    BY DEF ClipFirst, ClipLast
  <2>3. LeftOf(d1, n1)
    BY <1>1, <1>3, <2>1, <2>2 DEF LeftOf, Larger, Smaller
  <2>4. a <= b /\ (~ClippedFirst => a = b)
    BY <1>1, <1>2, <1>3, <2>1, <2>2 DEF RowAt, ClippedFirst, Smaller, Larger
  <2>5. \A r \in Rows : (Behind(r, b) => Behind(r, a)) /\ (~ClippedFirst => (Behind(r, b) <=> Behind(r, a)))
    BY <1>3, <2>4, GspCoreAssumption DEF Behind
  <2>6. PaintedTo(b)
    BY <1>2, <2>5 DEF PaintedTo
  <2> QED BY <1>2, <2>3, <2>6
<1>4. CASE job.yrev = FALSE
  <2>1. d1 = d + y /\ d + n = job.daddr + job.dydx /\ d >= job.daddr
    BY <1>4 DEF LeftOf
  <2>2. /\ ClipFirst(d) = Larger(d, WSTART) /\ ClipLast(d, n) = Smaller(d + n - 1, WEND)
        /\ ClipFirst(d1) = Larger(d + y, WSTART) /\ ClipLast(d1, n1) = Smaller(d + n - 1, WEND)
    BY <2>1 DEF ClipFirst, ClipLast
  <2>3. LeftOf(d1, n1)
    BY <1>1, <1>4, <2>1, <2>2 DEF LeftOf, Larger, Smaller
  <2>4. b <= a /\ (~ClippedFirst => a = b)
    BY <1>1, <1>2, <1>4, <2>1, <2>2 DEF RowAt, ClippedFirst, Smaller, Larger
  <2>5. \A r \in Rows : (Behind(r, b) => Behind(r, a)) /\ (~ClippedFirst => (Behind(r, b) <=> Behind(r, a)))
    BY <1>4, <2>4, GspCoreAssumption DEF Behind
  <2>6. PaintedTo(b)
    BY <1>2, <2>5 DEF PaintedTo
  <2> QED BY <1>2, <2>3, <2>6
<1> QED
  BY <1>1, <1>3, <1>4

LEMMA AllPainted ==
  ASSUME job \in Jobs, NEW d \in Int, NEW n \in Int, LeftOf(d, n),
         painted \in [Rows \cup {HandlerRow} -> Nat],
         PaintedTo(RowAt(d, n, ClipLast(d, n) - ClipFirst(d) + 1))
  PROVE  \A r \in Rows : (painted[r] >= 1 <=> r \in Asked) /\ (~ClippedFirst => painted[r] <= 1)
<1>1. job.daddr \in Nat /\ job.dydx \in Nat /\ job.yrev \in BOOLEAN
  BY DEF Jobs
<1>2. ClipFirst(d) \in Int /\ ClipLast(d, n) \in Int /\ ClipFirst(job.daddr) \in Int /\ ClipLast(job.daddr, job.dydx) \in Int
  <2>1. ClipFirst(d) \in Int
    BY ClipsFirst
  <2>2. ClipLast(d, n) \in Int
    BY ClipsLast
  <2> QED BY <2>1, <2>2, JobClips
<1>3. \A r \in Rows : r \in Asked => Behind(r, RowAt(d, n, ClipLast(d, n) - ClipFirst(d) + 1))
  <2>1. CASE job.yrev = TRUE
    <3>1. ClipFirst(d) = ClipFirst(job.daddr) /\ Rows \subseteq Nat
      BY <2>1, LeftAsked, GspCoreAssumption
    <3> QED BY <1>2, <2>1, <3>1 DEF RowAt, Behind, Asked
  <2>2. CASE job.yrev = FALSE
    <3>1. ClipLast(d, n) = ClipLast(job.daddr, job.dydx) /\ Rows \subseteq Nat
      BY <2>2, LeftAsked, GspCoreAssumption
    <3> QED BY <1>2, <2>2, <3>1 DEF RowAt, Behind, Asked
  <2> QED BY <1>1, <2>1, <2>2
<1> QED
  BY <1>3 DEF PaintedTo

-----------------------------------------------------------------------------
(* An interrupt that waits when a blit would begin goes first.              *)
LEMMA YieldStep ==
  ASSUME Proper, job \in Jobs, Engine, NEW m, NEW p, NEW d, NEW n, MainIs(m, p, d, n), BlitYields(FALSE)
  PROVE  Engine' /\ \E m1, p1, d1, n1 : MainIs(m1, p1, d1, n1)'
<1>1. /\ state = "EXEC" /\ state' = "CHECK" /\ Op = "blit" /\ ~cpu.p /\ IntReady
      /\ program' = program /\ job' = job /\ painted' = painted /\ blt' = blt
      /\ cpu' = [cpu EXCEPT !.p = TRUE, !.pc = @ - 1]
  BY DEF BlitYields, Goes, engine
<1>2. PICK k \in 1 .. Len(Code) :
        /\ Point = k /\ cpu.pc = k + 1 /\ Op = Code[k]
        /\ (cpu.ie = TRUE => k = m /\ k \in 1 .. Vector - 1)
        /\ (cpu.ie # TRUE => cpu.ie = FALSE /\ k \in Vector .. Len(Code))
  BY <1>1, Executing
<1>3. View(m, p, d, n) /\ AtRest(m, p, d, n) /\ p \in BOOLEAN /\ d \in Int /\ n \in Int
  BY <1>1, Executing
<1>4. cpu.ie = TRUE /\ k = m /\ m \in 1 .. Vector - 1
  BY <1>1, <1>2 DEF IntReady
<1>5. cpu.stack = <<>> /\ cpu.p = p /\ cpu.daddr = d /\ cpu.dydx = n
  BY <1>3, <1>4 DEF View
<1>6. job.fresh = TRUE
  BY <1>1, <1>3, <1>5 DEF AtRest, Jobs
<1>7. ~InRows' /\ Point' = cpu'.pc
  BY <1>1 DEF InRows, Point
<1>8. k \in Nat \ {0}
  BY Lengths
<1>9. /\ cpu'.pc = m /\ cpu'.ie = TRUE /\ cpu'.p = TRUE /\ cpu'.stack = <<>> /\ cpu'.daddr = d /\ cpu'.dydx = n
      /\ DOMAIN cpu' = DOMAIN cpu /\ m \in Nat
  BY <1>1, <1>2, <1>4, <1>5, <1>8 DEF Engine
<1>10. Code' = Code /\ Vector' = Vector
  BY <1>1, SameProgram
<1>11. ~Own(m)
  BY <1>4, OfMain
<1>12. Engine'
  BY <1>1, <1>3, <1>7, <1>9, <1>11, BoundaryEngine
<1>13. PICK p1 : p1 = TRUE
  OBVIOUS
<1>14. View(m, p1, d, n)'
  BY <1>4, <1>7, <1>9, <1>10, <1>13 DEF View
<1>15. AtRest(m, p1, d, n)
  BY <1>1, <1>2, <1>3, <1>4, <1>6 DEF AtRest
<1>16. AtRest(m, p1, d, n)'
  BY <1>1, <1>15, AtRestStays
<1> QED
  BY <1>3, <1>7, <1>12, <1>13, <1>14, <1>16 DEF MainIs

(* The blit starts or resumes: in main, and in the handler.                 *)
LEMMA IssueBlit ==
  ASSUME Engine, BlitIssue(FALSE, FALSE)
  PROVE  /\ state = "EXEC" /\ Op = "blit" /\ program' = program
         /\ DOMAIN cpu' = DOMAIN cpu /\ cpu'.pc = cpu.pc /\ cpu'.ie = cpu.ie /\ cpu'.stack = cpu.stack
         /\ cpu'.daddr = cpu.daddr /\ cpu'.dydx = cpu.dydx /\ cpu'.p = (FirstRow <= LastRow)
         /\ DOMAIN blt' = DOMAIN blt /\ blt'.forced_after = FALSE /\ blt'.rows_done = FALSE /\ blt'.defer = FALSE
         /\ blt'.y = 0 /\ blt'.dy = LastRow - FirstRow + 1 /\ blt'.int_wb = blt.int_wb
         /\ blt'.row = IF Reversed THEN LastRow ELSE FirstRow
         /\ state' = IF FirstRow <= LastRow THEN "ROW" ELSE "CHECK"
         /\ IF FirstRow <= LastRow /\ Outer /\ job.fresh
            THEN job' = [job EXCEPT !.fresh = FALSE] /\ painted' = [Blank EXCEPT ![HandlerRow] = painted[HandlerRow]]
            ELSE job' = job /\ painted' = painted
<1>1. /\ state = "EXEC" /\ Op = "blit" /\ program' = program
      /\ cpu' = [cpu EXCEPT !.p = (FirstRow <= LastRow)]
      /\ blt' = [blt EXCEPT !.defer = @ \/ (~cpu.p /\ FALSE /\ FALSE),
                            !.y = 0, !.dy = LastRow - FirstRow + 1, !.old = FALSE,
                            !.row = IF Reversed THEN LastRow ELSE FirstRow]
      /\ state' = IF FirstRow <= LastRow THEN "ROW" ELSE "CHECK"
      /\ painted' = IF FirstRow <= LastRow /\ Outer /\ job.fresh THEN [Blank EXCEPT ![HandlerRow] = painted[HandlerRow]] ELSE painted
      /\ job' = IF FirstRow <= LastRow /\ Outer /\ job.fresh THEN [job EXCEPT !.fresh = FALSE] ELSE job
  BY DEF BlitIssue, Goes
<1>2. /\ DOMAIN cpu = {"pc", "ie", "p", "a", "daddr", "dydx", "stack"}
      /\ DOMAIN blt = {"y", "dy", "row", "old", "int_wb", "done", "defer", "forced_after", "rows_done"}
      /\ blt.defer = FALSE /\ blt.forced_after = FALSE /\ blt.rows_done = FALSE
  BY DEF Engine
<1>3. /\ DOMAIN cpu' = DOMAIN cpu /\ cpu'.pc = cpu.pc /\ cpu'.ie = cpu.ie /\ cpu'.stack = cpu.stack
      /\ cpu'.daddr = cpu.daddr /\ cpu'.dydx = cpu.dydx /\ cpu'.p = (FirstRow <= LastRow)
  BY <1>1, <1>2
<1>4. /\ DOMAIN blt' = DOMAIN blt /\ blt'.forced_after = FALSE /\ blt'.rows_done = FALSE
      /\ blt'.y = 0 /\ blt'.dy = LastRow - FirstRow + 1 /\ blt'.int_wb = blt.int_wb
      /\ blt'.row = (IF Reversed THEN LastRow ELSE FirstRow) /\ blt'.defer = (blt.defer \/ (~cpu.p /\ FALSE /\ FALSE))
  BY <1>1, <1>2
<1>5. blt'.defer = FALSE
  <2>1. ~(blt.defer \/ (~cpu.p /\ FALSE /\ FALSE))
    BY <1>2
  <2> QED BY <1>4, <2>1, Zenon
<1> QED
  BY <1>1, <1>3, <1>4, <1>5

LEMMA SameJob ==
  ASSUME job'.yrev = job.yrev, job'.daddr = job.daddr, job'.dydx = job.dydx, NEW d, NEW n, NEW x, NEW r
  PROVE  /\ RowAt(d, n, x)' = RowAt(d, n, x) /\ (LeftOf(d, n)' <=> LeftOf(d, n))
         /\ (Behind(r, x)' <=> Behind(r, x)) /\ Asked' = Asked /\ (ClippedFirst' <=> ClippedFirst)
         /\ ClipFirst(d)' = ClipFirst(d) /\ ClipLast(d, n)' = ClipLast(d, n)
  BY DEF Behind, Asked, ClippedFirst, RowAt, LeftOf, ClipFirst, ClipLast, Larger, Smaller

LEMMA IssueInMain ==
  ASSUME Proper, job \in Jobs, Engine, NEW m, NEW p, NEW d, NEW n, MainIs(m, p, d, n),
         BlitIssue(FALSE, FALSE), cpu.ie = TRUE
  PROVE  Engine' /\ \E m1, p1, d1, n1 : MainIs(m1, p1, d1, n1)'
<1>1. /\ state = "EXEC" /\ Op = "blit" /\ program' = program
      /\ DOMAIN cpu' = DOMAIN cpu /\ cpu'.pc = cpu.pc /\ cpu'.ie = cpu.ie /\ cpu'.stack = cpu.stack
      /\ cpu'.daddr = cpu.daddr /\ cpu'.dydx = cpu.dydx /\ cpu'.p = (FirstRow <= LastRow)
      /\ DOMAIN blt' = DOMAIN blt /\ blt'.forced_after = FALSE /\ blt'.rows_done = FALSE /\ blt'.defer = FALSE
      /\ blt'.y = 0 /\ blt'.dy = LastRow - FirstRow + 1 /\ blt'.int_wb = blt.int_wb
      /\ blt'.row = (IF Reversed THEN LastRow ELSE FirstRow)
      /\ state' = IF FirstRow <= LastRow THEN "ROW" ELSE "CHECK"
  BY IssueBlit
<1>2. PICK k \in 1 .. Len(Code) :
        /\ Point = k /\ cpu.pc = k + 1 /\ Op = Code[k]
        /\ (cpu.ie = TRUE => k = m /\ k \in 1 .. Vector - 1)
        /\ (cpu.ie # TRUE => cpu.ie = FALSE /\ k \in Vector .. Len(Code))
  BY <1>1, Executing
<1>3. View(m, p, d, n) /\ AtRest(m, p, d, n) /\ p \in BOOLEAN /\ d \in Int /\ n \in Int
  BY <1>1, Executing
<1>4. k = m /\ m \in 1 .. Vector - 1 /\ Code[m] = "blit"
  BY <1>1, <1>2
<1>5. cpu.stack = <<>> /\ cpu.p = p /\ cpu.daddr = d /\ cpu.dydx = n
  BY <1>3 DEF View
<1>6. /\ job.yrev \in BOOLEAN /\ job.daddr \in Nat /\ job.dydx \in Nat /\ job.fresh \in BOOLEAN
      /\ DOMAIN job = {"fast", "yrev", "daddr", "dydx", "fresh"}
  BY DEF Jobs
<1>7. Ready(m) /\ ~Own(m) /\ m + 1 \in 1 .. Vector - 1
  BY <1>4, OfMain
<1>8. /\ (job.fresh = TRUE => d = job.daddr /\ n = job.dydx)
      /\ (job.fresh = FALSE => LeftOf(d, n) /\ PaintedTo(RowAt(d, n, 0)))
  BY <1>3, <1>7 DEF AtRest
<1>9. d # HandlerRow
  BY <1>3, <1>6, <1>8, LeftOuter
<1>10. Outer /\ (Reversed <=> job.yrev = TRUE) /\ FirstRow = ClipFirst(d) /\ LastRow = ClipLast(d, n)
  BY <1>5, <1>6, <1>9 DEF Outer, Reversed, FirstRow, LastRow
<1>11. ClipFirst(d) \in Int /\ ClipLast(d, n) \in Int
  BY <1>3, ClipsFirst, ClipsLast
<1>12. /\ job'.yrev = job.yrev /\ job'.daddr = job.daddr /\ job'.dydx = job.dydx
       /\ \/ job' = job /\ painted' = painted
          \/ /\ FirstRow <= LastRow /\ job.fresh = TRUE /\ job'.fresh = FALSE
             /\ painted' = [Blank EXCEPT ![HandlerRow] = painted[HandlerRow]]
  <2>1. IF FirstRow <= LastRow /\ Outer /\ job.fresh
        THEN job' = [job EXCEPT !.fresh = FALSE] /\ painted' = [Blank EXCEPT ![HandlerRow] = painted[HandlerRow]]
        ELSE job' = job /\ painted' = painted
    BY IssueBlit
  <2> QED BY <1>6, <2>1
<1>13. (FirstRow <= LastRow) => job'.fresh = FALSE
  BY <1>6, <1>10, IssueBlit
<1>14. painted' \in [Rows \cup {HandlerRow} -> Nat]
  BY <1>12 DEF Engine, Blank
<1>15. blt'.y \in Int /\ blt'.dy \in Int /\ blt'.int_wb \in BOOLEAN
  BY <1>1, <1>10, <1>11 DEF Engine
<1>16. k \in Nat \ {0} /\ cpu'.pc = k + 1 /\ cpu'.pc \in Nat
  BY <1>1, <1>2, Lengths
<1>17. CASE FirstRow <= LastRow
  <2>1. /\ state' = "ROW" /\ InRows' /\ Point' = m /\ cpu'.p = TRUE /\ cpu'.ie = TRUE
    <3>1. state' = "ROW" /\ cpu'.p = TRUE /\ cpu'.ie = TRUE
      <4>1. (FirstRow <= LastRow) = TRUE
        BY <1>17
      <4> QED BY <1>1, <1>17, <4>1
    <3> QED BY <1>4, <1>16, <3>1 DEF InRows, Point
  <2>2. Code' = Code /\ Vector' = Vector /\ (Own(m)' <=> Own(m))
    BY <1>1, SameProgram
  <2>3. Engine'
    BY <1>1, <1>3, <1>4, <1>5, <1>7, <1>14, <1>15, <1>16, <2>1, <2>2 DEF Engine
  <2>4. PICK p1 : p1 = TRUE
    OBVIOUS
  <2>5. View(m, p1, d, n)'
    BY <1>1, <1>4, <1>5, <2>1, <2>2, <2>4 DEF View
  <2>6. LeftOf(d, n)
    <3>1. CASE job.fresh = TRUE
      BY <1>6, <1>8, <1>10, <1>17, <3>1 DEF LeftOf
    <3> QED BY <1>6, <1>8, <3>1
  <2>7. PICK x \in Int : x = RowAt(d, n, 0)
    BY <1>11 DEF RowAt
  <2>8. PaintedTo(x)'
    <3>1. CASE job' = job /\ painted' = painted
      <4>1. job.fresh = FALSE
        BY <1>13, <1>17, <3>1
      <4> QED BY <1>8, <2>7, <3>1, <4>1, SamePainting
    <3>2. CASE job.fresh = TRUE /\ painted' = [Blank EXCEPT ![HandlerRow] = painted[HandlerRow]]
      <4>1. \A r \in Rows : painted'[r] = 0
        BY <3>2, GspCoreAssumption DEF Blank
      <4>2. d = job.daddr /\ n = job.dydx
        BY <1>8, <3>2
      <4>3. \A r \in Rows : r \in Asked => ~Behind(r, x)
        BY <1>6, <1>11, <2>7, <4>2, GspCoreAssumption DEF Asked, Behind, RowAt
      <4>4. \A r : (Behind(r, x)' <=> Behind(r, x)) /\ Asked' = Asked
        BY <1>12, SameJob
      <4> QED BY <4>1, <4>3, <4>4 DEF PaintedTo
    <3> QED BY <1>12, <3>1, <3>2
  <2>9. /\ RowAt(d, n, 0)' = RowAt(d, n, 0) /\ (LeftOf(d, n)' <=> LeftOf(d, n))
        /\ ClipFirst(d)' = ClipFirst(d) /\ ClipLast(d, n)' = ClipLast(d, n)
    BY <1>12, SameJob
  <2>10. blt'.row = RowAt(d, n, 0)
    BY <1>1, <1>6, <1>10, <1>11 DEF RowAt
  <2>11. PaintedTo(RowAt(d, n, 0))'
    BY <2>7, <2>8, <2>9 DEF PaintedTo, Behind
  <2>12. Painting(d, n)'
    BY <1>1, <1>10, <1>11, <1>13, <1>17, <2>1, <2>6, <2>9, <2>10, <2>11 DEF Painting
  <2> QED BY <1>3, <2>1, <2>3, <2>4, <2>5, <2>12 DEF MainIs
<1>18. CASE ~(FirstRow <= LastRow)
  <2>1. /\ state' = "CHECK" /\ ~InRows' /\ Point' = m + 1 /\ cpu'.p = FALSE /\ cpu'.ie = TRUE
    <3>1. state' = "CHECK" /\ cpu'.p = FALSE /\ cpu'.ie = TRUE
      <4>1. (FirstRow <= LastRow) = FALSE
        BY <1>18
      <4> QED BY <1>1, <1>18, <4>1
    <3> QED BY <1>4, <1>16, <3>1 DEF InRows, Point
  <2>2. job' = job /\ painted' = painted
    BY <1>12, <1>18
  <2>3. job.fresh = TRUE
    BY <1>6, <1>8, <1>10, <1>18 DEF LeftOf
  <2>4. PICK m1, p1 : m1 = m + 1 /\ p1 = FALSE
    OBVIOUS
  <2>5. ~Ready(m1) /\ ~Own(m1) /\ m1 \in 1 .. Vector - 1
    BY <1>4, <1>7, <1>16, <2>4, NextPoint
  <2>6. Code' = Code /\ Vector' = Vector /\ (Own(m1)' <=> Own(m1))
    BY <1>1, SameProgram
  <2>7. Engine'
    BY <1>1, <1>3, <1>5, <1>14, <1>15, <1>16, <2>1, <2>4, <2>5, <2>6 DEF Engine
  <2>8. View(m1, p1, d, n)'
    BY <1>1, <1>5, <2>1, <2>4, <2>5, <2>6 DEF View
  <2>9. AtRest(m1, p1, d, n)
    BY <2>3, <2>4, <2>5 DEF AtRest
  <2>10. AtRest(m1, p1, d, n)'
    BY <1>1, <2>2, <2>9, AtRestStays
  <2> QED BY <1>3, <2>1, <2>4, <2>7, <2>8, <2>10 DEF MainIs
<1> QED
  BY <1>17, <1>18

LEMMA IssueInHandler ==
  ASSUME Proper, Engine, NEW m, NEW p, NEW d, NEW n, MainIs(m, p, d, n),
         BlitIssue(FALSE, FALSE), cpu.ie # TRUE
  PROVE  Engine' /\ MainIs(m, p, d, n)'
<1>1. /\ state = "EXEC" /\ Op = "blit" /\ program' = program
      /\ DOMAIN cpu' = DOMAIN cpu /\ cpu'.pc = cpu.pc /\ cpu'.ie = cpu.ie /\ cpu'.stack = cpu.stack
      /\ cpu'.daddr = cpu.daddr /\ cpu'.dydx = cpu.dydx /\ cpu'.p = (FirstRow <= LastRow)
      /\ DOMAIN blt' = DOMAIN blt /\ blt'.forced_after = FALSE /\ blt'.rows_done = FALSE /\ blt'.defer = FALSE
      /\ blt'.y = 0 /\ blt'.dy = LastRow - FirstRow + 1 /\ blt'.int_wb = blt.int_wb
      /\ blt'.row = (IF Reversed THEN LastRow ELSE FirstRow)
      /\ state' = IF FirstRow <= LastRow THEN "ROW" ELSE "CHECK"
  BY IssueBlit
<1>2. PICK k \in 1 .. Len(Code) :
        /\ Point = k /\ cpu.pc = k + 1 /\ Op = Code[k]
        /\ (cpu.ie = TRUE => k = m /\ k \in 1 .. Vector - 1)
        /\ (cpu.ie # TRUE => cpu.ie = FALSE /\ k \in Vector .. Len(Code))
  BY <1>1, Executing
<1>3. View(m, p, d, n) /\ AtRest(m, p, d, n) /\ p \in BOOLEAN /\ d \in Int /\ n \in Int
  BY <1>1, Executing
<1>4. cpu.ie = FALSE /\ k \in Vector .. Len(Code) /\ Code[k] = "blit"
  BY <1>1, <1>2
<1>5. Own(k)
  BY <1>4, OfHandler
<1>6. cpu.daddr = HandlerRow /\ cpu.dydx = 1 /\ HandlerRow \in Nat
  BY <1>2, <1>5, GspCoreAssumption DEF Engine
<1>7. ~Outer /\ ~Reversed /\ FirstRow = HandlerRow /\ LastRow = HandlerRow
  BY <1>6 DEF Outer, Reversed, FirstRow, LastRow
<1>8. job' = job /\ painted' = painted
  <2>1. IF FirstRow <= LastRow /\ Outer /\ job.fresh
        THEN job' = [job EXCEPT !.fresh = FALSE] /\ painted' = [Blank EXCEPT ![HandlerRow] = painted[HandlerRow]]
        ELSE job' = job /\ painted' = painted
    BY IssueBlit
  <2> QED BY <1>7, <2>1
<1>9. FirstRow <= LastRow
  BY <1>6, <1>7
<1>10. cpu'.p = TRUE
  <2>1. (FirstRow <= LastRow) = TRUE
    BY <1>9
  <2> QED BY <1>1, <2>1
<1>11. k \in Nat \ {0}
  BY Lengths
<1>12. state' = "ROW" /\ InRows' /\ Point' = k /\ cpu'.ie = FALSE /\ cpu'.pc \in Nat
  BY <1>1, <1>2, <1>4, <1>9, <1>11 DEF InRows, Point
<1>13. /\ Code' = Code /\ Vector' = Vector /\ (Own(k)' <=> Own(k)) /\ (Saved(k)' <=> Saved(k))
  BY <1>1, SameProgram
<1>14. blt'.y = 0 /\ blt'.dy = 1 /\ blt'.row = HandlerRow /\ blt'.int_wb \in BOOLEAN
  BY <1>1, <1>6, <1>7 DEF Engine
<1>15. Engine'
  BY <1>1, <1>4, <1>6, <1>8, <1>10, <1>12, <1>13, <1>14 DEF Engine, ItsOwn
<1>16. Saved(k)
  BY <1>5 DEF Own, Saved, Since
<1>17. cpu.stack = <<Frame(m, p), BFile(d, n)>> /\ m \in 1 .. Vector - 1
  BY <1>2, <1>3, <1>4, <1>16 DEF View
<1>18. View(m, p, d, n)'
  BY <1>1, <1>4, <1>12, <1>13, <1>16, <1>17 DEF View, Frame, BFile
<1>19. AtRest(m, p, d, n)'
  BY <1>1, <1>3, <1>8, AtRestStays
<1> QED
  BY <1>3, <1>12, <1>15, <1>18, <1>19 DEF MainIs

-----------------------------------------------------------------------------
(* In the rows of a blit.                                                   *)
BlitAt(k, m, p, d, n) ==
    /\ Point = k /\ cpu.pc = k + 1 /\ Code[k] = "blit"
    /\ cpu.ie = TRUE => /\ k = m /\ Painting(d, n) /\ cpu.stack = <<>> /\ cpu.daddr = d /\ cpu.dydx = n
                        /\ ~Own(k) /\ k + 1 \in 1 .. Vector - 1
    /\ cpu.ie # TRUE => /\ cpu.ie = FALSE /\ k \in Vector .. Len(Code) /\ AtRest(m, p, d, n) /\ ItsOwn
                        /\ Own(k) /\ Saved(k) /\ cpu.stack = <<Frame(m, p), BFile(d, n)>>
                        /\ cpu.daddr = HandlerRow /\ cpu.dydx = 1
LEMMA InRowsOf ==
  ASSUME Proper, Engine, NEW m, NEW p, NEW d, NEW n, MainIs(m, p, d, n), InRows
  PROVE  /\ View(m, p, d, n) /\ p \in BOOLEAN /\ d \in Int /\ n \in Int /\ m \in 1 .. Vector - 1
         /\ \E k \in 1 .. Len(Code) : BlitAt(k, m, p, d, n)
<1>1. PICK k : k = cpu.pc - 1
  OBVIOUS
<1>2. Point = k /\ cpu.pc \in Nat /\ cpu.pc = k + 1 /\ Code[k] = "blit"
  BY <1>1 DEF Point, Engine
<1>3. Len(Code) \in Nat /\ Vector \in Nat /\ 2 <= Vector /\ Vector <= Len(Code)
  BY Lengths
<1>4. View(m, p, d, n) /\ p \in BOOLEAN /\ d \in Int /\ n \in Int
  BY DEF MainIs
<1>5. m \in 1 .. Vector - 1
  BY <1>4 DEF View
<1>6. CASE cpu.ie = TRUE
  <2>1. k = m /\ cpu.stack = <<>> /\ cpu.daddr = d /\ cpu.dydx = n
    BY <1>2, <1>4, <1>6 DEF View
  <2>2. ~Own(k) /\ k + 1 \in 1 .. Vector - 1
    BY <1>2, <1>5, <2>1, OfMain
  <2>3. k \in 1 .. Len(Code)
    BY <1>3, <1>5, <2>1
  <2>4. Painting(d, n)
    BY <1>6 DEF MainIs
  <2> QED BY <1>2, <1>4, <1>5, <1>6, <2>1, <2>2, <2>3, <2>4 DEF BlitAt
<1>7. CASE cpu.ie # TRUE
  <2>1. k \in Vector .. Len(Code) /\ cpu.ie = FALSE
    BY <1>2, <1>4, <1>7 DEF View
  <2>2. Own(k)
    BY <1>2, <2>1, OfHandler
  <2>3. Saved(k)
    BY <2>2 DEF Own, Saved, Since
  <2>4. k \in 1 .. Len(Code)
    BY <1>3, <2>1
  <2>5. cpu.stack = <<Frame(m, p), BFile(d, n)>>
    BY <1>2, <1>4, <1>7, <2>3 DEF View
  <2>6. AtRest(m, p, d, n)
    BY <1>7 DEF MainIs
  <2>7. ItsOwn /\ cpu.daddr = HandlerRow /\ cpu.dydx = 1
    BY <1>2, <2>1, <2>2 DEF Engine
  <2> QED BY <1>2, <1>4, <1>5, <1>7, <2>1, <2>2, <2>3, <2>4, <2>5, <2>6, <2>7 DEF BlitAt
<1> QED
  BY <1>6, <1>7

LEMMA PaintStep ==
  ASSUME Proper, job \in Jobs, Engine, NEW m, NEW p, NEW d, NEW n, MainIs(m, p, d, n),
         RowCommand \/ ((WordIo \/ WordDone) /\ w.ret = "NEXTROW")
  PROVE  Engine' /\ MainIs(m, p, d, n)'
<1>1. /\ state \in {"RC", "W0", "W1"} /\ InRows /\ state' = "NEXTROW"
      /\ program' = program /\ job' = job /\ blt' = blt /\ cpu'.pc = cpu.pc
      /\ cpu' = cpu
  BY DEF RowCommand, WordIo, WordDone, Goes, InRows, regs, engine
<1>2. \A r \in Rows : painted'[r] = IF r = blt.row THEN painted[r] + 1 ELSE painted[r]
  <2>1. \/ painted' = IF blt.row \in DOMAIN painted THEN [painted EXCEPT ![blt.row] = @ + 1] ELSE painted
        \/ painted' = painted /\ blt.row = IoReg
    BY <1>1 DEF RowCommand, WordIo, WordDone, Paints, Engine, engine
  <2> QED BY <2>1, GspCoreAssumption DEF Engine
<1>3. painted' \in [Rows \cup {HandlerRow} -> Nat]
  <2>1. \/ painted' = IF blt.row \in DOMAIN painted THEN [painted EXCEPT ![blt.row] = @ + 1] ELSE painted
        \/ painted' = painted
    BY <1>1 DEF RowCommand, WordIo, WordDone, Paints, Engine, engine
  <2> QED BY <2>1 DEF Engine
<1>4. View(m, p, d, n) /\ p \in BOOLEAN /\ d \in Int /\ n \in Int /\ m \in 1 .. Vector - 1
  BY <1>1, InRowsOf
<1>5. PICK k \in 1 .. Len(Code) : BlitAt(k, m, p, d, n)
  BY <1>1, InRowsOf
<1>6. InRows' /\ Point' = k
  BY <1>1, <1>5 DEF InRows, Point, BlitAt, Engine
<1>7. Code' = Code /\ Vector' = Vector /\ (Own(k)' <=> Own(k))
  BY <1>1, SameProgram
<1>8. Engine'
  BY <1>1, <1>3, <1>5, <1>6, <1>7 DEF Engine, ItsOwn, BlitAt
<1>9. View(m, p, d, n)'
  BY <1>1, <1>4, <1>5, <1>6, SameView DEF BlitAt
<1>10. CASE cpu.ie = TRUE
  <2>1. /\ job.fresh = FALSE /\ LeftOf(d, n) /\ blt.dy = ClipLast(d, n) - ClipFirst(d) + 1
        /\ 0 <= blt.y /\ blt.y < blt.dy /\ blt.row = RowAt(d, n, blt.y) /\ PaintedTo(RowAt(d, n, blt.y))
    BY <1>1, <1>5, <1>10 DEF Painting, BlitAt
  <2>2. PICK y \in Int : y = blt.y
    BY DEF Engine
  <2>3. PICK a : a = blt.row
    OBVIOUS
  <2>4. painted \in [Rows \cup {HandlerRow} -> Nat]
    BY DEF Engine
  <2>5. PaintedTo(RowAt(d, n, y + 1))'
    BY <1>1, <1>2, <1>4, <2>1, <2>2, <2>3, <2>4, RowIsPainted
  <2>6. \A x : RowAt(d, n, x)' = RowAt(d, n, x) /\ (LeftOf(d, n)' <=> LeftOf(d, n))
               /\ ClipFirst(d)' = ClipFirst(d) /\ ClipLast(d, n)' = ClipLast(d, n)
    BY <1>1, SameJob
  <2>7. PaintedTo(RowAt(d, n, blt.y + 1))'
    BY <1>1, <2>2, <2>5
  <2>8. Painting(d, n)'
    BY <1>1, <2>1, <2>6, <2>7 DEF Painting
  <2> QED BY <1>1, <1>4, <1>6, <1>8, <1>9, <1>10, <2>8 DEF MainIs
<1>11. CASE cpu.ie # TRUE
  <2>1. \A r \in Rows : painted'[r] = painted[r]
    BY <1>2, <1>5, <1>11, GspCoreAssumption DEF ItsOwn, BlitAt
  <2>2. /\ \A x : (PaintedTo(x)' <=> PaintedTo(x)) /\ RowAt(d, n, x)' = RowAt(d, n, x) /\ (LeftOf(d, n)' <=> LeftOf(d, n))
    BY <1>1, <2>1, SamePainting
  <2>3. Code' = Code /\ (Ready(m)' <=> Ready(m))
    BY <1>1, SameProgram
  <2>4. AtRest(m, p, d, n)'
    BY <1>1, <1>5, <1>11, <2>2, <2>3 DEF AtRest, BlitAt
  <2> QED BY <1>1, <1>4, <1>6, <1>8, <1>9, <1>11, <2>4 DEF MainIs
<1> QED
  BY <1>10, <1>11

LEMMA NextRowStep ==
  ASSUME Proper, job \in Jobs, Engine, NEW m, NEW p, NEW d, NEW n, MainIs(m, p, d, n), NextRow(FALSE)
  PROVE  Engine' /\ MainIs(m, p, d, n)'
<1>1. PICK old \in BOOLEAN, cut \in BOOLEAN :
        /\ state = "NEXTROW" /\ program' = program /\ cpu' = cpu /\ job' = job /\ painted' = painted
        /\ cut = (blt.y + 1 # blt.dy /\ IntReady /\ ~FALSE /\ ~job.fast /\ old)
        /\ blt' = [blt EXCEPT !.y = blt.y + 1, !.old = old, !.int_wb = cut,
                              !.done = IF cut THEN blt.y + 1 ELSE @,
                              !.row = IF blt.y + 1 = blt.dy THEN @ ELSE IF Reversed THEN @ - 1 ELSE @ + 1]
        /\ state' = IF blt.y + 1 = blt.dy \/ cut THEN "END" ELSE "ROW"
  BY DEF NextRow, Counted, Goes, regs
<1>2. InRows /\ InRows' /\ Point' = Point
  BY <1>1 DEF InRows, Point
<1>3. /\ DOMAIN blt = {"y", "dy", "row", "old", "int_wb", "done", "defer", "forced_after", "rows_done"}
      /\ blt.defer = FALSE /\ blt.forced_after = FALSE /\ blt.rows_done = FALSE /\ blt.y \in Int /\ blt.dy \in Int
  BY DEF Engine
<1>4. /\ DOMAIN blt' = DOMAIN blt /\ blt'.defer = FALSE /\ blt'.forced_after = FALSE /\ blt'.rows_done = FALSE
      /\ blt'.y = blt.y + 1 /\ blt'.dy = blt.dy /\ blt'.int_wb = cut
      /\ blt'.done = (IF cut THEN blt.y + 1 ELSE blt.done)
      /\ blt'.row = (IF blt.y + 1 = blt.dy THEN blt.row ELSE IF Reversed THEN blt.row - 1 ELSE blt.row + 1)
  BY <1>1, <1>3
<1>5. View(m, p, d, n) /\ p \in BOOLEAN /\ d \in Int /\ n \in Int /\ m \in 1 .. Vector - 1
  BY <1>2, InRowsOf
<1>6. PICK k \in 1 .. Len(Code) : BlitAt(k, m, p, d, n)
  BY <1>2, InRowsOf
<1>7. Point' = k /\ Code' = Code /\ Vector' = Vector /\ (Own(k)' <=> Own(k))
  BY <1>1, <1>2, <1>6, SameProgram DEF BlitAt
<1>8. View(m, p, d, n)'
  BY <1>1, <1>2, <1>5, SameView
<1>9. cut = TRUE => cpu.ie = TRUE /\ blt.y + 1 # blt.dy
  <2>1. ASSUME cut = TRUE PROVE IntReady /\ blt.y + 1 # blt.dy
    BY <1>1, <2>1
  <2>2. IntReady => cpu.ie = TRUE
    BY <1>5 DEF IntReady, View
  <2> QED BY <2>1, <2>2
<1>10. CASE cpu.ie = TRUE
  <2>1. /\ job.fresh = FALSE /\ LeftOf(d, n) /\ blt.dy = ClipLast(d, n) - ClipFirst(d) + 1
        /\ 0 <= blt.y /\ blt.y < blt.dy /\ blt.row = RowAt(d, n, blt.y) /\ PaintedTo(RowAt(d, n, blt.y + 1))
        /\ cpu.daddr = d /\ k = m
    BY <1>1, <1>6, <1>10 DEF Painting, BlitAt
  <2>2. Engine'
    BY <1>1, <1>2, <1>3, <1>4, <1>6, <1>7, <1>10, <2>1 DEF Engine, BlitAt
  <2>3. d # HandlerRow
    BY <1>5, <2>1, LeftOuter
  <2>4. job.yrev \in BOOLEAN /\ (Reversed <=> job.yrev = TRUE)
    BY <2>1, <2>3 DEF Jobs, Reversed, Outer
  <2>5. \A x : /\ RowAt(d, n, x)' = RowAt(d, n, x) /\ (LeftOf(d, n)' <=> LeftOf(d, n))
               /\ ClipFirst(d)' = ClipFirst(d) /\ ClipLast(d, n)' = ClipLast(d, n)
    BY <1>1, SameJob
  <2>6. PICK x : x = RowAt(d, n, blt.y + 1)
    OBVIOUS
  <2>7. PaintedTo(x)' <=> PaintedTo(x)
    BY <1>1, SamePainting
  <2>8. PaintedTo(RowAt(d, n, blt.y))'
    BY <1>4, <2>1, <2>5, <2>6, <2>7
  <2>9. state' # "END" => blt'.row = RowAt(d, n, blt.y + 1) /\ blt.y + 1 < blt.dy
    <3>1. ASSUME state' # "END" PROVE blt.y + 1 # blt.dy
      BY <1>1, <3>1
    <3>2. ClipFirst(d) \in Int /\ ClipLast(d, n) \in Int
      BY <1>5, ClipsFirst, ClipsLast
    <3> QED BY <1>3, <1>4, <2>1, <2>4, <3>1, <3>2 DEF RowAt
  <2>10. state' = "END" => IF cut THEN blt.y + 1 < blt.dy /\ blt'.done = blt.y + 1 ELSE blt.y + 1 = blt.dy
    BY <1>1, <1>3, <1>4, <1>9, <2>1
  <2>11. state' \in {"ROW", "END"}
    BY <1>1
  <2>12. Painting(d, n)'
    BY <1>1, <1>3, <1>4, <2>1, <2>5, <2>8, <2>9, <2>10, <2>11 DEF Painting
  <2> QED BY <1>1, <1>2, <1>5, <1>8, <1>10, <2>2, <2>12 DEF MainIs
<1>11. CASE cpu.ie # TRUE
  <2>1. /\ cpu.ie = FALSE /\ AtRest(m, p, d, n) /\ ItsOwn
    BY <1>6, <1>11 DEF BlitAt
  <2>2. blt.y = 0 /\ blt.dy = 1 /\ blt.row = HandlerRow /\ cut = FALSE
    BY <1>1, <1>9, <2>1 DEF ItsOwn
  <2>3. state' = "END" /\ blt'.row = HandlerRow /\ blt'.int_wb = FALSE /\ blt'.dy = 1 /\ blt'.y = 1
    BY <1>1, <1>4, <2>2
  <2>4. Engine'
    BY <1>1, <1>2, <1>3, <1>4, <1>6, <1>7, <1>11, <2>3 DEF Engine, BlitAt, ItsOwn
  <2>5. AtRest(m, p, d, n)'
    BY <1>1, <2>1, AtRestStays
  <2> QED BY <1>1, <1>2, <1>5, <1>8, <2>1, <2>4, <2>5 DEF MainIs
<1> QED
  BY <1>10, <1>11

LEMMA EndStep ==
  ASSUME Proper, job \in Jobs, Engine, NEW m, NEW p, NEW d, NEW n, MainIs(m, p, d, n), BlitEnd
  PROVE  Engine' /\ \E m1, p1, d1, n1 : MainIs(m1, p1, d1, n1)'
<1>1. /\ state = "END" /\ state' = "CHECK" /\ program' = program /\ painted' = painted
      /\ blt' = [blt EXCEPT !.int_wb = FALSE]
      /\ cpu' = [cpu EXCEPT !.p = blt.int_wb, !.daddr = @ + Advances,
                            !.dydx = IF blt.int_wb THEN @ - blt.done ELSE @,
                            !.pc = IF blt.int_wb THEN @ - 1 ELSE @]
      /\ job' = IF Outer /\ ~blt.int_wb THEN [job EXCEPT !.fresh = TRUE] ELSE job
  BY DEF BlitEnd, Goes
<1>2. InRows /\ ~InRows' /\ Point' = cpu'.pc
  BY <1>1 DEF InRows, Point
<1>3. /\ DOMAIN blt = {"y", "dy", "row", "old", "int_wb", "done", "defer", "forced_after", "rows_done"}
      /\ DOMAIN cpu = {"pc", "ie", "p", "a", "daddr", "dydx", "stack"} /\ cpu.pc \in Nat
      /\ blt.defer = FALSE /\ blt.forced_after = FALSE /\ blt.rows_done = FALSE /\ blt.y \in Int /\ blt.dy \in Int
      /\ blt.int_wb \in BOOLEAN /\ painted \in [Rows \cup {HandlerRow} -> Nat]
  BY DEF Engine
<1>4. /\ DOMAIN blt' = DOMAIN blt /\ blt'.defer = FALSE /\ blt'.forced_after = FALSE /\ blt'.rows_done = FALSE
      /\ blt'.y = blt.y /\ blt'.dy = blt.dy /\ blt'.int_wb = FALSE
  BY <1>1, <1>3
<1>5. /\ DOMAIN cpu' = DOMAIN cpu /\ cpu'.ie = cpu.ie /\ cpu'.stack = cpu.stack /\ cpu'.p = blt.int_wb
      /\ cpu'.daddr = cpu.daddr + Advances
      /\ cpu'.dydx = (IF blt.int_wb THEN cpu.dydx - blt.done ELSE cpu.dydx)
      /\ cpu'.pc = (IF blt.int_wb THEN cpu.pc - 1 ELSE cpu.pc)
  BY <1>1, <1>3
<1>6. View(m, p, d, n) /\ p \in BOOLEAN /\ d \in Int /\ n \in Int /\ m \in 1 .. Vector - 1
  BY <1>2, InRowsOf
<1>7. PICK k \in 1 .. Len(Code) : BlitAt(k, m, p, d, n)
  BY <1>2, InRowsOf
<1>8. k \in Nat \ {0}
  BY Lengths
<1>9. cpu.pc = k + 1 /\ Code[k] = "blit"
  BY <1>7 DEF BlitAt
<1>10. ~Ready(k + 1) /\ ~Own(k + 1) /\ (Saved(k + 1) <=> Saved(k))
  BY <1>8, <1>9, NextPoint
<1>11. PICK k1 : k1 = k + 1
  OBVIOUS
<1>12. Code' = Code /\ Vector' = Vector /\ (Own(k)' <=> Own(k)) /\ (Own(k1)' <=> Own(k1)) /\ (Saved(k1)' <=> Saved(k1))
  BY <1>1, SameProgram
<1>13. CASE cpu.ie = TRUE
  <2>1. /\ job.fresh = FALSE /\ LeftOf(d, n) /\ blt.dy = ClipLast(d, n) - ClipFirst(d) + 1
        /\ PaintedTo(RowAt(d, n, blt.y)) /\ 1 <= blt.y
        /\ (blt.int_wb = TRUE => blt.y < blt.dy /\ blt.done = blt.y)
        /\ k = m /\ cpu.stack = <<>> /\ cpu.daddr = d /\ cpu.dydx = n /\ ~Own(k) /\ k + 1 \in 1 .. Vector - 1
    BY <1>1, <1>7, <1>13 DEF Painting, BlitAt
  <2>2. d # HandlerRow
    BY <1>6, <2>1, LeftOuter
  <2>3. Outer /\ job.yrev \in BOOLEAN /\ (Reversed <=> job.yrev = TRUE) /\ DOMAIN job = {"fast", "yrev", "daddr", "dydx", "fresh"}
    BY <2>1, <2>2 DEF Jobs, Reversed, Outer
  <2>4. CASE blt.int_wb = TRUE
    <3>1. job' = job /\ cpu'.p = TRUE /\ cpu'.pc = k
      BY <1>1, <1>5, <1>8, <1>9, <2>4
    <3>2. PICK y \in Int, d1 \in Int, n1 \in Int : y = blt.y /\ n1 = n - y /\ d1 = IF job.yrev THEN d ELSE d + y
      BY <1>3, <1>6, <2>3
    <3>3. Advances = IF job.yrev THEN 0 ELSE y
      BY <2>1, <2>3, <2>4, <3>2 DEF Advances
    <3>4. cpu'.daddr = d1 /\ cpu'.dydx = n1
      BY <1>5, <1>6, <2>1, <2>3, <2>4, <3>2, <3>3
    <3>5. LeftOf(d1, n1) /\ PaintedTo(RowAt(d1, n1, 0))
      <4>1. y < ClipLast(d, n) - ClipFirst(d) + 1 /\ PaintedTo(RowAt(d, n, y)) /\ 1 <= y
        BY <2>1, <2>4, <3>2
      <4> QED BY <1>3, <1>6, <2>1, <3>2, <4>1, Restarts
    <3>6. PICK p1 : p1 = TRUE
      OBVIOUS
    <3>7. AtRest(m, p1, d1, n1)
      BY <1>9, <2>1, <3>5, <3>6 DEF AtRest
    <3>8. AtRest(m, p1, d1, n1)'
      BY <1>1, <3>1, <3>7, AtRestStays
    <3>9. View(m, p1, d1, n1)'
      BY <1>2, <1>5, <1>6, <1>12, <1>13, <2>1, <3>1, <3>4, <3>6 DEF View
    <3>10. Engine'
      BY <1>1, <1>2, <1>3, <1>4, <1>5, <1>8, <1>12, <2>1, <3>1, <3>4 DEF Engine
    <3> QED BY <1>2, <3>6, <3>8, <3>9, <3>10 DEF MainIs
  <2>5. CASE blt.int_wb = FALSE
    <3>1. job' = [job EXCEPT !.fresh = TRUE] /\ cpu'.p = FALSE /\ cpu'.pc = k1 /\ cpu'.dydx = n
      BY <1>1, <1>5, <1>9, <1>11, <2>1, <2>3, <2>5
    <3>2. Advances = n
      BY <2>1, <2>5 DEF Advances
    <3>3. PICK p1, d1 : p1 = FALSE /\ d1 = d + n
      OBVIOUS
    <3>4. cpu'.daddr = d1 /\ d1 \in Int
      BY <1>5, <1>6, <2>1, <3>2, <3>3
    <3>5. job'.fresh = TRUE
      BY <2>3, <3>1
    <3>6. ~Ready(k1)' /\ Code'[k1] = Code[k1]
      BY <1>1, <1>10, <1>11, SameProgram
    <3>7. AtRest(k1, p1, d1, n)'
      BY <3>3, <3>5, <3>6 DEF AtRest
    <3>8. View(k1, p1, d1, n)'
      BY <1>2, <1>5, <1>11, <1>12, <1>13, <2>1, <3>1, <3>3, <3>4 DEF View
    <3>9. Engine'
      BY <1>1, <1>2, <1>3, <1>4, <1>5, <1>6, <1>8, <1>10, <1>11, <1>12, <3>1, <3>4 DEF Engine
    <3> QED BY <1>2, <1>6, <3>3, <3>4, <3>7, <3>8, <3>9 DEF MainIs
  <2> QED BY <1>3, <2>4, <2>5
<1>14. CASE cpu.ie # TRUE
  <2>1. /\ cpu.ie = FALSE /\ AtRest(m, p, d, n) /\ ItsOwn /\ k \in Vector .. Len(Code) /\ Saved(k)
        /\ cpu.stack = <<Frame(m, p), BFile(d, n)>> /\ cpu.daddr = HandlerRow /\ cpu.dydx = 1
    BY <1>7, <1>14 DEF BlitAt
  <2>2. blt.int_wb = FALSE
    BY <1>1, <2>1 DEF ItsOwn
  <2>3. job' = job /\ cpu'.p = FALSE /\ cpu'.pc = k1 /\ cpu'.dydx = 1 /\ cpu'.daddr = HandlerRow + 1
    BY <1>1, <1>5, <1>9, <1>11, <2>1, <2>2 DEF Outer, Advances
  <2>4. k1 \in Vector .. Len(Code) /\ Saved(k1) /\ ~Own(k1)
    BY <1>9, <1>10, <1>11, <2>1, OfHandler
  <2>5. Engine'
    BY <1>1, <1>2, <1>3, <1>4, <1>5, <1>8, <1>11, <1>12, <2>3, <2>4, GspCoreAssumption DEF Engine
  <2>6. View(m, p, d, n)'
    BY <1>2, <1>5, <1>6, <1>12, <2>1, <2>3, <2>4 DEF View, Frame, BFile
  <2>7. AtRest(m, p, d, n)'
    BY <1>1, <2>1, <2>3, AtRestStays
  <2> QED BY <1>2, <1>6, <2>5, <2>6, <2>7 DEF MainIs
<1> QED
  BY <1>13, <1>14

-----------------------------------------------------------------------------
(* The invariant at the start, kept, and what it says at the end.           *)
LEMMA BlitStarts ==
  ASSUME NEW p, NEW j \in Jobs, j.fresh = TRUE, HostInit(p, j)
  PROVE  BlitInv
<1> SUFFICES ASSUME Proper
             PROVE  Engine /\ \E m1, p1, d1, n1 : MainIs(m1, p1, d1, n1)
  BY DEF BlitInv
<1>1. /\ state = "CHECK" /\ painted = Blank /\ job = j
      /\ cpu = [pc |-> 1, ie |-> TRUE, p |-> FALSE, a |-> 0, daddr |-> job.daddr, dydx |-> job.dydx, stack |-> <<>>]
      /\ blt = [y |-> 0, dy |-> 0, row |-> 0, old |-> FALSE, int_wb |-> FALSE, done |-> 0,
                defer |-> FALSE, forced_after |-> FALSE, rows_done |-> FALSE]
  BY DEF HostInit, CoreInit
<1>2. job.daddr \in Nat /\ job.dydx \in Nat /\ job.fresh = TRUE
  BY <1>1 DEF Jobs
<1>3. ~InRows /\ Point = 1
  BY <1>1 DEF InRows, Point
<1>4. PICK m, p1, d, n : m = 1 /\ p1 = FALSE /\ d = job.daddr /\ n = job.dydx
  OBVIOUS
<1>5. m \in 1 .. Vector - 1
  BY <1>4, Lengths
<1>6. ~Own(m)
  BY <1>5, OfMain
<1>7. Engine
  BY <1>1, <1>2, <1>3, <1>4, <1>6 DEF Engine, Blank
<1>8. View(m, p1, d, n)
  BY <1>1, <1>3, <1>4, <1>5 DEF View
<1>9. AtRest(m, p1, d, n)
  BY <1>2, <1>4 DEF AtRest
<1>10. p1 \in BOOLEAN
  BY <1>4
<1>11. d \in Int /\ n \in Int
  BY <1>2, <1>4
<1>12. MainIs(m, p1, d, n)
  BY <1>3, <1>8, <1>9, <1>10, <1>11 DEF MainIs
<1> QED
  BY <1>7, <1>12

LEMMA JobStays ==
  ASSUME job \in Jobs, [HostNextState]_hostvars
  PROVE  program' = program /\ job'.daddr = job.daddr /\ job'.dydx = job.dydx
<1>1. job' = job \/ job' = [job EXCEPT !.fresh = FALSE] \/ job' = [job EXCEPT !.fresh = TRUE]
  <2>1. CASE Machine
    BY <2>1 DEF Machine, Core, CheckHost, Check, Host1, Interrupt, Fetch0, Fetched, FetchInsert, FetchMiss,
         WordIo, WordInsert, WordIssue, WordDone, HostDone, Execute, Loaded,
         BlitYields, BlitIssue, RowsDone, Row, RowCommand, NextRow, BlitForced, BlitEnd, engine
  <2>2. CASE Control \/ GspGoes \/ HostAsk \/ HostReady \/ LineStart \/ UNCHANGED hostvars
    BY <2>2 DEF Control, Controls, GspGoes, HostAsk, HostReady, LineStart, Strobe, hostvars, gvars, engine
  <2> QED BY <2>1, <2>2 DEF HostNextState
<1>2. program' = program
  <2>1. CASE Machine
    BY <2>1 DEF Machine, Core, CheckHost, Check, Host1, Interrupt, Fetch0, Fetched, FetchInsert, FetchMiss,
         WordIo, WordInsert, WordIssue, WordDone, HostDone, Execute, Loaded,
         BlitYields, BlitIssue, RowsDone, Row, RowCommand, NextRow, BlitForced, BlitEnd, regs
  <2>2. CASE Control \/ GspGoes \/ HostAsk \/ HostReady \/ LineStart \/ UNCHANGED hostvars
    BY <2>2 DEF Control, Controls, GspGoes, HostAsk, HostReady, LineStart, Strobe, hostvars, gvars, regs
  <2> QED BY <2>1, <2>2 DEF HostNextState
<1> QED
  BY <1>1, <1>2 DEF Jobs

LEMMA BlitKept ==
  ASSUME BlitTypes, BlitInv, [HostNextState]_hostvars
  PROVE  BlitInv'
<1> SUFFICES ASSUME Proper'
             PROVE  Engine' /\ (\E m1, p1, d1, n1 : MainIs(m1, p1, d1, n1))'
  BY DEF BlitInv
<1>1. program' = program /\ job'.daddr = job.daddr /\ job'.dydx = job.dydx
  BY JobStays DEF BlitTypes
<1>2. Proper
  BY <1>1, SameProper
<1>3. Engine /\ job \in Jobs
  BY <1>2 DEF BlitInv, BlitTypes
<1>4. PICK m, p, d, n : MainIs(m, p, d, n)
  BY <1>2 DEF BlitInv
<1>5. CASE \/ CheckHost \/ Check(FALSE, FALSE) \/ Host1 \/ Fetch0 \/ Fetched \/ FetchInsert \/ FetchMiss
           \/ HostDone \/ Loaded
  BY <1>3, <1>4, <1>5, QuietClocks
<1>6. CASE WordInsert \/ WordIssue \/ ((WordIo \/ WordDone) /\ w.ret # "NEXTROW")
  BY <1>3, <1>4, <1>6, QuietWords
<1>7. CASE RowCommand \/ ((WordIo \/ WordDone) /\ w.ret = "NEXTROW")
  BY <1>2, <1>3, <1>4, <1>7, PaintStep
<1>8. CASE Control \/ GspGoes \/ HostAsk \/ HostReady \/ LineStart \/ UNCHANGED hostvars
  BY <1>3, <1>4, <1>8, QuietBoard
<1>9. CASE Interrupt
  BY <1>2, <1>3, <1>4, <1>9, InterruptStep
<1>10. CASE Execute
  <2>1. CASE MemoryOp
    BY <1>2, <1>3, <1>4, <1>10, <2>1, MemoryOpStep
  <2>2. CASE RegisterOp /\ Op \in {"loop", "setb"}
    BY <1>2, <1>3, <1>4, <1>10, <2>2, MainOpStep
  <2>3. CASE RegisterOp /\ Op \in {"save", "restore", "reti"}
    BY <1>2, <1>3, <1>4, <1>10, <2>3, HandlerOpStep
  <2>4. RegisterOp => Op \in {"loop", "setb", "save", "restore", "reti"}
    BY DEF RegisterOp
  <2> QED BY <1>10, <2>1, <2>2, <2>3, <2>4 DEF Execute
<1>11. CASE BlitYields(FALSE)
  BY <1>2, <1>3, <1>4, <1>11, YieldStep
<1>12. CASE BlitIssue(FALSE, FALSE)
  BY <1>2, <1>3, <1>4, <1>12, IssueInMain, IssueInHandler
<1>13. CASE Row
  BY <1>3, <1>4, <1>13, RowStep
<1>14. CASE NextRow(FALSE)
  BY <1>2, <1>3, <1>4, <1>14, NextRowStep
<1>15. CASE BlitEnd
  BY <1>2, <1>3, <1>4, <1>15, EndStep
<1>16. ~RowsDone /\ ~BlitForced
  BY <1>3 DEF RowsDone, BlitForced, Engine
<1> QED
  BY <1>5, <1>6, <1>7, <1>8, <1>9, <1>10, <1>11, <1>12, <1>13, <1>14, <1>15, <1>16 DEF HostNextState, Machine, Core

LEMMA BlitInvShows ==
  ASSUME BlitTypes, BlitInv
  PROVE  BlitsWhole
<1> SUFFICES ASSUME Proper, BlitOver
             PROVE  /\ \A r \in Rows : painted[r] >= 1 <=> r \in Asked
                    /\ ~ClippedFirst => \A r \in Rows : painted[r] <= 1
                    /\ ~job.yrev => cpu.daddr + Advances = job.daddr + job.dydx
  BY DEF BlitsWhole, BlitWhole
<1>1. Engine /\ job \in Jobs
  BY DEF BlitInv, BlitTypes
<1>2. PICK m, p, d, n : MainIs(m, p, d, n)
  BY DEF BlitInv
<1>3. state = "END" /\ Outer /\ ~blt.int_wb /\ InRows
  BY DEF BlitOver, InRows
<1>4. d \in Int /\ n \in Int
  BY <1>2 DEF MainIs
<1>5. PICK k \in 1 .. Len(Code) : BlitAt(k, m, p, d, n)
  BY <1>1, <1>2, <1>3, InRowsOf
<1>6. cpu.ie = TRUE
  BY <1>3, <1>5 DEF BlitAt, Outer
<1>7. Painting(d, n) /\ cpu.daddr = d /\ cpu.dydx = n
  BY <1>5, <1>6 DEF BlitAt
<1>8. LeftOf(d, n) /\ PaintedTo(RowAt(d, n, ClipLast(d, n) - ClipFirst(d) + 1))
  <2>1. LeftOf(d, n) /\ blt.dy = ClipLast(d, n) - ClipFirst(d) + 1 /\ blt.y = blt.dy /\ PaintedTo(RowAt(d, n, blt.y))
    BY <1>3, <1>7 DEF Painting
  <2> QED BY <2>1
<1>9. \A r \in Rows : (painted[r] >= 1 <=> r \in Asked) /\ (~ClippedFirst => painted[r] <= 1)
  BY <1>1, <1>4, <1>8, AllPainted DEF Engine
<1>10. ~job.yrev => cpu.daddr + Advances = job.daddr + job.dydx
  BY <1>3, <1>7, <1>8 DEF Advances, LeftOf
<1> QED
  BY <1>9, <1>10

(* "Slow-path blits are interruptible between rows": however often a blit   *)
(* of main is interrupted, and whatever blits the handler runs meanwhile,   *)
(* at its end the rows asked for inside the window are painted and no       *)
(* others, each once unless the window cut rows off its first side, and     *)
(* DADDR is where the whole blit would leave it.                            *)
THEOREM BlitsAreWhole ==
  ASSUME NEW p, NEW j \in Jobs, j.fresh = TRUE
  PROVE  HostSafety(p, j) => []BlitsWhole
<1>1. HostInit(p, j) => HostInv /\ BlitInv
  BY HostStarts, BlitStarts
<1>2. HostInv => BlitTypes
  BY DEF HostInv, HostTypeOK, BlitTypes
<1>3. (HostInv /\ BlitInv) /\ [HostNextState]_hostvars => (HostInv /\ BlitInv)'
  BY <1>2, HostSteps, BlitKept
<1>4. HostInv /\ BlitInv => BlitsWhole
  BY <1>2, BlitInvShows
<1> QED
  BY <1>1, <1>3, <1>4, PTL DEF HostSafety

-----------------------------------------------------------------------------
(* The glue.  The memory as it was when the request was taken, and what the *)
(* request makes of it.                                                     *)
Old == INSTANCE GspMemory WITH Words <- VramWords,
    vram <- before.vram, lo <- before.lo, hi <- before.hi, pal <- before.pal, palbank <- before.palbank,
    finescroll <- before.finescroll, srt_enable <- before.srt_enable, srt_src <- before.srt_src,
    port <- None
Target == Old!After(req)

Bytes == 0 .. 2 * VramWords - 1
Plain == req \in Requests /\ req.row = FALSE
States == {"IDLE", "REG_RD", "VRAM_WAIT", "EXP0", "EXP_WAIT", "SRT_BURST", "SRT_BURST_WAIT", "SRT_BURST_GAP"}
Moving == st \in {"SRT_BURST", "SRT_BURST_WAIT", "SRT_BURST_GAP"}

BusTypeOK ==
    /\ todo \in Seq(Requests) /\ req \in Requests \cup {None}
    /\ st \in States /\ ack \in BOOLEAN
    /\ vram = [b \in Bytes |-> vram[b]]
    /\ palbank \in Nat /\ srt_src \in Nat /\ srt_enable \in BOOLEAN
    /\ DOMAIN sd = {"req", "we", "addr", "data", "be"} /\ sd.req \in BOOLEAN /\ sd_ack \in BOOLEAN
    /\ sb \in [req : BOOLEAN, we : BOOLEAN, addr : Nat, len : Nat] /\ sb_done \in BOOLEAN
    /\ bp \in [phase : {"idle", "words", "closing", "told"}, issued : Nat, settled : BOOLEAN]
    /\ arrived.wr \in BOOLEAN
    /\ DOMAIN rowbuf = 0 .. ExpRow - 1
    /\ srt_we \in BOOLEAN /\ srt_cnt \in Nat /\ srt_len \in Nat

(* The two ports are used by the states that wait for them, and come to     *)
(* rest before the next request.                                            *)
RandomQuiet == ~sd.req /\ ~sd_ack
BurstQuiet  == ~sb.req /\ ~sb_done /\ ~arrived.wr
Bursting ==
    /\ sb.req /\ sb.we = srt_we /\ sb.addr = (IF srt_we THEN xf.dst ELSE xf.src) + srt_cnt
    /\ sb.len \in 1 .. srt_len - srt_cnt
    /\ sb_done <=> bp.phase = "told"
    /\ bp.phase \in {"idle", "told"} => bp.issued = 0
    /\ bp.phase = "words" => bp.issued < sb.len
    /\ bp.phase = "closing" => bp.issued = sb.len
    /\ arrived.wr => /\ bp.phase \in {"words", "closing"} /\ ~bp.settled /\ ~srt_we
                     /\ bp.issued > 0 /\ arrived.idx = bp.issued - 1
Handshake ==
    /\ ack => st = "IDLE"
    /\ (st # "IDLE" \/ ack) => req # None
    /\ st \notin {"VRAM_WAIT", "EXP_WAIT"} => RandomQuiet
    /\ st \in {"VRAM_WAIT", "EXP_WAIT"} => sd.req
    /\ st = "SRT_BURST_WAIT" => Bursting
    /\ st # "SRT_BURST_WAIT" => BurstQuiet /\ bp.issued = 0
    /\ st \notin {"IDLE", "SRT_BURST_WAIT", "SRT_BURST_GAP"} \/ (st = "IDLE" /\ ~ack) => bp.phase = "idle"
    /\ st = "SRT_BURST_GAP" => bp.phase = "told"
    /\ st = "IDLE" => bp.phase \in {"idle", "told"}
    /\ st # "REG_RD" => pal_we = None

(* Nothing but the request changes the latches meanwhile.                   *)
Latched ==
    /\ lo = before.lo /\ hi = before.hi /\ pal = before.pal /\ palbank = before.palbank
    /\ finescroll = before.finescroll /\ srt_enable = before.srt_enable /\ srt_src = before.srt_src
Holding ==
    st # "IDLE" => /\ before.vram = [b \in Bytes |-> before.vram[b]]
                   /\ before.palbank \in Nat /\ before.srt_src \in Nat /\ before.srt_enable \in BOOLEAN
                   /\ st # "REG_RD" => Latched

(* A latch or the palette: taken at once, the palette's write a clock later. *)
LoTaken ==
    /\ lo = (IF req.we THEN [before.lo EXCEPT ![req.addr] = req.data] ELSE before.lo) /\ q = before.lo[req.addr]
    /\ hi = before.hi /\ palbank = before.palbank /\ finescroll = before.finescroll
    /\ srt_enable = before.srt_enable /\ pal_we = None
HiTaken ==
    LET val == req.addr \div 8
        sel == req.addr % 8
    IN /\ hi = (IF req.we THEN [before.hi EXCEPT ![req.addr] = req.data] ELSE before.hi) /\ q = before.hi[req.addr]
       /\ srt_enable = (IF req.we /\ sel = 0 THEN val = 1 ELSE before.srt_enable)
       /\ finescroll = (IF req.we /\ sel = 1 THEN req.data[1] % 8 ELSE before.finescroll)
       /\ palbank = (CASE req.we /\ sel = 2 -> before.palbank - (before.palbank % 2) + val
                       [] req.we /\ sel = 3 -> (before.palbank % 2) + 2 * val
                       [] OTHER -> before.palbank)
       /\ lo = before.lo /\ pal_we = None
PaletteTaken ==
    LET a == (before.palbank * PalSize) + req.addr IN
    /\ pal_we = (IF req.we THEN [t |-> req.region, a |-> a, d |-> req.data] ELSE None)
    /\ q = before.pal[req.region][a]
    /\ lo = before.lo /\ hi = before.hi /\ palbank = before.palbank /\ finescroll = before.finescroll
    /\ srt_enable = before.srt_enable
RegisterInv ==
    st = "REG_RD" =>
        /\ Plain /\ ~req.srt /\ req.region \in {"clo", "chi", "plo", "phi"}
        /\ vram = before.vram /\ pal = before.pal /\ srt_src = before.srt_src
        /\ req.region = "clo" => LoTaken
        /\ req.region = "chi" => HiTaken
        /\ req.region \in {"plo", "phi"} => PaletteTaken

VramInv ==
    st = "VRAM_WAIT" =>
        /\ Plain /\ ~req.srt /\ req.region = "vram"
        /\ sd.we = req.we /\ sd.addr = req.addr /\ sd.data = req.data /\ sd.be = Both
        /\ ~sd_ack => vram = before.vram
        /\ sd_ack => vram = Target /\ sd_rdata = WordAt(before.vram, req.addr)

(* The expander: the words before word n have their pixels.                 *)
Expanded(n) ==
    [b \in Bytes |-> IF \E p \in req.data : p < 2 * n /\ b = (8 * req.addr + p) % (2 * VramWords)
                     THEN before.lo[0][1 + (b % 2)] ELSE before.vram[b]]
Pixels(n) == {h \in Both : 2 * n + h - 1 \in req.data}
ExpanderInv ==
    st \in {"EXP0", "EXP_WAIT"} =>
        /\ Plain /\ ~req.srt /\ req.region = "exp" /\ req.we
        /\ exp = [n |-> exp.n, mask |-> req.data, color |-> before.lo[0], base |-> 4 * req.addr]
        /\ exp.n \in 0 .. 3
        /\ st = "EXP_WAIT" => sd.we /\ sd.addr = exp.base + exp.n /\ sd.data = exp.color /\ sd.be = Pixels(exp.n)
        /\ vram = Expanded(IF st = "EXP_WAIT" /\ sd_ack THEN exp.n + 1 ELSE exp.n)

(* A transfer: which, from where, how far.                                  *)
Shift == CASE xf.sh = 0 -> 0 [] xf.sh = 1 -> 1 [] OTHER -> -1
OfRow ==
    /\ req.row
    /\ xf = [isrc |-> TRUE, fill |-> req.fill, transp |-> req.transp, color |-> req.color,
             sh |-> rc_sh, be_first |-> IF req.dst % 2 = 1 THEN {2} ELSE Both,
             be_last |-> IF rc_lastb % 2 = 1 THEN Both ELSE {1}, src |-> req.src \div 2, dst |-> req.dst \div 2]
    /\ srt_len = IF ~srt_we /\ rc_sh = 1 THEN rc_ndw + 1 ELSE rc_ndw
OfShiftRegister ==
    /\ req.row = FALSE /\ req.we /\ req.srt /\ req.region \in {"vram", "exp"} /\ before.srt_enable
    /\ xf = [isrc |-> FALSE, fill |-> FALSE, transp |-> FALSE, color |-> <<0, 0>>, sh |-> 0,
             be_first |-> Both, be_last |-> Both, src |-> before.srt_src, dst |-> RowName]
    /\ srt_len = IF req.region = "vram" THEN SrtRow ELSE ExpRow

Done == IF st = "SRT_BURST_WAIT"
        THEN srt_cnt + (IF bp.phase = "told" THEN sb.len ELSE bp.issued) ELSE srt_cnt
Landed == IF arrived.wr THEN Done - 1 ELSE Done
Stored == IF xf.sh = 1 THEN Landed - 1 ELSE Landed

(* Byte h of word i of the destination comes from this byte of VRAM.        *)
SourceByte(i, h) == before.vram[(2 * (xf.src + i) + h - 1 + Shift) % (2 * VramWords)]
(* The low byte of the first word has no source when it is not written.     *)
HasSource(i, h) == i > 0 \/ h = 2 \/ xf.sh # 2
Gathered(n) ==
    \A i \in 0 .. n - 1 : \A h \in Both : HasSource(i, h) => rowbuf[i][h] = SourceByte(i, h)

ReadSoFar ==
    /\ ~xf.fill /\ vram = before.vram
    /\ Landed > 0 => xf_prev = WordAt(before.vram, xf.src + Landed - 1)
    /\ arrived.wr => arrived.data = WordAt(before.vram, xf.src + Done - 1)
    /\ Gathered(Stored)
WrittenSoFar ==
    /\ ~xf.fill => Gathered(srt_len)
    /\ st = "SRT_BURST_WAIT" /\ bp.phase = "words" /\ bp.settled => rb_q = rowbuf[rb_go]
    /\ vram = [b \in Bytes |-> IF b \div 2 \in xf.dst .. xf.dst + Done - 1 THEN Target[b] ELSE before.vram[b]]
TransferInv ==
    Moving => /\ OfRow \/ OfShiftRegister
              /\ srt_cnt < srt_len
              /\ ~srt_we => ReadSoFar
              /\ srt_we => WrittenSoFar

BusInv == /\ BusTypeOK /\ Handshake /\ Holding
          /\ RegisterInv /\ VramInv /\ ExpanderInv /\ TransferInv

-----------------------------------------------------------------------------
(* Remainders, and rows of words.                                           *)
LEMMA Sizes ==
  /\ VramWords \in Nat \ {0} /\ SrtRow \in Nat \ {0} /\ ExpRow \in Nat \ {0}
  /\ PalSize \in Nat \ {0} /\ Piece \in Nat \ {0}
BY GspBusAssumption

LEMMA Division ==
  ASSUME NEW a \in Int, NEW n \in Nat \ {0}
  PROVE  a = n * (a \div n) + (a % n) /\ a \div n \in Int /\ a % n \in 0 .. n - 1
OBVIOUS

LEMMA HalvesOfWord ==
  ASSUME NEW u \in Nat, NEW h \in {1, 2}
  PROVE  LET b == 2 * u + h - 1 IN b \in Nat /\ b \div 2 = u /\ 1 + (b % 2) = h
<1>1. CASE h = 1
  BY <1>1
<1>2. CASE h = 2
  BY <1>2
<1> QED
  BY <1>1, <1>2

LEMMA Remainder ==
  ASSUME NEW n \in Nat \ {0}, NEW k \in Int, NEW r \in 0 .. n - 1
  PROVE  (n * k + r) % n = r
OBVIOUS

LEMMA SmallRemainder ==
  ASSUME NEW n \in Nat \ {0}, NEW r \in 0 .. n - 1
  PROVE  r % n = r
OBVIOUS

LEMMA OnceAround ==
  ASSUME NEW n \in Nat \ {0}, NEW a \in Int
  PROVE  (a + n) % n = a % n
<1> DEFINE k == a \div n
<1> DEFINE r == a % n
<1>1. a = n * k + r /\ k \in Int /\ r \in 0 .. n - 1
  BY Division
<1> HIDE DEF k, r
<1>2. a + n = n * (k + 1) + r
  BY <1>1
<1>3. (n * k + r) % n = r
  BY <1>1, Remainder
<1> DEFINE l == k + 1
<1>4. l \in Int
  BY <1>1
<1> HIDE DEF l
<1>5. (n * l + r) % n = r
  BY <1>1, <1>4, Remainder
<1> QED
  BY <1>1, <1>2, <1>3, <1>5 DEF l

(* The bytes of a word, taken round the end of VRAM.                        *)
LEMMA BytesOfWord ==
  ASSUME NEW u \in Int, NEW h \in {0, 1}
  PROVE  /\ (2 * u + h) % (2 * VramWords) = 2 * (u % VramWords) + h
         /\ u % VramWords \in 0 .. VramWords - 1
         /\ 2 * (u % VramWords) + h \in Bytes
<1>1. VramWords \in Nat \ {0}
  BY GspBusAssumption
<1> DEFINE k == u \div VramWords
<1> DEFINE r == u % VramWords
<1>2. u = VramWords * k + r /\ k \in Int /\ r \in 0 .. VramWords - 1
  BY <1>1, Division
<1> HIDE DEF k, r
<1> DEFINE n == 2 * VramWords
<1>3. 2 * u + h = n * k + (2 * r + h)
  BY <1>1, <1>2
<1>4. n \in Nat \ {0} /\ 2 * r + h \in 0 .. n - 1
  BY <1>1, <1>2
<1> DEFINE m == 2 * r + h
<1>5. (n * k + m) % n = m
  <2> HIDE DEF n, m
  <2>1. n \in Nat \ {0} /\ m \in 0 .. n - 1
    BY <1>4 DEF m
  <2> QED BY <1>2, <2>1, Remainder
<1>6. (2 * u + h) % n = 2 * r + h
  <2> HIDE DEF n
  <2> QED BY <1>3, <1>5
<1> QED
  BY <1>2, <1>4, <1>6 DEF r, Bytes

LEMMA WordIs ==
  ASSUME NEW v, NEW u \in Int, NEW h \in Both
  PROVE  WordAt(v, u)[h] = v[(2 * u + h - 1) % (2 * VramWords)]
<1>1. CASE h = 1
  <2>1. (2 * u + 0) % (2 * VramWords) = 2 * (u % VramWords) + 0
    BY BytesOfWord
  <2>2. 2 * u + h - 1 = 2 * u + 0 /\ u % VramWords \in 0 .. VramWords - 1
    BY <1>1, BytesOfWord
  <2>3. 2 * (u % VramWords) + 0 = 2 * (u % VramWords)
    BY <2>2, GspBusAssumption
  <2> QED BY <1>1, <2>1, <2>2, <2>3 DEF WordAt
<1>2. CASE h = 2
  <2>1. (2 * u + 1) % (2 * VramWords) = 2 * (u % VramWords) + 1
    BY BytesOfWord
  <2>2. 2 * u + h - 1 = 2 * u + 1
    BY <1>2
  <2> QED BY <1>2, <2>1, <2>2 DEF WordAt
<1> QED
  BY <1>1, <1>2 DEF Both

(* A row of n words lies in VRAM.                                           *)
LEMMA RowFits ==
  ASSUME NEW n \in Nat \ {0}, VramWords % n = 0, NEW u \in 0 .. VramWords - 1
  PROVE  (u \div n) * n \in Nat /\ (u \div n) * n + n <= VramWords
<1>1. VramWords \in Nat \ {0}
  BY GspBusAssumption
<1> DEFINE k == u \div n
<1> DEFINE m == VramWords \div n
<1>2. u = n * k + (u % n) /\ k \in Int /\ u % n \in 0 .. n - 1
  BY <1>1, Division
<1>3. VramWords = n * m /\ m \in Int
  BY <1>1, Division
<1> HIDE DEF k, m
<1>4. k \in Nat
  <2>1. SUFFICES ASSUME k <= -1 PROVE FALSE
    BY <1>2
  <2>2. n * k <= n * (-1)
    BY <1>2, <2>1
  <2> QED BY <1>2, <2>2
<1>5. k + 1 <= m
  <2>1. SUFFICES ASSUME m <= k PROVE FALSE
    BY <1>2, <1>3
  <2>2. n * m <= n * k
    BY <1>2, <1>3, <2>1
  <2> QED BY <1>2, <1>3, <2>2
<1>6. n * (k + 1) <= n * m
  BY <1>3, <1>4, <1>5
<1>7. n * (k + 1) = n * k + n /\ k * n = n * k /\ n * k \in Nat
  BY <1>4
<1> QED
  BY <1>3, <1>6, <1>7 DEF k

-----------------------------------------------------------------------------
(* What a transfer's target is, word by word.                               *)
Transfer == OfRow \/ OfShiftRegister
HeldVram == before.vram = [b \in Bytes |-> before.vram[b]]
WordMask(i) == (IF i = 0 THEN xf.be_first ELSE Both) \cap (IF i = srt_len - 1 THEN xf.be_last ELSE Both)
WordData(i) == IF xf.fill THEN xf.color ELSE rowbuf[i]

LEMMA RequestKinds ==
  ASSUME NEW r \in Requests
  PROVE  /\ r.row \in BOOLEAN
         /\ r.row => RowRequest(r)
         /\ ~r.row => WordRequest(r)
BY GspBusAssumption DEF RowRequest, WordRequest

LEMMA RowGeometry ==
  ASSUME req \in Requests, OfRow, srt_we \in BOOLEAN
  PROVE  /\ xf.src \in Nat /\ xf.dst \in Nat /\ srt_len \in Nat
         /\ xf.src = req.src \div 2 /\ xf.dst = req.dst \div 2
         /\ rc_ndw \in 1 .. ExpRow /\ xf.dst + rc_ndw <= VramWords
         /\ 2 * rc_ndw <= req.len + (req.dst % 2) + 1
         /\ 2 * rc_ndw >= req.len + (req.dst % 2)
         /\ xf.sh \in {0, 1, 2}
<1>1. RowRequest(req)
  BY RequestKinds DEF OfRow
<1>2. req.src \in Nat /\ req.dst \in Nat /\ req.len \in Nat \ {0} /\ req.dst + req.len <= 2 * VramWords
      /\ req.len + (req.dst % 2) <= 2 * ExpRow /\ VramWords \in Nat /\ ExpRow \in Nat
  BY <1>1, GspBusAssumption DEF RowRequest
<1>3. rc_ndw \in 1 .. ExpRow /\ 2 * rc_ndw <= req.len + (req.dst % 2) + 1 /\ 2 * rc_ndw >= req.len + (req.dst % 2)
      /\ (req.dst \div 2) + rc_ndw <= VramWords
  BY <1>2 DEF rc_ndw, rc_lastb
<1>4. xf.src = req.src \div 2 /\ xf.dst = req.dst \div 2 /\ xf.sh = rc_sh
  BY DEF OfRow
<1>5. rc_sh \in {0, 1, 2}
  BY DEF rc_sh
<1>6. srt_len \in Nat
  BY <1>3 DEF OfRow
<1> QED
  BY <1>2, <1>3, <1>4, <1>5, <1>6

LEMMA ShiftGeometry ==
  ASSUME req \in Requests, OfShiftRegister, before.srt_src \in Nat
  PROVE  /\ xf.src \in Nat /\ xf.dst \in Nat /\ srt_len \in 1 .. ExpRow /\ xf.dst + srt_len <= VramWords
         /\ xf.src = before.srt_src /\ xf.sh = 0 /\ xf.fill = FALSE /\ xf.transp = FALSE
         /\ xf.be_first = Both /\ xf.be_last = Both
         /\ xf.dst = Old!RowBase(req) /\ srt_len = Old!RowLength(req)
<1>1. WordRequest(req)
  BY RequestKinds DEF OfShiftRegister
<1>2. VramWords \in Nat \ {0} /\ SrtRow \in Nat \ {0} /\ ExpRow \in Nat \ {0} /\ SrtRow <= ExpRow
      /\ VramWords % SrtRow = 0 /\ VramWords % ExpRow = 0 /\ req.addr \in Nat
  BY <1>1, GspBusAssumption DEF WordRequest
<1>3. CASE req.region = "vram"
  <2>1. req.addr % VramWords \in 0 .. VramWords - 1
    BY <1>2
  <2> DEFINE u == req.addr % VramWords
  <2>2. (u \div SrtRow) * SrtRow \in Nat /\ (u \div SrtRow) * SrtRow + SrtRow <= VramWords
    <3> HIDE DEF u
    <3>1. u \in 0 .. VramWords - 1
      BY <2>1 DEF u
    <3> QED BY <1>2, <3>1, RowFits
  <2>3. xf.dst = (u \div SrtRow) * SrtRow /\ srt_len = SrtRow
    BY <1>3 DEF OfShiftRegister, RowName
  <2> QED BY <1>2, <1>3, <2>2, <2>3 DEF OfShiftRegister, Old!RowBase, Old!RowOf, Old!RowLength
<1>4. CASE req.region = "exp"
  <2>1. 4 * req.addr \in 0 .. VramWords - 1
    BY <1>1, <1>2, <1>4 DEF WordRequest
  <2> DEFINE u == 4 * req.addr
  <2>2. (u \div ExpRow) * ExpRow \in Nat /\ (u \div ExpRow) * ExpRow + ExpRow <= VramWords
    <3> HIDE DEF u
    <3>1. u \in 0 .. VramWords - 1
      BY <2>1 DEF u
    <3> QED BY <1>2, <3>1, RowFits
  <2>3. xf.dst = (u \div ExpRow) * ExpRow /\ srt_len = ExpRow
    BY <1>4 DEF OfShiftRegister, RowName
  <2>4. (4 * req.addr) % VramWords = 4 * req.addr
    BY <1>2, <2>1, SmallRemainder
  <2> QED BY <1>2, <1>4, <2>2, <2>3, <2>4 DEF OfShiftRegister, Old!RowBase, Old!RowOf, Old!RowLength
<1> QED
  BY <1>3, <1>4 DEF OfShiftRegister

(* A byte of VRAM and the word of the transfer it belongs to.               *)
LEMMA RowTarget ==
  ASSUME req \in Requests, OfRow, HeldVram, NEW b \in Bytes
  PROVE  Target[b] = IF b \in req.dst .. req.dst + req.len - 1
                        /\ ~(req.transp /\ (IF req.fill THEN req.color[1 + (b % 2)]
                                            ELSE before.vram[(req.src + b - req.dst) % (2 * VramWords)]) = 0)
                     THEN IF req.fill THEN req.color[1 + (b % 2)]
                          ELSE before.vram[(req.src + b - req.dst) % (2 * VramWords)]
                     ELSE before.vram[b]
<1>1. Target = Old!row_write(req)
  BY DEF Target, Old!After, OfRow
<1>2. DOMAIN before.vram = Bytes
  BY DEF HeldVram
<1> QED
  BY <1>1, <1>2 DEF Old!row_write

LEMMA ShiftTarget ==
  ASSUME req \in Requests, OfShiftRegister, HeldVram, NEW b \in Bytes
  PROVE  Target[b] = IF b \div 2 \in Old!RowBase(req) .. Old!RowBase(req) + Old!RowLength(req) - 1
                     THEN before.vram[(b + 2 * (VramWords + before.srt_src - Old!RowBase(req))) % (2 * VramWords)]
                     ELSE before.vram[b]
<1>1. Target = Old!srt_write(req)
  BY DEF Target, Old!After, OfShiftRegister
<1>2. DOMAIN before.vram = Bytes
  BY DEF HeldVram
<1> QED
  BY <1>1, <1>2 DEF Old!srt_write

LEMMA TransferTarget ==
  ASSUME req \in Requests, Transfer, HeldVram
  PROVE  Target = [b \in Bytes |-> Target[b]]
<1>1. DOMAIN before.vram = Bytes
  BY DEF HeldVram
<1>2. CASE OfRow
  <2>1. Target = Old!row_write(req)
    BY <1>2 DEF Target, Old!After, OfRow
  <2> QED BY <1>1, <2>1 DEF Old!row_write
<1>3. CASE OfShiftRegister
  <2>1. Target = Old!srt_write(req)
    BY <1>3 DEF Target, Old!After, OfShiftRegister
  <2> QED BY <1>1, <2>1 DEF Old!srt_write
<1> QED
  BY <1>2, <1>3 DEF Transfer

LEMMA TransferFits ==
  ASSUME req \in Requests, Transfer, before.srt_src \in Nat, srt_we \in BOOLEAN
  PROVE  /\ xf.src \in Nat /\ xf.dst \in Nat /\ srt_len \in Nat \ {0} /\ xf.sh \in {0, 1, 2}
         /\ srt_we \/ xf.sh # 1 => srt_len <= ExpRow /\ xf.dst + srt_len <= VramWords
         /\ srt_len <= ExpRow + 1
<1>1. CASE OfRow
  <2>1. srt_len = IF ~srt_we /\ xf.sh = 1 THEN rc_ndw + 1 ELSE rc_ndw
    BY <1>1 DEF OfRow
  <2> QED BY <1>1, <2>1, RowGeometry, GspBusAssumption
<1>2. CASE OfShiftRegister
  <2>1. xf.src \in Nat /\ xf.dst \in Nat /\ srt_len \in 1 .. ExpRow /\ xf.dst + srt_len <= VramWords /\ xf.sh = 0
    BY <1>2, ShiftGeometry
  <2> QED BY <2>1, Sizes
<1> QED
  BY <1>1, <1>2 DEF Transfer

LEMMA SourceOfRow ==
  ASSUME req \in Requests, OfRow, srt_we \in BOOLEAN, NEW i \in Nat, NEW h \in Both
  PROVE  req.src + (2 * (xf.dst + i) + h - 1) - req.dst = 2 * (xf.src + i) + h - 1 + Shift
<1>1. RowRequest(req)
  BY RequestKinds DEF OfRow
<1>2. req.src \in Nat /\ req.dst \in Nat
  BY <1>1, GspBusAssumption DEF RowRequest
<1>3. xf.src = req.src \div 2 /\ xf.dst = req.dst \div 2 /\ xf.sh = rc_sh
  BY DEF OfRow
<1>4. Shift = (req.src % 2) - (req.dst % 2)
  BY <1>2, <1>3 DEF Shift, rc_sh
<1>5. h \in Int
  BY DEF Both
<1>6. req.src = 2 * xf.src + (req.src % 2) /\ req.dst = 2 * xf.dst + (req.dst % 2)
      /\ xf.src \in Int /\ xf.dst \in Int /\ req.src % 2 \in Int /\ req.dst % 2 \in Int
  BY <1>2, <1>3
<1> QED
  BY <1>2, <1>4, <1>5, <1>6

LEMMA MaskOfRow ==
  ASSUME req \in Requests, OfRow, srt_we = TRUE, NEW i \in 0 .. srt_len - 1, NEW h \in Both
  PROVE  /\ 2 * (xf.dst + i) + h - 1 \in req.dst .. req.dst + req.len - 1 <=> h \in WordMask(i)
         /\ h \in WordMask(i) => HasSource(i, h)
<1>1. RowRequest(req)
  BY RequestKinds DEF OfRow
<1>2. req.src \in Nat /\ req.dst \in Nat /\ req.len \in Nat \ {0}
  BY <1>1, GspBusAssumption DEF RowRequest
<1>3. xf.dst = req.dst \div 2 /\ xf.sh = rc_sh /\ srt_len = rc_ndw
      /\ xf.be_first = (IF req.dst % 2 = 1 THEN {2} ELSE Both)
      /\ xf.be_last = (IF rc_lastb % 2 = 1 THEN Both ELSE {1})
  BY DEF OfRow
<1>4. rc_lastb \in Nat /\ rc_lastb = req.len + (req.dst % 2) - 1 /\ rc_ndw = (rc_lastb \div 2) + 1
  BY <1>2 DEF rc_lastb, rc_ndw
<1>5. i \in Nat /\ i <= rc_lastb \div 2
  BY <1>3, <1>4
<1>6. h \in WordMask(i) <=> (i = 0 /\ req.dst % 2 = 1 => h = 2) /\ (i = rc_lastb \div 2 /\ rc_lastb % 2 = 0 => h = 1)
  <2>1. i = srt_len - 1 <=> i = rc_lastb \div 2
    BY <1>3, <1>4, <1>5
  <2>2. h = 1 \/ h = 2
    BY DEF Both
  <2> QED BY <1>2, <1>3, <1>4, <1>5, <2>1, <2>2 DEF WordMask, Both
<1>7. 2 * (xf.dst + i) + h - 1 \in req.dst .. req.dst + req.len - 1 <=> h \in WordMask(i)
  <2>1. h = 1 \/ h = 2
    BY DEF Both
  <2>2. 2 * (xf.dst + i) = req.dst - (req.dst % 2) + 2 * i
    BY <1>2, <1>3, <1>5
  <2>3. req.dst + req.len - 1 = req.dst - (req.dst % 2) + rc_lastb
    BY <1>2, <1>4
  <2>4. rc_lastb = 2 * (rc_lastb \div 2) + (rc_lastb % 2) /\ rc_lastb % 2 \in {0, 1} /\ req.dst % 2 \in {0, 1}
        /\ rc_lastb \div 2 \in Nat
    BY <1>2, <1>4
  <2> DEFINE m == rc_lastb \div 2
  <2> DEFINE t == rc_lastb % 2
  <2> DEFINE d == req.dst % 2
  <2>5. 2 * (xf.dst + i) + h - 1 \in req.dst .. req.dst + req.len - 1 <=> d <= 2 * i + h - 1 /\ 2 * i + h - 1 <= 2 * m + t
    <3> DEFINE g == req.dst - (req.dst % 2)
    <3> DEFINE a == 2 * (xf.dst + i)
    <3> DEFINE z == req.dst + req.len - 1
    <3>1. g \in Int /\ a = g + 2 * i /\ z = g + 2 * m + t /\ req.dst = g + d /\ m \in Int /\ t \in Int /\ d \in Int
      BY <1>2, <2>2, <2>3, <2>4
    <3> HIDE DEF g, a, z, m, t, d
    <3>2. a + h - 1 \in req.dst .. z <=> d <= 2 * i + h - 1 /\ 2 * i + h - 1 <= 2 * m + t
      BY <1>2, <1>5, <2>1, <3>1
    <3> QED BY <3>2 DEF a, z
  <2>6. m \in Nat /\ t \in {0, 1} /\ d \in {0, 1} /\ i <= m
    BY <1>5, <2>4
  <2>7. h \in WordMask(i) <=> (i = 0 /\ d = 1 => h = 2) /\ (i = m /\ t = 0 => h = 1)
    BY <1>6
  <2> HIDE DEF m, t, d
  <2>8. d <= 2 * i + h - 1 /\ 2 * i + h - 1 <= 2 * m + t <=> (i = 0 /\ d = 1 => h = 2) /\ (i = m /\ t = 0 => h = 1)
    BY <1>5, <2>1, <2>6
  <2> QED BY <2>5, <2>7, <2>8
<1>8. h \in WordMask(i) => HasSource(i, h)
  <2>1. SUFFICES ASSUME h \in WordMask(i), i = 0, xf.sh = 2 PROVE h = 2
    BY <1>5 DEF HasSource
  <2>2. req.dst % 2 = 1
    BY <1>2, <1>3, <2>1 DEF rc_sh
  <2> QED BY <1>6, <2>1, <2>2
<1> QED
  BY <1>7, <1>8

(* Each byte of word i of a transfer: what is in the row buffer, where it   *)
(* is written; what was there, where it is not.                             *)
LEMMA TargetOfWord ==
  ASSUME req \in Requests, Transfer, HeldVram, before.srt_src \in Nat, srt_we = TRUE, xf.fill \in BOOLEAN,
         ~xf.fill => Gathered(srt_len),
         NEW i \in 0 .. srt_len - 1, NEW h \in Both,
         NEW b \in Bytes, b = 2 * (xf.dst + i) + h - 1
  PROVE  Target[b] = IF h \in WordMask(i) /\ (xf.transp => WordData(i)[h] # 0)
                     THEN WordData(i)[h] ELSE before.vram[b]
<1>1. xf.src \in Nat /\ xf.dst \in Nat /\ srt_len \in Nat /\ i \in Nat /\ srt_len <= ExpRow
  BY TransferFits
<1>2. h \in {1, 2} /\ 1 + (b % 2) = h /\ b \div 2 = xf.dst + i /\ b \in Nat
  <2> DEFINE u == xf.dst + i
  <2>1. u \in Nat /\ (h = 1 \/ h = 2) /\ b = 2 * u + h - 1
    BY <1>1 DEF Both
  <2> HIDE DEF u
  <2>2. h \in {1, 2}
    BY <2>1
  <2>3. 1 + ((2 * u + h - 1) % 2) = h /\ (2 * u + h - 1) \div 2 = u /\ 2 * u + h - 1 \in Nat
    BY <2>1, <2>2, HalvesOfWord
  <2> QED BY <2>1, <2>2, <2>3 DEF u
<1>3. CASE OfRow
  <2>1. xf.fill = req.fill /\ xf.color = req.color /\ xf.transp = req.transp
    BY <1>3 DEF OfRow
  <2>2. req.src + b - req.dst = 2 * (xf.src + i) + h - 1 + Shift
    BY <1>1, <1>3, SourceOfRow
  <2>3. b \in req.dst .. req.dst + req.len - 1 <=> h \in WordMask(i)
    BY <1>3, MaskOfRow
  <2>4. h \in WordMask(i) =>
          (IF req.fill THEN req.color[1 + (b % 2)] ELSE before.vram[(req.src + b - req.dst) % (2 * VramWords)])
          = WordData(i)[h]
    <3>1. SUFFICES ASSUME h \in WordMask(i), ~xf.fill
                   PROVE  before.vram[(req.src + b - req.dst) % (2 * VramWords)] = rowbuf[i][h]
      BY <1>2, <2>1 DEF WordData
    <3>2. HasSource(i, h)
      BY <1>3, <3>1, MaskOfRow
    <3>3. rowbuf[i][h] = SourceByte(i, h)
      BY <3>1, <3>2 DEF Gathered
    <3> QED BY <2>2, <3>3 DEF SourceByte
  <2>5. Target[b] = IF b \in req.dst .. req.dst + req.len - 1
                        /\ ~(req.transp /\ (IF req.fill THEN req.color[1 + (b % 2)]
                                            ELSE before.vram[(req.src + b - req.dst) % (2 * VramWords)]) = 0)
                     THEN IF req.fill THEN req.color[1 + (b % 2)]
                          ELSE before.vram[(req.src + b - req.dst) % (2 * VramWords)]
                     ELSE before.vram[b]
    BY <1>3, RowTarget
  <2> DEFINE px == IF req.fill THEN req.color[1 + (b % 2)]
                          ELSE before.vram[(req.src + b - req.dst) % (2 * VramWords)]
  <2>6. Target[b] = IF b \in req.dst .. req.dst + req.len - 1 /\ ~(req.transp /\ px = 0) THEN px ELSE before.vram[b]
    BY <2>5
  <2>7. h \in WordMask(i) => px = WordData(i)[h]
    BY <2>4
  <2> HIDE DEF px
  <2> QED BY <2>1, <2>3, <2>6, <2>7
<1>4. CASE OfShiftRegister
  <2>1. xf.src = before.srt_src /\ xf.sh = 0 /\ xf.fill = FALSE /\ xf.transp = FALSE
        /\ xf.be_first = Both /\ xf.be_last = Both /\ xf.dst = Old!RowBase(req) /\ srt_len = Old!RowLength(req)
    BY <1>4, ShiftGeometry
  <2>2. h \in WordMask(i) /\ WordData(i) = rowbuf[i] /\ HasSource(i, h)
    BY <2>1 DEF WordMask, WordData, HasSource
  <2>3. rowbuf[i][h] = SourceByte(i, h)
    BY <2>1, <2>2 DEF Gathered
  <2>4. b \div 2 \in xf.dst .. xf.dst + srt_len - 1
    BY <1>1, <1>2
  <2>5. Target[b] = before.vram[(b + 2 * (VramWords + before.srt_src - xf.dst)) % (2 * VramWords)]
    BY <1>4, <2>1, <2>4, ShiftTarget
  <2> DEFINE a == 2 * (xf.src + i) + h - 1 + Shift
  <2>6. b + 2 * (VramWords + before.srt_src - xf.dst) = a + 2 * VramWords /\ a \in Int
    <3>1. Shift = 0
      BY <2>1 DEF Shift
    <3>2. b = 2 * (xf.dst + i) + h - 1 /\ h \in Int /\ before.srt_src \in Nat /\ VramWords \in Nat
      BY <1>2, Sizes
    <3> QED BY <1>1, <2>1, <3>1, <3>2
  <2>7. (a + 2 * VramWords) % (2 * VramWords) = a % (2 * VramWords)
    <3> DEFINE n == 2 * VramWords
    <3>1. n \in Nat \ {0}
      BY GspBusAssumption
    <3> HIDE DEF n, a
    <3>2. (a + n) % n = a % n
      BY <2>6, <3>1, OnceAround
    <3> QED BY <3>2 DEF n
  <2>8. SourceByte(i, h) = before.vram[a % (2 * VramWords)]
    BY DEF SourceByte
  <2> HIDE DEF a
  <2> QED BY <2>1, <2>2, <2>3, <2>5, <2>6, <2>7, <2>8
<1> QED
  BY <1>3, <1>4 DEF Transfer

LEMMA TargetElsewhere ==
  ASSUME req \in Requests, Transfer, HeldVram, before.srt_src \in Nat, srt_we = TRUE,
         NEW b \in Bytes, b \div 2 \notin xf.dst .. xf.dst + srt_len - 1
  PROVE  Target[b] = before.vram[b]
<1>1. xf.dst \in Nat /\ srt_len \in Nat /\ b \in Nat
  BY TransferFits, GspBusAssumption DEF Bytes
<1>2. CASE OfRow
  <2>1. RowRequest(req)
    BY <1>2, RequestKinds DEF OfRow
  <2>2. req.dst \in Nat /\ req.len \in Nat \ {0}
    BY <2>1 DEF RowRequest
  <2>3. xf.dst = req.dst \div 2 /\ srt_len = rc_ndw /\ 2 * rc_ndw >= req.len + (req.dst % 2) /\ rc_ndw \in Nat
    BY <1>2, RowGeometry, GspBusAssumption DEF OfRow
  <2>4. b \notin req.dst .. req.dst + req.len - 1
    BY <1>1, <2>2, <2>3
  <2> QED BY <1>2, <2>4, RowTarget
<1>3. CASE OfShiftRegister
  BY <1>3, ShiftGeometry, ShiftTarget
<1> QED
  BY <1>2, <1>3 DEF Transfer

-----------------------------------------------------------------------------
(* The ports and the row buffer, by what the FSM waits for.                 *)
BusPorts == BusTypeOK /\ Handshake
BurstType == [phase : {"idle", "words", "closing", "told"}, issued : Nat, settled : BOOLEAN]

LEMMA PortsAtRest ==
  ASSUME BusPorts, Memory, RowBuffer, st \notin {"VRAM_WAIT", "EXP_WAIT", "SRT_BURST_WAIT"}
  PROVE  /\ vram' = vram /\ sd_ack' = FALSE /\ sb_done' = FALSE /\ arrived'.wr = FALSE
         /\ bp' \in BurstType /\ bp'.phase = "idle" /\ bp'.issued = 0
         /\ rowbuf' = rowbuf /\ xf_prev' = xf_prev
<1>1. bp \in BurstType
  BY DEF BusPorts, BusTypeOK, BurstType
<1>2. ~sd.req /\ ~sd_ack /\ ~sb.req /\ ~sb_done /\ ~arrived.wr /\ bp.issued = 0 /\ bp.phase \in {"idle", "told"}
      /\ st \in States
  BY DEF BusPorts, BusTypeOK, Handshake, RandomQuiet, BurstQuiet, States
<1>3. Rearms \/ (Waits /\ bp.phase = "idle")
  BY <1>2 DEF Memory, Progress, Serves, Accept, NextWord, Tells, Waits
<1>4. CASE Rearms
  BY <1>1, <1>2, <1>4 DEF Rearms, NoServe, NoWord, BurstType, RowBuffer
<1>5. CASE Waits /\ bp.phase = "idle"
  BY <1>1, <1>2, <1>5 DEF Waits, NoServe, NoWord, BurstType, RowBuffer
<1> QED
  BY <1>3, <1>4, <1>5

LEMMA RandomPort ==
  ASSUME BusPorts, Memory, RowBuffer, st \in {"VRAM_WAIT", "EXP_WAIT"}
  PROVE  /\ sb_done' = FALSE /\ arrived'.wr = FALSE /\ bp' \in BurstType /\ bp'.phase = "idle" /\ bp'.issued = 0
         /\ rowbuf' = rowbuf /\ xf_prev' = xf_prev
         /\ \/ /\ ~sd_ack /\ sd_ack' = TRUE /\ sd_rdata' = WordAt(vram, sd.addr)
               /\ vram' = IF sd.we THEN Put(vram, sd.addr, sd.data, sd.be) ELSE vram
            \/ sd_ack' = FALSE /\ sd_rdata' = sd_rdata /\ vram' = vram
<1>1. bp \in BurstType
  BY DEF BusPorts, BusTypeOK, BurstType
<1>2. ~sb.req /\ ~sb_done /\ ~arrived.wr /\ bp.issued = 0 /\ bp.phase = "idle"
  BY DEF BusPorts, BusTypeOK, Handshake, BurstQuiet
<1>3. Serves \/ Waits
  BY <1>2 DEF Memory, Progress, Accept, NextWord, Tells, Rearms
<1>4. CASE Serves
  BY <1>1, <1>2, <1>4 DEF Serves, NoWord, RowBuffer
<1>5. CASE Waits
  BY <1>1, <1>2, <1>5 DEF Waits, NoServe, NoWord, BurstType, RowBuffer
<1> QED
  BY <1>3, <1>4, <1>5

(* What a clock of a burst does to the memory and to what has arrived.      *)
LEMMA BurstPort ==
  ASSUME BusPorts, Memory, st = "SRT_BURST_WAIT"
  PROVE  /\ sd_ack' = FALSE /\ bp' \in BurstType
         /\ bp.phase = "told" => Waits
         /\ Accept \/ NextWord \/ Tells \/ Waits
<1>1. bp \in BurstType
  BY DEF BusPorts, BusTypeOK, BurstType
<1>2. ~sd.req /\ sb.req
  BY DEF BusPorts, Handshake, RandomQuiet, Bursting
<1>3. Accept \/ NextWord \/ Tells \/ Waits
  BY <1>2 DEF Memory, Progress, Serves, Rearms
<1>4. bp.phase = "told" => Waits
  BY <1>1, <1>3 DEF Accept, NextWord, Tells
<1>5. sd_ack' = FALSE
  BY <1>3 DEF Accept, NextWord, Tells, Waits, NoServe
<1>6. bp' \in BurstType
  <2>1. CASE Accept
    BY <2>1 DEF Accept, BurstType
  <2>2. CASE NextWord
    BY <1>1, <2>2 DEF NextWord, BurstType
  <2>3. CASE Tells
    BY <1>1, <2>3 DEF Tells, BurstType
  <2>4. CASE Waits
    BY <1>1, <2>4 DEF Waits, BurstType
  <2> QED BY <1>3, <2>1, <2>2, <2>3, <2>4
<1> QED
  BY <1>3, <1>4, <1>5, <1>6

-----------------------------------------------------------------------------
(* The request and the mapping to the abstract memory.                      *)
LEMMA NotNone ==
  ASSUME NEW r \in Requests
  PROVE  r # None
BY GspBusAssumption DEF None

LEMMA TargetStays ==
  ASSUME req' = req, before' = before
  PROVE  Target' = Target
BY DEF Target, Old!After, Old!row_write, Old!srt_write, Old!RowBase, Old!RowLength, Old!RowOf, Old!expander_write

(* The request is held while it is served.                                  *)
LEMMA HoldsRequest ==
  ASSUME BusPorts, Requester, st # "IDLE" \/ Takes
  PROVE  req \in Requests /\ req # None /\ ~ack /\ req' = req /\ todo' = todo
BY NotNone DEF BusPorts, BusTypeOK, Handshake, Requester, Takes, core

(* Inside a request the abstract memory stutters.                           *)
LEMMA Inside ==
  ASSUME BusPorts, Requester, History, st # "IDLE" \/ Takes, ack' = FALSE, st' # "IDLE"
  PROVE  UNCHANGED Mem!vars
<1>1. req \in Requests /\ req # None /\ ack = FALSE /\ req' = req
  BY HoldsRequest DEF BusPorts, BusTypeOK
<1>2. Seen' = Seen
  BY DEF Seen, History
<1>3. memport' = memport
  BY <1>1 DEF memport
<1> QED
  BY <1>2, <1>3 DEF Mem!vars, Mem!state


(* The abstract memory answers: its effect, and the word read.              *)
LEMMA Responds ==
  ASSUME req \in Requests, req # None, req' = req, ack = FALSE, ack' = TRUE,
         \/ req.row /\ Seen.vram' = Mem!After(req) /\ UNCHANGED <<Seen.srt_src, Mem!Latches>>
         \/ ~req.row /\ req.we /\ Mem!mem_write(req)
         \/ /\ ~req.row /\ ~req.we /\ rdata' = Mem!mem_read(req)
            /\ Seen.srt_src' = (IF req.srt THEN Mem!RowBase(req) ELSE Seen.srt_src)
            /\ UNCHANGED <<Seen.vram, Mem!Latches>>
  PROVE  Mem!Next
<1> DEFINE reply == IF ~req.row /\ ~req.we THEN rdata' ELSE <<>>
<1>1. memport = [phase |-> "asked", r |-> req, rdata |-> <<>>]
  BY DEF memport
<1>2. memport' = [phase |-> "acked", r |-> req, rdata |-> reply]
  BY DEF memport
<1>3. reply = Mem!Answered(req)
  <2>1. CASE req.row
    BY <2>1 DEF Mem!Answered, Mem!NoAnswer
  <2>2. CASE ~req.row /\ req.we
    BY <2>2 DEF Mem!Answered, Mem!NoAnswer
  <2>3. CASE ~req.row /\ ~req.we
    <3>1. rdata' = Mem!mem_read(req)
      BY <2>3
    <3> QED BY <2>3, <3>1 DEF Mem!Answered
  <2> QED BY <2>1, <2>2, <2>3
<1> HIDE DEF reply
<1>4. memport.r = req /\ memport.phase = "asked"
  BY <1>1
<1>5. Mem!Respond
  BY <1>2, <1>3, <1>4 DEF Mem!Respond
<1> QED
  BY <1>5 DEF Mem!Next

LEMMA SeenMidway ==
  ASSUME st # "IDLE"
  PROVE  Seen = before /\ Mem!After(req) = Target
<1>1. Seen = before
  BY DEF Seen
<1> QED
  BY <1>1 DEF Target, Mem!After, Mem!row_write, Mem!srt_write, Mem!RowBase, Mem!RowLength, Mem!RowOf,
              Mem!expander_write, Old!After, Old!row_write, Old!srt_write, Old!RowBase, Old!RowLength,
              Old!RowOf, Old!expander_write

LEMMA SeenAtEnd ==
  ASSUME st' = "IDLE"
  PROVE  /\ Seen.vram' = vram' /\ Seen.lo' = lo' /\ Seen.hi' = hi' /\ Seen.pal' = pal'
         /\ Seen.palbank' = palbank' /\ Seen.finescroll' = finescroll'
         /\ Seen.srt_enable' = srt_enable' /\ Seen.srt_src' = srt_src'
<1>1. Seen' = Snapshot'
  BY DEF Seen
<1> QED
  BY <1>1 DEF Snapshot

LEMMA SeenAtStart ==
  ASSUME st = "IDLE"
  PROVE  /\ Seen.vram = vram /\ Seen.lo = lo /\ Seen.hi = hi /\ Seen.pal = pal
         /\ Seen.palbank = palbank /\ Seen.finescroll = finescroll
         /\ Seen.srt_enable = srt_enable /\ Seen.srt_src = srt_src
BY DEF Seen, Snapshot

(* A request that writes VRAM is over.                                      *)
LEMMA WroteVram ==
  ASSUME req \in Requests, req # None, req' = req, ack = FALSE, ack' = TRUE, st # "IDLE", st' = "IDLE",
         Latched', before' = before, vram' = Target,
         req.row \/ (~req.row /\ req.we /\ req.region \in {"vram", "exp"})
  PROVE  Mem!Next
<1>1. Seen.vram' = Mem!After(req)
  BY SeenMidway, SeenAtEnd
<1>2. UNCHANGED <<Seen.srt_src, Mem!Latches>>
  BY SeenMidway, SeenAtEnd DEF Latched, Mem!Latches
<1>3. ~req.row => Mem!mem_write(req)
  BY <1>1, <1>2 DEF Mem!mem_write
<1> QED
  BY <1>1, <1>2, <1>3, Responds

LEMMA ReadVram ==
  ASSUME req \in Requests, req # None, req' = req, ack = FALSE, ack' = TRUE, st # "IDLE", st' = "IDLE",
         Latched', before' = before, vram' = before.vram, rdata' = WordAt(before.vram, req.addr),
         req.row = FALSE, req.we = FALSE, req.srt = FALSE, req.region = "vram"
  PROVE  Mem!Next
<1>1. UNCHANGED <<Seen.vram, Seen.srt_src, Mem!Latches>>
  BY SeenMidway, SeenAtEnd DEF Latched, Mem!Latches
<1>2. Mem!mem_read(req) = WordAt(before.vram, req.addr)
  BY SeenMidway DEF Mem!mem_read, Mem!WordAt, WordAt
<1> QED
  BY <1>1, <1>2, Responds

-----------------------------------------------------------------------------
(* The parts of a clock besides the FSM.                                    *)
Around == Requester /\ Palette /\ RowBuffer /\ Memory /\ History
Answers == Mem!Next \/ UNCHANGED Mem!vars

(* Nothing is under way after a clock that ends in IDLE.                    *)
LEMMA EndsIdle ==
  ASSUME BusTypeOK', st' = "IDLE", pal_we' = None, RandomQuiet', BurstQuiet', bp'.issued = 0,
         bp'.phase \in {"idle", "told"}, ack' => req' # None, ~ack' => bp'.phase = "idle"
  PROVE  BusInv'
<1>1. Handshake'
  BY DEF Handshake
<1>2. Holding' /\ RegisterInv' /\ VramInv' /\ ExpanderInv' /\ TransferInv'
  BY DEF Holding, RegisterInv, VramInv, ExpanderInv, TransferInv, Moving
<1> QED
  BY <1>1, <1>2 DEF BusInv

(* What surrounds the FSM while it is idle.                                 *)
LEMMA IdleFrame ==
  ASSUME BusInv, Around, st = "IDLE"
  PROVE  /\ vram' = vram /\ pal' = pal /\ sd_ack' = FALSE /\ sb_done' = FALSE /\ arrived'.wr = FALSE
         /\ bp' \in BurstType /\ bp'.phase = "idle" /\ bp'.issued = 0
         /\ rowbuf' = rowbuf /\ xf_prev' = xf_prev
         /\ before' = Snapshot
         /\ RandomQuiet /\ BurstQuiet /\ pal_we = None
<1>1. BusPorts
  BY DEF BusInv, BusPorts
<1>2. RandomQuiet /\ BurstQuiet /\ pal_we = None
  BY DEF BusInv, Handshake
<1> QED
  BY <1>1, <1>2, PortsAtRest DEF Around, Palette, History

LEMMA RequesterTypes ==
  ASSUME BusTypeOK, Requester
  PROVE  todo' \in Seq(Requests) /\ req' \in Requests \cup {None}
<1>1. CASE req = None /\ todo # <<>> /\ req' = Head(todo) /\ todo' = Tail(todo)
  BY <1>1 DEF BusTypeOK
<1>2. CASE req # None /\ ack /\ req' = None /\ UNCHANGED todo
  BY <1>2 DEF BusTypeOK
<1>3. CASE UNCHANGED core
  BY <1>3 DEF BusTypeOK, core
<1> QED
  BY <1>1, <1>2, <1>3 DEF Requester

(* An answer in the clock that takes the request.                           *)
LEMMA AnswersAtOnce ==
  ASSUME BusInv, Around, IdleSrtRead \/ IdleSrtOff \/ (IdleExpander /\ ~req.we) \/ IdleUnmapped
  PROVE  BusInv' /\ Answers
<1>1. BusTypeOK /\ Takes /\ st = "IDLE" /\ ~req.row /\ st' = "IDLE" /\ ack' = TRUE /\ pal_we' = None
      /\ UNCHANGED <<lo, hi, palbank, finescroll, srt_enable, transfer, sd, sb>>
  BY DEF BusInv, IdleSrtRead, IdleSrtOff, IdleExpander, IdleUnmapped, IsSrt, IsPlain, Takes, Ack, Turns
<1>2. req \in Requests /\ req # None /\ ack = FALSE /\ req' = req /\ todo' = todo
  BY <1>1, HoldsRequest DEF BusInv, BusPorts, Around, BusTypeOK
<1>3. WordRequest(req) /\ req.row = FALSE
  BY <1>1, <1>2, RequestKinds
<1>4. srt_src' = IF IdleSrtRead THEN RowName ELSE srt_src
  BY DEF IdleSrtRead, IdleSrtOff, IdleExpander, IdleUnmapped, IsSrt, IsPlain
<1>5. IdleSrtRead => req.region \in {"vram", "exp"} /\ req.srt /\ ~req.we /\ RowName = Mem!RowBase(req)
                     /\ RowName \in Nat /\ rdata' = <<0, 0>>
  <2>1. SUFFICES ASSUME IdleSrtRead PROVE req.region \in {"vram", "exp"} /\ req.srt /\ ~req.we
                 /\ RowName = Mem!RowBase(req) /\ RowName \in Nat /\ rdata' = <<0, 0>>
    OBVIOUS
  <2>2. req.region \in {"vram", "exp"} /\ req.srt /\ ~req.we /\ rdata' = <<0, 0>>
    BY <2>1 DEF IdleSrtRead, IsSrt, Ack
  <2>3. RowName = Mem!RowBase(req) /\ RowName \in Nat
    <3>1. VramWords % SrtRow = 0 /\ VramWords % ExpRow = 0 /\ req.addr \in Nat
      BY <1>3, GspBusAssumption DEF WordRequest
    <3>2. CASE req.region = "vram"
      <4> DEFINE u == req.addr % VramWords
      <4>1. u \in 0 .. VramWords - 1
        BY <3>1, Sizes
      <4>2. RowName = (u \div SrtRow) * SrtRow /\ Mem!RowBase(req) = (u \div SrtRow) * SrtRow
        BY <3>2 DEF RowName, Mem!RowBase, Mem!RowOf
      <4> HIDE DEF u
      <4>3. (u \div SrtRow) * SrtRow \in Nat
        BY <3>1, <4>1, RowFits, Sizes
      <4> QED BY <4>2, <4>3
    <3>3. CASE req.region = "exp"
      <4> DEFINE u == 4 * req.addr
      <4>1. u \in 0 .. VramWords - 1
        BY <1>3, <3>3, Sizes DEF WordRequest
      <4>2. u % VramWords = u
        <5> HIDE DEF u
        <5> QED BY <4>1, Sizes, SmallRemainder
      <4>3. RowName = (u \div ExpRow) * ExpRow /\ Mem!RowBase(req) = (u \div ExpRow) * ExpRow
        BY <3>3, <4>2 DEF RowName, Mem!RowBase, Mem!RowOf
      <4> HIDE DEF u
      <4>4. (u \div ExpRow) * ExpRow \in Nat
        BY <3>1, <4>1, RowFits, Sizes
      <4> QED BY <4>3, <4>4
    <3> QED BY <2>2, <3>2, <3>3
  <2> QED BY <2>2, <2>3
<1>6. BusInv'
  <2>1. BusTypeOK'
    BY <1>1, <1>2, <1>4, <1>5, IdleFrame DEF BusTypeOK, States, BurstType, transfer, RandomQuiet, BurstQuiet
  <2> QED BY <1>1, <1>2, <2>1, IdleFrame, EndsIdle DEF RandomQuiet, BurstQuiet
<1>7. UNCHANGED <<Seen.vram, Mem!Latches>> /\ Seen.srt_src' = srt_src' /\ Seen.srt_src = srt_src
      /\ Seen.srt_enable = srt_enable
  BY <1>1, IdleFrame, SeenAtStart, SeenAtEnd DEF Mem!Latches
<1>8. CASE IdleSrtRead
  <2>1. Mem!mem_read(req) = <<0, 0>>
    BY <1>5, <1>8 DEF Mem!mem_read, Mem!Zero
  <2> QED BY <1>1, <1>2, <1>4, <1>5, <1>6, <1>7, <1>8, <2>1, Responds DEF Answers
<1>9. CASE ~IdleSrtRead /\ req.we
  <2>1. Mem!After(req) = Seen.vram \/ req.region \notin {"vram", "exp"}
    <3>1. CASE IdleSrtOff
      <4>1. req.srt /\ ~Seen.srt_enable /\ ~req.row
        BY <1>1, <1>7, <3>1 DEF IdleSrtOff, IsSrt
      <4> QED BY <4>1 DEF Mem!After
    <3>2. CASE IdleUnmapped
      BY <3>2 DEF IdleUnmapped, IsPlain
    <3> QED BY <1>9, <3>1, <3>2
  <2>2. req.region \in {"vram", "exp", "none"}
    BY <1>9 DEF IdleSrtOff, IdleUnmapped, IsSrt, IsPlain
  <2>3. UNCHANGED Mem!state
    BY <1>4, <1>7, <1>9 DEF Mem!state, Mem!Latches
  <2>4. Mem!mem_write(req)
    BY <1>7, <2>1, <2>2, <2>3 DEF Mem!mem_write, Mem!state
  <2> QED BY <1>1, <1>2, <1>6, <1>9, <2>4, Responds DEF Answers
<1>10. CASE ~IdleSrtRead /\ ~req.we
  <2>1. CASE IdleExpander
    <3>1. req.region = "exp" /\ ~req.srt /\ rdata' = <<0, 0>>
      BY <1>10, <2>1 DEF IdleExpander, IsPlain, Ack
    <3>2. Mem!mem_read(req) = <<0, 0>>
      BY <3>1 DEF Mem!mem_read, Mem!Zero
    <3> QED BY <1>1, <1>2, <1>4, <1>6, <1>7, <1>10, <3>1, <3>2, Responds DEF Answers
  <2>2. CASE IdleUnmapped
    <3>1. req.region = "none" /\ rdata' = <<255, 255>>
      BY <2>2 DEF IdleUnmapped, IsPlain, Ack
    <3>2. ~req.srt
      BY <1>3, <3>1 DEF WordRequest
    <3>3. Mem!mem_read(req) = <<255, 255>>
      BY <3>1, <3>2 DEF Mem!mem_read, Mem!Ones
    <3> QED BY <1>1, <1>2, <1>4, <1>6, <1>7, <1>10, <3>1, <3>2, <3>3, Responds DEF Answers
  <2>3. ~IdleSrtOff
    BY <1>10 DEF IdleSrtOff, IsSrt
  <2> QED BY <1>10, <2>1, <2>2, <2>3
<1> QED
  BY <1>8, <1>9, <1>10

LEMMA Rests ==
  ASSUME BusInv, Around, IdleRest
  PROVE  BusInv' /\ Answers
<1>1. st = "IDLE" /\ st' = "IDLE" /\ ~Takes /\ ack' = FALSE /\ pal_we' = None
      /\ UNCHANGED <<lo, hi, palbank, finescroll, srt_enable, srt_src, transfer, sd, sb>>
  BY DEF IdleRest, NoAck
<1>2. todo' \in Seq(Requests) /\ req' \in Requests \cup {None}
  BY RequesterTypes DEF BusInv, Around
<1>3. BusInv'
  <2>1. BusTypeOK'
    BY <1>1, <1>2, IdleFrame DEF BusInv, BusTypeOK, States, BurstType, transfer, RandomQuiet, BurstQuiet
  <2> QED BY <1>1, <2>1, IdleFrame, EndsIdle DEF RandomQuiet, BurstQuiet
<1>4. Seen' = Seen
  BY <1>1, IdleFrame DEF Seen, Snapshot
<1>5. CASE req = None
  <2>1. memport = Mem!Idle
    BY <1>5 DEF memport, Mem!Idle, Mem!NoAnswer
  <2>2. CASE req' = None
    <3>1. memport' = memport
      BY <1>5, <2>2 DEF memport
    <3> QED BY <1>3, <1>4, <3>1 DEF Answers, Mem!vars, Mem!state
  <2>3. CASE req' # None
    <3>1. memport' = [phase |-> "asked", r |-> req', rdata |-> <<>>] /\ req' \in Requests
      BY <1>1, <1>2, <2>3 DEF memport
    <3>2. Mem!Ask
      BY <1>4, <2>1, <3>1 DEF Mem!Ask, Mem!Idle, Mem!NoAnswer, Mem!state
    <3> QED BY <1>3, <3>2 DEF Answers, Mem!Next
  <2> QED BY <2>2, <2>3
<1>6. CASE req # None
  <2>1. ack = TRUE
    BY <1>1, <1>6 DEF Takes, BusInv, BusTypeOK
  <2>2. req' = None
    BY <1>6, <2>1 DEF Around, Requester
  <2>3. memport' = Mem!Idle /\ memport.phase = "acked"
    BY <1>6, <2>1, <2>2 DEF memport, Mem!Idle, Mem!NoAnswer
  <2>4. Mem!Release
    BY <1>4, <2>3 DEF Mem!Release, Mem!state
  <2> QED BY <1>3, <2>4 DEF Answers, Mem!Next
<1> QED
  BY <1>5, <1>6

(* A request is taken: the latches and VRAM are remembered as they are.     *)
LEMMA TakesRequest ==
  ASSUME BusInv, Around, Takes, ack' = FALSE, st' # "IDLE"
  PROVE  /\ req \in Requests /\ req' = req /\ req' # None /\ todo' = todo
         /\ before'.vram = vram /\ before'.lo = lo /\ before'.hi = hi /\ before'.pal = pal
         /\ before'.palbank = palbank /\ before'.finescroll = finescroll
         /\ before'.srt_enable = srt_enable /\ before'.srt_src = srt_src
         /\ vram' = [b \in Bytes |-> vram'[b]] /\ before'.vram = [b \in Bytes |-> before'.vram[b]]
         /\ before'.palbank \in Nat /\ before'.srt_src \in Nat /\ before'.srt_enable \in BOOLEAN
         /\ UNCHANGED Mem!vars
<1>1. st = "IDLE" /\ BusTypeOK /\ BusPorts
  BY DEF Takes, BusInv, BusPorts
<1>2. req \in Requests /\ req' = req /\ req' # None /\ todo' = todo
  BY <1>1, HoldsRequest DEF Around
<1>3. before' = Snapshot /\ vram' = vram
  BY <1>1, IdleFrame
<1>4. UNCHANGED Mem!vars
  BY <1>1, Inside DEF Around
<1> QED
  BY <1>1, <1>2, <1>3, <1>4 DEF Snapshot, BusTypeOK

LEMMA TakesRegister ==
  ASSUME BusInv, Around, IdleLo \/ IdleHi \/ IdlePalette
  PROVE  BusInv' /\ Answers
<1>1. BusTypeOK /\ Takes /\ st = "IDLE" /\ ~req.row /\ st' = "REG_RD" /\ ack' = FALSE
      /\ UNCHANGED <<srt_src, exp, transfer, sd, sb>>
  BY DEF BusInv, IdleLo, IdleHi, IdlePalette, IsPlain, Takes, Register, Turns, NoAck
<1>2. req \in Requests /\ req' = req /\ req' # None /\ todo' = todo /\ UNCHANGED Mem!vars
  BY <1>1, TakesRequest
<1>3. WordRequest(req) /\ req.row = FALSE
  BY <1>1, <1>2, RequestKinds
<1>4. req.region \in {"clo", "chi", "plo", "phi"} /\ ~req.srt
  BY <1>3 DEF IdleLo, IdleHi, IdlePalette, IsPlain, WordRequest
<1>5. palbank' \in Nat /\ srt_enable' \in BOOLEAN
  <2>1. req.addr \in Nat /\ palbank \in Nat /\ srt_enable \in BOOLEAN
    BY <1>1, <1>3 DEF WordRequest, BusTypeOK
  <2>2. CASE IdleLo \/ IdlePalette
    BY <2>1, <2>2 DEF IdleLo, IdlePalette
  <2>3. CASE IdleHi
    <3> DEFINE val == req.addr \div 8
    <3> DEFINE sel == IF req.we THEN req.addr % 8 ELSE 8
    <3>1. srt_enable' = (IF sel = 0 THEN val = 1 ELSE srt_enable)
          /\ palbank' = (CASE sel = 2 -> 2 * (palbank \div 2) + val
                         [] sel = 3 -> (palbank % 2) + 2 * val
                         [] OTHER -> palbank)
      BY <2>3 DEF IdleHi
    <3>2. val \in Nat /\ 2 * (palbank \div 2) \in Nat /\ palbank % 2 \in Nat
      BY <2>1
    <3> HIDE DEF val, sel
    <3>3. palbank' \in Nat
      BY <2>1, <3>1, <3>2
    <3>4. srt_enable' \in BOOLEAN
      BY <2>1, <3>1
    <3> QED BY <3>3, <3>4
  <2> QED BY <2>2, <2>3
<1>6. BusTypeOK'
  BY <1>1, <1>2, <1>5, IdleFrame DEF BusTypeOK, States, BurstType, transfer, RandomQuiet, BurstQuiet
<1>7. Handshake'
  BY <1>1, <1>2, IdleFrame DEF Handshake, RandomQuiet, BurstQuiet
<1>8. Holding'
  BY <1>1, TakesRequest DEF Holding
<1>9. RegisterInv'
  <2>1. Plain' /\ vram' = before'.vram /\ pal' = before'.pal /\ srt_src' = before'.srt_src
    BY <1>1, <1>2, <1>3, TakesRequest, IdleFrame DEF Plain
  <2>2. CASE req.region = "clo"
    <3>1. IdleLo
      BY <2>2 DEF IdleLo, IdleHi, IdlePalette, IsPlain
    <3>2. LoTaken'
      BY <1>1, <1>2, <3>1, TakesRequest DEF IdleLo, LoTaken
    <3> QED BY <1>2, <1>4, <2>1, <2>2, <3>2 DEF RegisterInv
  <2>3. CASE req.region = "chi"
    <3>1. IdleHi
      BY <2>3 DEF IdleLo, IdleHi, IdlePalette, IsPlain
    <3> DEFINE val == req.addr \div 8
    <3> DEFINE sel == req.addr % 8
    <3>2. sel # 8
      BY <1>3 DEF WordRequest
    <3>3. hi' = (IF req.we THEN [hi EXCEPT ![req.addr] = req.data] ELSE hi) /\ q' = hi[req.addr] /\ lo' = lo /\ pal_we' = None
      BY <3>1 DEF IdleHi
    <3>4. /\ srt_enable' = (IF (IF req.we THEN sel ELSE 8) = 0 THEN val = 1 ELSE srt_enable)
          /\ finescroll' = (IF (IF req.we THEN sel ELSE 8) = 1 THEN req.data[1] % 8 ELSE finescroll)
          /\ palbank' = (CASE (IF req.we THEN sel ELSE 8) = 2 -> 2 * (palbank \div 2) + val
                          [] (IF req.we THEN sel ELSE 8) = 3 -> (palbank % 2) + 2 * val
                          [] OTHER -> palbank)
      BY <3>1 DEF IdleHi
    <3>5. 2 * (palbank \div 2) = palbank - (palbank % 2)
      <4>1. palbank \in Nat
        BY <1>1 DEF BusTypeOK
      <4> QED BY <4>1
    <3>6. req.we \in BOOLEAN
      BY <1>3 DEF WordRequest
    <3>7. /\ srt_enable' = (IF req.we /\ sel = 0 THEN val = 1 ELSE srt_enable)
          /\ finescroll' = (IF req.we /\ sel = 1 THEN req.data[1] % 8 ELSE finescroll)
          /\ palbank' = (CASE req.we /\ sel = 2 -> palbank - (palbank % 2) + val
                          [] req.we /\ sel = 3 -> (palbank % 2) + 2 * val
                          [] OTHER -> palbank)
      <4> HIDE DEF val, sel
      <4>1. CASE req.we
        <5>1. (IF req.we THEN sel ELSE 8) = sel
          BY <4>1
        <5> QED BY <3>4, <3>5, <4>1, <5>1
      <4>2. CASE ~req.we
        <5>1. (IF req.we THEN sel ELSE 8) = 8
          BY <4>2
        <5> QED BY <3>4, <4>2, <5>1
      <4> QED BY <4>1, <4>2
    <3>8. HiTaken'
      BY <1>1, <1>2, <3>3, <3>7, TakesRequest DEF HiTaken
    <3> QED BY <1>2, <1>4, <2>1, <2>3, <3>8 DEF RegisterInv
  <2>4. CASE req.region \in {"plo", "phi"}
    <3>1. IdlePalette
      BY <2>4 DEF IdleLo, IdleHi, IdlePalette, IsPlain
    <3>2. PaletteTaken'
      BY <1>1, <1>2, <3>1, TakesRequest DEF IdlePalette, IsPlain, pal_idx, PaletteTaken
    <3> QED BY <1>2, <1>4, <2>1, <2>4, <3>2 DEF RegisterInv
  <2> QED BY <1>4, <2>2, <2>3, <2>4
<1>10. VramInv' /\ ExpanderInv' /\ TransferInv'
  BY <1>1 DEF VramInv, ExpanderInv, TransferInv, Moving
<1> QED
  BY <1>2, <1>6, <1>7, <1>8, <1>9, <1>10 DEF BusInv, Answers

LEMMA TakesVram ==
  ASSUME BusInv, Around, IdleVram
  PROVE  BusInv' /\ Answers
<1>1. BusTypeOK /\ Takes /\ st = "IDLE" /\ ~req.row /\ req.region = "vram" /\ ~req.srt
      /\ st' = "VRAM_WAIT" /\ ack' = FALSE /\ pal_we' = None
      /\ sd' = [req |-> TRUE, we |-> req.we, addr |-> req.addr, data |-> req.data, be |-> Both]
      /\ UNCHANGED <<lo, hi, palbank, finescroll, srt_enable, srt_src, transfer, sb>>
  BY DEF BusInv, IdleVram, IsPlain, Takes, Turns, NoAck
<1>2. req \in Requests /\ req' = req /\ req' # None /\ todo' = todo /\ UNCHANGED Mem!vars
  BY <1>1, TakesRequest
<1>3. req.row = FALSE
  BY <1>1, <1>2, RequestKinds
<1>4. BusTypeOK'
  BY <1>1, <1>2, IdleFrame DEF BusTypeOK, States, BurstType, transfer, BurstQuiet
<1>5. Handshake'
  BY <1>1, <1>2, IdleFrame DEF Handshake, BurstQuiet
<1>6. Holding'
  BY <1>1, TakesRequest, IdleFrame DEF Holding, Latched
<1>7. VramInv'
  BY <1>1, <1>2, <1>3, TakesRequest, IdleFrame DEF VramInv, Plain
<1>8. RegisterInv' /\ ExpanderInv' /\ TransferInv'
  BY <1>1 DEF RegisterInv, ExpanderInv, TransferInv, Moving
<1> QED
  BY <1>2, <1>4, <1>5, <1>6, <1>7, <1>8 DEF BusInv, Answers

LEMMA TakesExpander ==
  ASSUME BusInv, Around, IdleExpander, req.we
  PROVE  BusInv' /\ Answers
<1>1. BusTypeOK /\ Takes /\ st = "IDLE" /\ ~req.row /\ req.region = "exp" /\ ~req.srt
      /\ st' = "EXP0" /\ ack' = FALSE /\ pal_we' = None
      /\ exp' = [n |-> 0, mask |-> req.data, color |-> lo[0], base |-> 4 * req.addr]
      /\ UNCHANGED <<lo, hi, palbank, finescroll, srt_enable, srt_src, transfer, sd, sb>>
  BY DEF BusInv, IdleExpander, IsPlain, Takes, Turns, NoAck
<1>2. req \in Requests /\ req' = req /\ req' # None /\ todo' = todo /\ UNCHANGED Mem!vars
  BY <1>1, TakesRequest
<1>3. req.row = FALSE /\ req.data \subseteq 0 .. 7
  BY <1>1, <1>2, RequestKinds DEF WordRequest
<1>4. BusTypeOK'
  BY <1>1, <1>2, IdleFrame DEF BusTypeOK, States, BurstType, transfer, RandomQuiet, BurstQuiet
<1>5. Handshake'
  BY <1>1, <1>2, IdleFrame DEF Handshake, RandomQuiet, BurstQuiet
<1>6. Holding'
  BY <1>1, TakesRequest, IdleFrame DEF Holding, Latched
<1>7. vram' = Expanded(0)'
  <2>1. vram' = [b \in Bytes |-> before'.vram[b]]
    BY <1>1, TakesRequest, IdleFrame
  <2>2. \A b : ~(\E p \in req'.data : p < 2 * 0 /\ b = (8 * req'.addr + p) % (2 * VramWords))
    BY <1>2, <1>3
  <2> QED BY <2>1, <2>2 DEF Expanded
<1>8. ExpanderInv'
  <2>1. exp'.n = 0
    BY <1>1
  <2>2. exp' = [n |-> exp'.n, mask |-> req'.data, color |-> before'.lo[0], base |-> 4 * req'.addr]
    BY <1>1, <1>2, <2>1, TakesRequest
  <2> QED BY <1>1, <1>2, <1>3, <1>7, <2>1, <2>2 DEF ExpanderInv, Plain
<1>9. RegisterInv' /\ VramInv' /\ TransferInv'
  BY <1>1 DEF RegisterInv, VramInv, TransferInv, Moving
<1> QED
  BY <1>2, <1>4, <1>5, <1>6, <1>8, <1>9 DEF BusInv, Answers

(* A transfer begins; nothing of it has landed or is written.               *)
LEMMA NothingGathered ==
  ASSUME NEW n \in Int, n <= 0
  PROVE  Gathered(n)'
BY DEF Gathered

LEMMA TakesTransfer ==
  ASSUME BusInv, Around, IdleRow \/ IdleSrtWrite
  PROVE  BusInv' /\ Answers
<1>1. BusTypeOK /\ Takes /\ st = "IDLE" /\ st' = "SRT_BURST" /\ ack' = FALSE /\ pal_we' = None /\ srt_cnt' = 0
      /\ UNCHANGED <<lo, hi, palbank, finescroll, srt_enable, srt_src, sd, sb>>
  BY DEF BusInv, IdleRow, IdleSrtWrite, IsSrt, Takes, StartTransfer, Turns, NoAck
<1>2. req \in Requests /\ req' = req /\ req' # None /\ todo' = todo /\ UNCHANGED Mem!vars
  BY <1>1, TakesRequest
<1>3. IdleRow => OfRow' /\ srt_we' \in BOOLEAN /\ xf'.fill = srt_we'
  <2> HAVE IdleRow
  <2>1. req.row /\ RowRequest(req)
    BY <1>2, RequestKinds DEF IdleRow
  <2>2. srt_we' = req.fill /\ req.fill \in BOOLEAN /\ xf'.fill = req.fill
    BY <2>1 DEF IdleRow, StartTransfer, RowRequest
  <2>3. OfRow'
    <3>1. rc_sh' = rc_sh /\ rc_lastb' = rc_lastb /\ rc_ndw' = rc_ndw
      BY <1>2 DEF rc_sh, rc_lastb, rc_ndw
    <3>2. rc_ndw \in Int
      <4>1. req.dst \in Nat /\ req.len \in Nat
        BY <2>1 DEF RowRequest
      <4> QED BY <4>1 DEF rc_ndw, rc_lastb
    <3>3. srt_len' = rc_ndw + (IF ~req.fill /\ rc_sh = 1 THEN 1 ELSE 0)
      BY DEF IdleRow, StartTransfer
    <3>4. xf' = [isrc |-> TRUE, fill |-> req.fill, transp |-> req.transp, color |-> req.color,
                 sh |-> rc_sh, be_first |-> IF req.dst % 2 = 1 THEN {2} ELSE Both,
                 be_last |-> IF rc_lastb % 2 = 1 THEN Both ELSE {1}, src |-> req.src \div 2, dst |-> req.dst \div 2]
      BY DEF IdleRow, StartTransfer
    <3>5. srt_len' = IF ~srt_we' /\ rc_sh = 1 THEN rc_ndw + 1 ELSE rc_ndw
      BY <2>2, <3>2, <3>3
    <3> QED BY <1>2, <2>1, <3>1, <3>4, <3>5 DEF OfRow
  <2> QED BY <2>2, <2>3
<1>4. IdleSrtWrite => OfShiftRegister' /\ srt_we' = FALSE /\ xf'.fill = FALSE
  <2> HAVE IdleSrtWrite
  <2>1. req.row = FALSE /\ req.we /\ req.srt /\ req.region \in {"vram", "exp"} /\ srt_enable
    BY <1>2, RequestKinds DEF IdleSrtWrite, IsSrt
  <2>2. srt_we' = FALSE
    BY DEF IdleSrtWrite, StartTransfer
  <2>3. OfShiftRegister'
    <3>1. RowName' = RowName
      BY <1>2 DEF RowName
    <3>2. before'.srt_enable = srt_enable /\ before'.srt_src = srt_src
      BY <1>1, TakesRequest
    <3> QED BY <1>2, <2>1, <3>1, <3>2 DEF IdleSrtWrite, StartTransfer, OfShiftRegister
  <2>4. xf'.fill = FALSE
    BY <2>3 DEF OfShiftRegister
  <2> QED BY <2>2, <2>3, <2>4
<1>5. Transfer' /\ srt_we' \in BOOLEAN /\ xf'.fill = srt_we'
  BY <1>3, <1>4 DEF Transfer
<1>6. before'.srt_src \in Nat /\ req' \in Requests
  BY <1>1, <1>2, TakesRequest
<1>7. xf'.src \in Nat /\ xf'.dst \in Nat /\ srt_len' \in Nat \ {0} /\ xf'.sh \in {0, 1, 2}
  <2>1. CASE OfRow'
    <3>1. RowRequest(req')
      BY <1>6, <2>1, RequestKinds DEF OfRow
    <3>2. req'.src \in Nat /\ req'.dst \in Nat /\ req'.len \in Nat \ {0}
      BY <3>1, Sizes DEF RowRequest
    <3>3. rc_ndw' \in Nat \ {0} /\ rc_sh' \in {0, 1, 2}
      BY <3>2 DEF rc_ndw, rc_lastb, rc_sh
    <3>4. req'.src \div 2 \in Nat /\ req'.dst \div 2 \in Nat
      BY <3>2
    <3>5. xf'.src = req'.src \div 2 /\ xf'.dst = req'.dst \div 2 /\ xf'.sh = rc_sh'
          /\ srt_len' = IF ~srt_we' /\ rc_sh' = 1 THEN rc_ndw' + 1 ELSE rc_ndw'
      BY <2>1 DEF OfRow
    <3>6. srt_len' = rc_ndw' \/ srt_len' = rc_ndw' + 1
      BY <3>5
    <3>7. srt_len' \in Nat \ {0}
      <4>1. \A k \in Nat \ {0} : k + 1 \in Nat \ {0}
        OBVIOUS
      <4> QED BY <3>3, <3>6, <4>1
    <3>8. xf'.src \in Nat /\ xf'.dst \in Nat /\ xf'.sh \in {0, 1, 2}
      BY <3>3, <3>4, <3>5
    <3> QED BY <3>7, <3>8
  <2>2. CASE OfShiftRegister'
    <3>1. xf' = [isrc |-> FALSE, fill |-> FALSE, transp |-> FALSE, color |-> <<0, 0>>, sh |-> 0,
                be_first |-> Both, be_last |-> Both, src |-> before'.srt_src, dst |-> RowName']
          /\ srt_len' = (IF req'.region = "vram" THEN SrtRow ELSE ExpRow) /\ WordRequest(req')
      BY <1>6, <2>2, RequestKinds DEF OfShiftRegister
    <3>2. req'.addr \in Nat
      BY <3>1 DEF WordRequest
    <3>3. RowName' \in Nat
      <4> DEFINE u == IF req'.region = "vram" THEN req'.addr % VramWords ELSE 4 * req'.addr
      <4> DEFINE n == IF req'.region = "vram" THEN SrtRow ELSE ExpRow
      <4>1. u \in 0 .. VramWords - 1
        BY <2>2, <3>1, <3>2, Sizes DEF OfShiftRegister, WordRequest
      <4>2. n \in Nat \ {0} /\ VramWords % n = 0
        BY GspBusAssumption
      <4>3. RowName' = (u \div n) * n
        BY DEF RowName
      <4> HIDE DEF u, n
      <4> QED BY <4>1, <4>2, <4>3, RowFits
    <3> QED BY <1>6, <3>1, <3>3, Sizes
  <2> QED BY <1>5, <2>1, <2>2 DEF Transfer
<1>8. BusTypeOK'
  BY <1>1, <1>2, <1>5, <1>7, IdleFrame DEF BusTypeOK, States, BurstType, RandomQuiet, BurstQuiet
<1>9. Handshake'
  BY <1>1, <1>2, IdleFrame DEF Handshake, RandomQuiet, BurstQuiet
<1>10. Holding'
  BY <1>1, TakesRequest, IdleFrame DEF Holding, Latched
<1>11. Done' = 0 /\ Landed' = 0
  BY <1>1, IdleFrame DEF Done, Landed
<1>12. ~srt_we' => ReadSoFar'
  <2>1. Gathered(Stored)'
    BY <1>7, <1>11, NothingGathered DEF Gathered, Stored
  <2>2. vram' = before'.vram
    BY <1>1, TakesRequest, IdleFrame
  <2>3. ~arrived'.wr
    BY <1>1, IdleFrame
  <2> QED BY <1>5, <1>11, <2>1, <2>2, <2>3 DEF ReadSoFar
<1>13. srt_we' => WrittenSoFar'
  <2>1. vram' = [b \in Bytes |-> before'.vram[b]]
    BY <1>1, TakesRequest, IdleFrame
  <2>2. \A b \in Bytes : b \div 2 \notin xf'.dst .. xf'.dst + Done' - 1
    BY <1>7, <1>11, Sizes DEF Bytes
  <2>3. vram' = [b \in Bytes |-> IF b \div 2 \in xf'.dst .. xf'.dst + Done' - 1 THEN Target'[b] ELSE before'.vram[b]]
    BY <2>1, <2>2
  <2> QED BY <1>1, <1>5, <2>3 DEF WrittenSoFar
<1>14. TransferInv'
  <2>1. Transfer' /\ srt_cnt' < srt_len'
    BY <1>1, <1>5, <1>7
  <2> QED BY <1>12, <1>13, <2>1 DEF TransferInv, Transfer
<1>15. RegisterInv' /\ VramInv' /\ ExpanderInv'
  BY <1>1 DEF RegisterInv, VramInv, ExpanderInv
<1> QED
  BY <1>2, <1>8, <1>9, <1>10, <1>14, <1>15 DEF BusInv, Answers

-----------------------------------------------------------------------------
(* The clocks of a request on a latch, the palette or a word of VRAM.       *)
LEMMA Serving ==
  ASSUME BusInv, Around, st # "IDLE"
  PROVE  /\ BusTypeOK /\ BusPorts /\ Handshake /\ Holding
         /\ req \in Requests /\ req # None /\ ack = FALSE /\ req' = req /\ todo' = todo /\ before' = before
         /\ Target' = Target
<1>1. BusTypeOK /\ BusPorts /\ Handshake /\ Holding
  BY DEF BusInv, BusPorts
<1>2. req \in Requests /\ req # None /\ ack = FALSE /\ req' = req /\ todo' = todo
  BY <1>1, HoldsRequest DEF Around, BusTypeOK
<1>3. before' = before
  BY DEF Around, History
<1> QED
  BY <1>1, <1>2, <1>3, TargetStays

LEMMA ReadsRegister ==
  ASSUME BusInv, Around, RegRd
  PROVE  BusInv' /\ Answers
<1>1. st = "REG_RD" /\ st' = "IDLE" /\ ack' = TRUE /\ rdata' = q /\ pal_we' = None
      /\ UNCHANGED <<lo, hi, palbank, finescroll, srt_enable, srt_src, transfer, sd, sb>>
  BY DEF RegRd, Keeps, Ack, Turns
<1>2. BusTypeOK /\ BusPorts /\ Handshake /\ req \in Requests /\ req # None /\ ack = FALSE /\ req' = req /\ todo' = todo
      /\ before' = before
  BY <1>1, Serving
<1>3. /\ vram' = vram /\ sd_ack' = FALSE /\ sb_done' = FALSE /\ arrived'.wr = FALSE
      /\ bp' \in BurstType /\ bp'.phase = "idle" /\ bp'.issued = 0 /\ rowbuf' = rowbuf
  BY <1>1, <1>2, PortsAtRest DEF Around
<1>4. BusInv'
  <2>1. BusTypeOK'
    BY <1>1, <1>2, <1>3 DEF BusTypeOK, States, BurstType, transfer
  <2> QED BY <1>1, <1>2, <1>3, <2>1, EndsIdle DEF Handshake, RandomQuiet, BurstQuiet
<1>5. RegisterInv /\ req.row = FALSE /\ ~req.srt /\ req.region \in {"clo", "chi", "plo", "phi"}
      /\ vram = before.vram /\ pal = before.pal /\ srt_src = before.srt_src
  BY <1>1 DEF BusInv, RegisterInv, Plain
<1>6. /\ Seen = before /\ Seen.vram' = vram /\ Seen.lo' = lo /\ Seen.hi' = hi /\ Seen.pal' = pal'
      /\ Seen.palbank' = palbank /\ Seen.finescroll' = finescroll
      /\ Seen.srt_enable' = srt_enable /\ Seen.srt_src' = srt_src
  BY <1>1, <1>3, SeenMidway, SeenAtEnd
<1>7. pal' = IF pal_we = None THEN pal ELSE [pal EXCEPT ![pal_we.t][pal_we.a] = pal_we.d]
  BY DEF Around, Palette
<1>8. req.we \in BOOLEAN
  BY <1>2, <1>5, RequestKinds DEF WordRequest
<1>9. CASE req.region = "clo"
  <2>1. LoTaken
    BY <1>1, <1>5, <1>9 DEF RegisterInv
  <2>2. CASE req.we
    <3>1. Mem!WriteLo(req)
      BY <1>5, <1>6, <1>7, <2>1, <2>2 DEF LoTaken, Mem!WriteLo
    <3>2. Mem!mem_write(req)
      BY <1>9, <3>1 DEF Mem!mem_write
    <3> QED BY <1>1, <1>2, <1>4, <1>5, <2>2, <3>2, Responds DEF Answers
  <2>3. CASE ~req.we
    <3>1. UNCHANGED <<Seen.vram, Mem!Latches, Seen.srt_src>>
      BY <1>5, <1>6, <1>7, <2>1, <2>3 DEF LoTaken, Mem!Latches
    <3>2. rdata' = Mem!mem_read(req)
      BY <1>1, <1>5, <1>6, <1>9, <2>1 DEF LoTaken, Mem!mem_read
    <3> QED BY <1>1, <1>2, <1>4, <1>5, <2>3, <3>1, <3>2, Responds DEF Answers
  <2> QED BY <1>8, <2>2, <2>3
<1>10. CASE req.region = "chi"
  <2>1. HiTaken
    BY <1>1, <1>5, <1>10 DEF RegisterInv
  <2>2. CASE req.we
    <3>1. Mem!WriteHi(req)
      BY <1>5, <1>6, <1>7, <2>1, <2>2 DEF HiTaken, Mem!WriteHi
    <3>2. Mem!mem_write(req)
      BY <1>10, <3>1 DEF Mem!mem_write
    <3> QED BY <1>1, <1>2, <1>4, <1>5, <2>2, <3>2, Responds DEF Answers
  <2>3. CASE ~req.we
    <3>1. UNCHANGED <<Seen.vram, Mem!Latches, Seen.srt_src>>
      BY <1>5, <1>6, <1>7, <2>1, <2>3 DEF HiTaken, Mem!Latches
    <3>2. rdata' = Mem!mem_read(req)
      BY <1>1, <1>5, <1>6, <1>10, <2>1 DEF HiTaken, Mem!mem_read
    <3> QED BY <1>1, <1>2, <1>4, <1>5, <2>3, <3>1, <3>2, Responds DEF Answers
  <2> QED BY <1>8, <2>2, <2>3
<1>11. CASE req.region \in {"plo", "phi"}
  <2>1. PaletteTaken
    BY <1>1, <1>5, <1>11 DEF RegisterInv
  <2>2. CASE req.we
    <3> DEFINE u == [t |-> req.region, a |-> (before.palbank * PalSize) + req.addr, d |-> req.data]
    <3>1. pal_we = u
      BY <2>1, <2>2 DEF PaletteTaken
    <3>2. u # None
      <4>1. u.t = "plo" \/ u.t = "phi"
        BY <1>11
      <4>2. DOMAIN u = {"t", "a", "d"} /\ DOMAIN None = {}
        BY DEF None
      <4> QED BY <4>2
    <3>3. pal' = [pal EXCEPT ![req.region][(before.palbank * PalSize) + req.addr] = req.data]
      BY <1>7, <3>1, <3>2
    <3>4. Mem!WritePalette(req)
      BY <1>5, <1>6, <2>1, <3>3 DEF PaletteTaken, Mem!WritePalette
    <3>5. Mem!mem_write(req)
      BY <1>11, <3>4 DEF Mem!mem_write
    <3> QED BY <1>1, <1>2, <1>4, <1>5, <2>2, <3>5, Responds DEF Answers
  <2>3. CASE ~req.we
    <3>1. UNCHANGED <<Seen.vram, Mem!Latches, Seen.srt_src>>
      BY <1>5, <1>6, <1>7, <2>1, <2>3 DEF PaletteTaken, Mem!Latches
    <3>2. rdata' = Mem!mem_read(req)
      BY <1>1, <1>5, <1>6, <1>11, <2>1 DEF PaletteTaken, Mem!mem_read
    <3> QED BY <1>1, <1>2, <1>4, <1>5, <2>3, <3>1, <3>2, Responds DEF Answers
  <2> QED BY <1>8, <2>2, <2>3
<1> QED
  BY <1>5, <1>9, <1>10, <1>11

(* Nothing but the acknowledge ends an access of the random port.           *)
LEMMA VramTarget ==
  ASSUME req \in Requests, req.row = FALSE, req.srt = FALSE, req.region = "vram", HeldVram
  PROVE  Target = IF req.we THEN Put(before.vram, req.addr, req.data, Both) ELSE before.vram
<1>1. CASE req.we
  <2>1. Target = [b \in Bytes |-> IF b \div 2 = req.addr % VramWords THEN req.data[1 + (b % 2)] ELSE before.vram[b]]
    <3>1. DOMAIN before.vram = Bytes
      BY DEF HeldVram
    <3> QED BY <1>1, <3>1 DEF Target, Old!After
  <2>2. \A b \in Bytes : 1 + (b % 2) \in Both
    BY Sizes DEF Both, Bytes
  <2>3. DOMAIN before.vram = Bytes
    BY DEF HeldVram
  <2> QED BY <1>1, <2>1, <2>2, <2>3 DEF Put
<1>2. CASE ~req.we
  BY <1>2 DEF Target, Old!After
<1> QED
  BY <1>1, <1>2

LEMMA WaitsForVram ==
  ASSUME BusInv, Around, VramWait
  PROVE  BusInv' /\ Answers
<1>1. st = "VRAM_WAIT" /\ pal_we' = None
      /\ UNCHANGED <<lo, hi, palbank, finescroll, srt_enable, srt_src, exp, transfer, sb>>
  BY DEF VramWait, Keeps
<1>2. BusTypeOK /\ BusPorts /\ Handshake /\ Holding /\ req \in Requests /\ req # None /\ ack = FALSE
      /\ req' = req /\ todo' = todo /\ before' = before /\ Target' = Target
  BY <1>1, Serving
<1>3. /\ sb_done' = FALSE /\ arrived'.wr = FALSE /\ bp' \in BurstType /\ bp'.phase = "idle" /\ bp'.issued = 0
      /\ rowbuf' = rowbuf
      /\ \/ /\ ~sd_ack /\ sd_ack' = TRUE /\ sd_rdata' = WordAt(vram, sd.addr)
            /\ vram' = IF sd.we THEN Put(vram, sd.addr, sd.data, sd.be) ELSE vram
         \/ sd_ack' = FALSE /\ sd_rdata' = sd_rdata /\ vram' = vram
  BY <1>1, <1>2, RandomPort DEF Around
<1>4. Latched' /\ HeldVram
  <2>1. pal' = pal
    BY <1>1, <1>2 DEF Around, Palette, Handshake
  <2> QED BY <1>1, <1>2, <2>1 DEF Holding, Latched, HeldVram
<1>5. /\ req.row = FALSE /\ ~req.srt /\ req.region = "vram"
      /\ sd.we = req.we /\ sd.addr = req.addr /\ sd.data = req.data /\ sd.be = Both
      /\ (~sd_ack => vram = before.vram)
      /\ (sd_ack => vram = Target /\ sd_rdata = WordAt(before.vram, req.addr))
  BY <1>1 DEF BusInv, VramInv, Plain
<1>6. req.we \in BOOLEAN /\ req.srt \in BOOLEAN
  BY <1>2, <1>5, RequestKinds DEF WordRequest
<1>7. Target = IF req.we THEN Put(before.vram, req.addr, req.data, Both) ELSE before.vram
  BY <1>2, <1>4, <1>5, <1>6, VramTarget
<1>8. CASE sd_ack
  <2>1. sd' = [sd EXCEPT !.req = FALSE] /\ ack' = TRUE /\ rdata' = sd_rdata /\ st' = "IDLE"
    BY <1>8 DEF VramWait, Ack, Turns
  <2>2. vram' = vram /\ sd_ack' = FALSE
    BY <1>3, <1>8
  <2>3. DOMAIN sd' = {"req", "we", "addr", "data", "be"} /\ sd'.req = FALSE
    BY <1>2, <2>1 DEF BusTypeOK
  <2>4. BusTypeOK'
    BY <1>1, <1>2, <1>3, <2>1, <2>2, <2>3 DEF BusTypeOK, States, BurstType, transfer
  <2>5. BusInv'
    BY <1>1, <1>2, <1>3, <2>1, <2>2, <2>3, <2>4, EndsIdle DEF Handshake, RandomQuiet, BurstQuiet
  <2>6. CASE req.we
    BY <1>1, <1>2, <1>4, <1>5, <1>8, <2>1, <2>2, <2>5, <2>6, WroteVram DEF Answers
  <2>7. CASE ~req.we
    BY <1>1, <1>2, <1>4, <1>5, <1>6, <1>7, <1>8, <2>1, <2>2, <2>5, <2>7, ReadVram DEF Answers
  <2> QED BY <1>6, <2>6, <2>7
<1>9. CASE ~sd_ack
  <2>1. st' = st /\ sd' = sd /\ ack' = FALSE
    BY <1>9 DEF VramWait, NoAck
  <2>2. vram' = (IF sd_ack' THEN Target ELSE before.vram)
        /\ (sd_ack' => sd_rdata' = WordAt(before.vram, req.addr)) /\ sd_ack' \in BOOLEAN
    BY <1>3, <1>5, <1>7, <1>9
  <2>3. vram' = [b \in Bytes |-> vram'[b]]
    <3>1. CASE sd_ack' /\ req.we
      <4>1. vram' = Put(before.vram, req.addr, req.data, Both)
        BY <1>7, <2>2, <3>1
      <4>2. DOMAIN before.vram = Bytes
        BY <1>4 DEF HeldVram
      <4> QED BY <4>1, <4>2 DEF Put
    <3>2. CASE ~(sd_ack' /\ req.we)
      <4>1. vram' = before.vram
        BY <1>6, <1>7, <2>2, <3>2
      <4> QED BY <1>4, <4>1 DEF HeldVram
    <3> QED BY <3>1, <3>2
  <2>4. BusTypeOK'
    BY <1>1, <1>2, <1>3, <2>1, <2>2, <2>3 DEF BusTypeOK, States, BurstType, transfer
  <2>5. Handshake'
    BY <1>1, <1>2, <1>3, <2>1 DEF Handshake, BurstQuiet
  <2>6. Holding'
    BY <1>1, <1>2, <1>4, <2>1 DEF Holding
  <2>7. VramInv'
    BY <1>1, <1>2, <1>5, <2>1, <2>2 DEF VramInv, Plain
  <2>8. RegisterInv' /\ ExpanderInv' /\ TransferInv'
    BY <1>1, <2>1 DEF RegisterInv, ExpanderInv, TransferInv, Moving
  <2>9. UNCHANGED Mem!vars
    BY <1>1, <1>2, <2>1, Inside DEF Around
  <2> QED BY <2>4, <2>5, <2>6, <2>7, <2>8, <2>9 DEF BusInv, Answers
<1> QED
  BY <1>2, <1>8, <1>9 DEF BusTypeOK

-----------------------------------------------------------------------------
(* The expander, two pixels at a time.                                      *)
Coloured(n, b) == \E p \in req.data : p < 2 * n /\ b = (8 * req.addr + p) % (2 * VramWords)
LEMMA PixelsOfWord ==
  ASSUME req.data \subseteq 0 .. 7, req.addr \in Nat, NEW n \in 0 .. 3, NEW b \in Bytes
  PROVE  Coloured(n + 1, b) <=> Coloured(n, b) \/ (/\ b \div 2 = (4 * req.addr + n) % VramWords
                                                   /\ 1 + (b % 2) \in Pixels(n))
<1> DEFINE u == 4 * req.addr + n
<1>1. u \in Int /\ b \in Nat
  BY Sizes DEF Bytes
<1>2. \A h \in {0, 1} : (2 * u + h) % (2 * VramWords) = 2 * (u % VramWords) + h /\ u % VramWords \in Int
  <2> SUFFICES ASSUME NEW h \in {0, 1}
               PROVE  (2 * u + h) % (2 * VramWords) = 2 * (u % VramWords) + h /\ u % VramWords \in Int
    OBVIOUS
  <2> HIDE DEF u
  <2>1. (2 * u + h) % (2 * VramWords) = 2 * (u % VramWords) + h /\ u % VramWords \in 0 .. VramWords - 1
    BY <1>1, BytesOfWord
  <2> QED BY <2>1, Sizes
<1>3. \A h \in {0, 1} : 2 * u + h = 8 * req.addr + (2 * n + h)
  OBVIOUS
<1> DEFINE m == u % VramWords
<1>4. \A h \in {0, 1} : (8 * req.addr + (2 * n + h)) % (2 * VramWords) = 2 * m + h
  BY <1>2, <1>3
<1>5. m \in Int
  BY <1>2
<1>6. ASSUME b \div 2 = m, 1 + (b % 2) \in Pixels(n)
      PROVE  Coloured(n + 1, b)
  <2> DEFINE h == b % 2
  <2>1. h \in {0, 1} /\ b = 2 * m + h
    <3> HIDE DEF m
    <3> QED BY <1>1, <1>5, <1>6
  <2>2. 2 * n + h \in req.data
    <3>1. 2 * n + (1 + h) - 1 = 2 * n + h
      BY <2>1
    <3> QED BY <1>6, <3>1 DEF Pixels
  <2>3. b = (8 * req.addr + (2 * n + h)) % (2 * VramWords)
    BY <1>4, <2>1
  <2>4. 2 * n + h < 2 * (n + 1)
    BY <2>1
  <2> QED BY <2>2, <2>3, <2>4 DEF Coloured
<1>7. ASSUME Coloured(n, b) PROVE Coloured(n + 1, b)
  BY <1>7 DEF Coloured
<1>8. ASSUME Coloured(n + 1, b), ~Coloured(n, b)
      PROVE  b \div 2 = m /\ 1 + (b % 2) \in Pixels(n)
  <2>1. PICK p \in req.data : p < 2 * (n + 1) /\ b = (8 * req.addr + p) % (2 * VramWords)
    BY <1>8 DEF Coloured
  <2>2. p \in 0 .. 7 /\ ~(p < 2 * n)
    BY <1>8, <2>1 DEF Coloured
  <2>3. PICK h \in {0, 1} : p = 2 * n + h
    <3>1. p = 2 * n \/ p = 2 * n + 1
      BY <2>1, <2>2
    <3> QED BY <3>1
  <2>4. b = 2 * m + h
    BY <1>4, <2>1, <2>3
  <2>5. b \div 2 = m /\ b % 2 = h
    <3> HIDE DEF m
    <3>1. h = 0 \/ h = 1
      OBVIOUS
    <3> QED BY <1>5, <2>4, <3>1
  <2>6. 1 + h \in Both /\ 2 * n + (1 + h) - 1 = p
    BY <2>2, <2>3 DEF Both
  <2> QED BY <2>5, <2>6 DEF Pixels
<1> QED
  BY <1>6, <1>7, <1>8

LEMMA ExpanderWord ==
  ASSUME req.data \subseteq 0 .. 7, req.addr \in Nat, NEW n \in 0 .. 3
  PROVE  /\ Put(Expanded(n), 4 * req.addr + n, before.lo[0], Pixels(n)) = Expanded(n + 1)
         /\ Pixels(n) = {} => Expanded(n + 1) = Expanded(n)
<1>1. \A k : Expanded(k) = [b \in Bytes |-> IF Coloured(k, b) THEN before.lo[0][1 + (b % 2)] ELSE before.vram[b]]
  BY DEF Expanded, Coloured
<1>2. \A b \in Bytes : Coloured(n + 1, b) <=> Coloured(n, b) \/ (/\ b \div 2 = (4 * req.addr + n) % VramWords
                                                                 /\ 1 + (b % 2) \in Pixels(n))
  BY PixelsOfWord
<1> DEFINE Here(b) == b \div 2 = (4 * req.addr + n) % VramWords /\ 1 + (b % 2) \in Pixels(n)
<1>3. Put(Expanded(n), 4 * req.addr + n, before.lo[0], Pixels(n))
      = [b \in Bytes |-> IF Here(b) THEN before.lo[0][1 + (b % 2)] ELSE Expanded(n)[b]]
  <2>1. DOMAIN Expanded(n) = Bytes
    BY DEF Expanded
  <2> QED BY <2>1 DEF Put
<1>4. \A b \in Bytes : Coloured(n + 1, b) <=> Coloured(n, b) \/ Here(b)
  BY <1>2
<1>5. Pixels(n) = {} => \A b \in Bytes : ~Here(b)
  OBVIOUS
<1> HIDE DEF Here
<1>6. \A b \in Bytes : Expanded(n)[b] = IF Coloured(n, b) THEN before.lo[0][1 + (b % 2)] ELSE before.vram[b]
  BY <1>1
<1>7. [b \in Bytes |-> IF Here(b) THEN before.lo[0][1 + (b % 2)] ELSE Expanded(n)[b]]
      = [b \in Bytes |-> IF Coloured(n + 1, b) THEN before.lo[0][1 + (b % 2)] ELSE before.vram[b]]
  BY <1>4, <1>6
<1>8. Expanded(n + 1) = [b \in Bytes |-> IF Coloured(n + 1, b) THEN before.lo[0][1 + (b % 2)] ELSE before.vram[b]]
  BY <1>1
<1>9. Pixels(n) = {} => Expanded(n + 1) = Expanded(n)
  <2>1. Expanded(n) = [b \in Bytes |-> IF Coloured(n, b) THEN before.lo[0][1 + (b % 2)] ELSE before.vram[b]]
    BY <1>1
  <2> QED BY <1>4, <1>5, <1>8, <2>1
<1> QED
  BY <1>3, <1>7, <1>8, <1>9

LEMMA ExpanderTarget ==
  ASSUME req \in Requests, req.row = FALSE, req.srt = FALSE, req.region = "exp", req.we, HeldVram
  PROVE  /\ req.data \subseteq 0 .. 7 /\ req.addr \in Nat
         /\ Expanded(4) = Target
<1>1. req.data \subseteq 0 .. 7 /\ req.addr \in Nat
  BY RequestKinds DEF WordRequest
<1>2. Target = Old!expander_write(req.addr, req.data, before.lo[0])
  BY DEF Target, Old!After
<1>3. DOMAIN before.vram = Bytes
  BY DEF HeldVram
<1>4. \A p \in req.data : p < 2 * 4
  BY <1>1
<1> QED
  BY <1>1, <1>2, <1>3, <1>4 DEF Expanded, Old!expander_write

ExpanderFacts ==
    /\ req.row = FALSE /\ req.srt = FALSE /\ req.region = "exp" /\ req.we
    /\ exp = [n |-> exp.n, mask |-> req.data, color |-> before.lo[0], base |-> 4 * req.addr]
    /\ exp.n \in 0 .. 3 /\ HeldVram /\ Latched
    /\ req.data \subseteq 0 .. 7 /\ req.addr \in Nat
LEMMA Expanding ==
  ASSUME BusInv, Around, st \in {"EXP0", "EXP_WAIT"}, Keeps, UNCHANGED transfer, sb' = sb
  PROVE  /\ ExpanderFacts /\ vram = Expanded(IF st = "EXP_WAIT" /\ sd_ack THEN exp.n + 1 ELSE exp.n)
         /\ Latched' /\ pal_we' = None /\ pal' = pal
<1>1. /\ BusTypeOK /\ BusPorts /\ Handshake /\ Holding /\ req \in Requests /\ req # None /\ ack = FALSE
      /\ req' = req /\ todo' = todo /\ before' = before
  BY Serving
<1>2. Plain /\ ~req.srt /\ req.region = "exp" /\ req.we /\ exp.n \in 0 .. 3
      /\ exp = [n |-> exp.n, mask |-> req.data, color |-> before.lo[0], base |-> 4 * req.addr]
      /\ vram = Expanded(IF st = "EXP_WAIT" /\ sd_ack THEN exp.n + 1 ELSE exp.n)
  BY DEF BusInv, ExpanderInv
<1>3. req.srt \in BOOLEAN
  BY <1>1, <1>2, RequestKinds DEF Plain, WordRequest
<1>4. HeldVram /\ Latched
  BY <1>1 DEF Holding, HeldVram
<1>5. req.data \subseteq 0 .. 7 /\ req.addr \in Nat
  BY <1>1, <1>2, <1>3, <1>4, ExpanderTarget DEF Plain
<1>6. pal' = pal /\ pal_we' = None
  BY <1>1 DEF Around, Palette, Handshake, Keeps
<1>7. Latched'
  BY <1>1, <1>4, <1>6 DEF Keeps, Latched
<1> QED
  BY <1>2, <1>3, <1>4, <1>5, <1>6, <1>7 DEF ExpanderFacts, Plain

(* What is to be shown of the next word.                                    *)
LEMMA ExpanderNext ==
  ASSUME ExpanderFacts, req \in Requests, req' = req, before' = before, st' \in {"EXP0", "EXP_WAIT"},
         NEW n \in 0 .. 3, exp' = [exp EXCEPT !.n = n],
         st' = "EXP_WAIT" => sd'.we /\ sd'.addr = exp'.base + n /\ sd'.data = exp'.color /\ sd'.be = Pixels(n),
         vram' = Expanded(IF st' = "EXP_WAIT" /\ sd_ack' THEN n + 1 ELSE n)
  PROVE  ExpanderInv'
<1>1. exp' = [n |-> n, mask |-> req.data, color |-> before.lo[0], base |-> 4 * req.addr] /\ exp'.n = n
  BY DEF ExpanderFacts
<1>2. exp' = [n |-> exp'.n, mask |-> req'.data, color |-> before'.lo[0], base |-> 4 * req'.addr]
  BY <1>1
<1>3. Pixels(exp.n)' = Pixels(n)
  BY <1>1 DEF Pixels
<1>4. Expanded(IF st = "EXP_WAIT" /\ sd_ack THEN exp.n + 1 ELSE exp.n)'
      = Expanded(IF st' = "EXP_WAIT" /\ sd_ack' THEN n + 1 ELSE n)
  BY <1>1 DEF Expanded
<1> QED
  BY <1>1, <1>2, <1>3, <1>4 DEF ExpanderInv, ExpanderFacts, Plain

(* A word of the expander is done.                                          *)
LEMMA ExpanderAdvances ==
  ASSUME BusInv, Around, st \in {"EXP0", "EXP_WAIT"}, Keeps, UNCHANGED transfer, sb' = sb,
         NextExp, vram' = vram, vram = Expanded(exp.n + 1), DOMAIN sd' = {"req", "we", "addr", "data", "be"},
         sd'.req = FALSE, sd_ack' = FALSE, sb_done' = FALSE, arrived'.wr = FALSE, bp' \in BurstType,
         bp'.phase = "idle", bp'.issued = 0, rowbuf' = rowbuf
  PROVE  BusInv' /\ Answers
<1>1. /\ BusTypeOK /\ BusPorts /\ Handshake /\ Holding /\ req \in Requests /\ req # None /\ ack = FALSE
      /\ req' = req /\ todo' = todo /\ before' = before /\ Target' = Target
  BY Serving
<1>2. ExpanderFacts /\ Latched' /\ pal_we' = None
  BY Expanding
<1>3. ~sb'.req
  BY <1>1 DEF Handshake, BurstQuiet
<1>4. CASE exp.n = 3
  <2>1. st' = "IDLE" /\ ack' = TRUE
    BY <1>4 DEF NextExp, Ack, Turns
  <2>2. BusTypeOK'
    BY <1>1, <1>2, <2>1 DEF BusTypeOK, States, BurstType, transfer, Keeps
  <2>3. BusInv'
    BY <1>1, <1>2, <1>3, <2>1, <2>2, EndsIdle DEF RandomQuiet, BurstQuiet
  <2>4. vram' = Target
    <3>1. Expanded(4) = Target
      BY <1>1, <1>2, ExpanderTarget DEF ExpanderFacts
    <3>2. exp.n + 1 = 4
      BY <1>4
    <3> QED BY <3>1, <3>2
  <2> QED BY <1>1, <1>2, <2>1, <2>3, <2>4, WroteVram DEF Answers, ExpanderFacts
<1>5. CASE exp.n # 3
  <2>1. st' = "EXP0" /\ ack' = FALSE /\ exp' = [exp EXCEPT !.n = @ + 1]
    BY <1>5 DEF NextExp, Turns, NoAck
  <2>2. BusTypeOK'
    BY <1>1, <1>2, <2>1 DEF BusTypeOK, States, BurstType, transfer, Keeps
  <2>3. Handshake'
    BY <1>1, <1>2, <1>3, <2>1 DEF Handshake, RandomQuiet, BurstQuiet
  <2>4. Holding'
    BY <1>1, <1>2, <2>1 DEF Holding
  <2>5. ExpanderInv'
    <3> DEFINE n == exp.n + 1
    <3>1. exp' = [exp EXCEPT !.n = n] /\ n \in 0 .. 3
      BY <1>2, <1>5, <2>1 DEF ExpanderFacts
    <3>2. vram' = Expanded(n)
      OBVIOUS
    <3> HIDE DEF n
    <3> QED BY <1>1, <1>2, <2>1, <3>1, <3>2, ExpanderNext
  <2>6. RegisterInv' /\ VramInv' /\ TransferInv'
    BY <2>1 DEF RegisterInv, VramInv, TransferInv, Moving
  <2>7. UNCHANGED Mem!vars
    BY <1>1, <2>1, Inside DEF Around
  <2> QED BY <2>2, <2>3, <2>4, <2>5, <2>6, <2>7 DEF BusInv, Answers
<1> QED
  BY <1>4, <1>5

LEMMA StartsWord ==
  ASSUME BusInv, Around, Exp0
  PROVE  BusInv' /\ Answers
<1>1. st = "EXP0" /\ Keeps /\ UNCHANGED transfer /\ sb' = sb
  BY DEF Exp0
<1>2. /\ BusTypeOK /\ BusPorts /\ Handshake /\ Holding /\ req \in Requests /\ req # None /\ ack = FALSE
      /\ req' = req /\ todo' = todo /\ before' = before /\ Target' = Target
  BY <1>1, Serving
<1>3. /\ ExpanderFacts /\ vram = Expanded(exp.n) /\ Latched' /\ pal_we' = None
  BY <1>1, Expanding
<1>4. /\ vram' = vram /\ sd_ack' = FALSE /\ sb_done' = FALSE /\ arrived'.wr = FALSE
      /\ bp' \in BurstType /\ bp'.phase = "idle" /\ bp'.issued = 0 /\ rowbuf' = rowbuf
  BY <1>1, <1>2, PortsAtRest DEF Around
<1>5. {h \in Both : 2 * exp.n + h - 1 \in exp.mask} = Pixels(exp.n)
  <2>1. exp.mask = req.data
    BY <1>3 DEF ExpanderFacts
  <2> QED BY <2>1 DEF Pixels
<1>6. /\ sd' = [req |-> Pixels(exp.n) # {}, we |-> TRUE, addr |-> exp.base + exp.n, data |-> exp.color, be |-> Pixels(exp.n)]
      /\ IF Pixels(exp.n) # {} THEN Turns("EXP_WAIT") /\ NoAck /\ UNCHANGED exp ELSE NextExp
  BY <1>5 DEF Exp0
<1>7. DOMAIN sd' = {"req", "we", "addr", "data", "be"}
  BY <1>6
<1>8. CASE Pixels(exp.n) = {}
  <2>1. Expanded(exp.n + 1) = Expanded(exp.n)
    BY <1>3, <1>8, ExpanderWord DEF ExpanderFacts
  <2>2. sd'.req = FALSE
    BY <1>6, <1>8
  <2> QED BY <1>1, <1>3, <1>4, <1>6, <1>7, <1>8, <2>1, <2>2, ExpanderAdvances
<1>9. CASE Pixels(exp.n) # {}
  <2>1. st' = "EXP_WAIT" /\ ack' = FALSE /\ exp' = exp
    BY <1>6, <1>9 DEF Turns, NoAck
  <2>2. sd'.req = TRUE
    BY <1>6, <1>9
  <2>3. BusTypeOK'
    BY <1>1, <1>2, <1>3, <1>4, <1>7, <2>1, <2>2 DEF BusTypeOK, States, BurstType, transfer, Keeps
  <2>4. Handshake'
    BY <1>1, <1>2, <1>3, <1>4, <2>1, <2>2 DEF Handshake, BurstQuiet
  <2>5. Holding'
    BY <1>1, <1>2, <1>3, <2>1 DEF Holding
  <2>6. ExpanderInv'
    <3>1. exp' = [exp EXCEPT !.n = exp.n] /\ exp.n \in 0 .. 3
      BY <1>3, <2>1 DEF ExpanderFacts
    <3>2. vram' = Expanded(exp.n) /\ ~sd_ack'
      BY <1>3, <1>4
    <3>3. sd'.we /\ sd'.addr = exp'.base + exp.n /\ sd'.data = exp'.color /\ sd'.be = Pixels(exp.n)
      BY <1>6, <2>1
    <3> QED BY <1>2, <1>3, <2>1, <3>1, <3>2, <3>3, ExpanderNext
  <2>7. RegisterInv' /\ VramInv' /\ TransferInv'
    BY <2>1 DEF RegisterInv, VramInv, TransferInv, Moving
  <2>8. UNCHANGED Mem!vars
    BY <1>1, <1>2, <2>1, Inside DEF Around
  <2> QED BY <2>3, <2>4, <2>5, <2>6, <2>7, <2>8 DEF BusInv, Answers
<1> QED
  BY <1>8, <1>9

LEMMA WaitsForWord ==
  ASSUME BusInv, Around, ExpWait
  PROVE  BusInv' /\ Answers
<1>1. st = "EXP_WAIT" /\ Keeps /\ UNCHANGED transfer /\ sb' = sb
  BY DEF ExpWait
<1>2. /\ BusTypeOK /\ BusPorts /\ Handshake /\ Holding /\ req \in Requests /\ req # None /\ ack = FALSE
      /\ req' = req /\ todo' = todo /\ before' = before /\ Target' = Target
  BY <1>1, Serving
<1>3. /\ ExpanderFacts /\ vram = Expanded(IF sd_ack THEN exp.n + 1 ELSE exp.n) /\ Latched' /\ pal_we' = None
  BY <1>1, Expanding
<1>4. /\ sb_done' = FALSE /\ arrived'.wr = FALSE /\ bp' \in BurstType /\ bp'.phase = "idle" /\ bp'.issued = 0
      /\ rowbuf' = rowbuf
      /\ \/ /\ ~sd_ack /\ sd_ack' = TRUE /\ sd_rdata' = WordAt(vram, sd.addr)
            /\ vram' = IF sd.we THEN Put(vram, sd.addr, sd.data, sd.be) ELSE vram
         \/ sd_ack' = FALSE /\ sd_rdata' = sd_rdata /\ vram' = vram
  BY <1>1, <1>2, RandomPort DEF Around
<1>5. sd.we /\ sd.addr = exp.base + exp.n /\ sd.data = exp.color /\ sd.be = Pixels(exp.n)
  BY <1>1 DEF BusInv, ExpanderInv
<1>6. CASE sd_ack
  <2>1. sd' = [sd EXCEPT !.req = FALSE] /\ NextExp
    BY <1>6 DEF ExpWait
  <2>2. vram' = vram /\ sd_ack' = FALSE /\ vram = Expanded(exp.n + 1)
    BY <1>3, <1>4, <1>6
  <2>3. DOMAIN sd' = {"req", "we", "addr", "data", "be"} /\ sd'.req = FALSE
    BY <1>2, <2>1 DEF BusTypeOK
  <2> QED BY <1>1, <1>4, <2>1, <2>2, <2>3, ExpanderAdvances
<1>7. CASE ~sd_ack
  <2>1. st' = st /\ sd' = sd /\ exp' = exp /\ ack' = FALSE
    BY <1>7 DEF ExpWait, NoAck
  <2>2. vram' = Expanded(IF sd_ack' THEN exp.n + 1 ELSE exp.n) /\ sd_ack' \in BOOLEAN
    <3>1. Put(Expanded(exp.n), 4 * req.addr + exp.n, before.lo[0], Pixels(exp.n)) = Expanded(exp.n + 1)
      BY <1>3, ExpanderWord DEF ExpanderFacts
    <3>2. sd.addr = 4 * req.addr + exp.n /\ sd.data = before.lo[0]
      <4>1. exp.base = 4 * req.addr /\ exp.color = before.lo[0]
        BY <1>3 DEF ExpanderFacts
      <4> QED BY <1>5, <4>1
    <3> QED BY <1>3, <1>4, <1>5, <1>7, <3>1, <3>2
  <2>3. vram' = [b \in Bytes |-> vram'[b]]
    BY <2>2 DEF Expanded
  <2>4. BusTypeOK'
    BY <1>1, <1>2, <1>3, <1>4, <2>1, <2>2, <2>3 DEF BusTypeOK, States, BurstType, transfer, Keeps
  <2>5. Handshake'
    BY <1>1, <1>2, <1>3, <1>4, <2>1 DEF Handshake, BurstQuiet
  <2>6. Holding'
    BY <1>1, <1>2, <1>3, <2>1 DEF Holding
  <2>7. ExpanderInv'
    <3>1. exp' = [exp EXCEPT !.n = exp.n] /\ exp.n \in 0 .. 3
      BY <1>3, <2>1 DEF ExpanderFacts
    <3>2. vram' = Expanded(IF st' = "EXP_WAIT" /\ sd_ack' THEN exp.n + 1 ELSE exp.n)
      BY <1>1, <2>1, <2>2
    <3>3. sd'.we /\ sd'.addr = exp'.base + exp.n /\ sd'.data = exp'.color /\ sd'.be = Pixels(exp.n)
      BY <1>5, <2>1
    <3> QED BY <1>1, <1>2, <1>3, <2>1, <3>1, <3>2, <3>3, ExpanderNext
  <2>8. RegisterInv' /\ VramInv' /\ TransferInv'
    BY <1>1, <2>1 DEF RegisterInv, VramInv, TransferInv, Moving
  <2>9. UNCHANGED Mem!vars
    BY <1>1, <1>2, <2>1, Inside DEF Around
  <2> QED BY <2>4, <2>5, <2>6, <2>7, <2>8, <2>9 DEF BusInv, Answers
<1> QED
  BY <1>2, <1>6, <1>7 DEF BusTypeOK

-----------------------------------------------------------------------------
(* A transfer.  What surrounds the FSM while words move.                    *)
TransferFacts ==
    /\ BusTypeOK /\ BusPorts /\ Handshake /\ Holding
    /\ req \in Requests /\ req # None /\ ack = FALSE
    /\ Latched /\ HeldVram /\ before.srt_src \in Nat
    /\ Transfer /\ srt_cnt \in Nat /\ srt_cnt < srt_len /\ srt_we \in BOOLEAN
    /\ (~srt_we => ReadSoFar) /\ (srt_we => WrittenSoFar)
    /\ xf.src \in Nat /\ xf.dst \in Nat /\ srt_len \in Nat \ {0} /\ xf.sh \in {0, 1, 2} /\ xf.fill \in BOOLEAN
    /\ (srt_we \/ xf.sh # 1 => srt_len <= ExpRow /\ xf.dst + srt_len <= VramWords)
    /\ srt_len <= ExpRow + 1
TransferFrame ==
    /\ req' = req /\ todo' = todo /\ before' = before /\ Target' = Target
    /\ Latched' /\ pal_we' = None /\ sd' = sd /\ xf' = xf

LEMMA Transferring ==
  ASSUME BusInv, Around, Moving, Keeps, UNCHANGED <<exp, xf, sd>>
  PROVE  TransferFacts /\ TransferFrame
<1>1. /\ BusTypeOK /\ BusPorts /\ Handshake /\ Holding /\ req \in Requests /\ req # None /\ ack = FALSE
      /\ req' = req /\ todo' = todo /\ before' = before /\ Target' = Target
  BY Serving DEF Moving
<1>2. Transfer /\ srt_cnt < srt_len /\ (~srt_we => ReadSoFar) /\ (srt_we => WrittenSoFar)
  BY DEF BusInv, TransferInv, Transfer
<1>3. HeldVram /\ Latched /\ before.srt_src \in Nat
  BY <1>1 DEF Holding, HeldVram, Moving
<1>4. srt_we \in BOOLEAN /\ srt_cnt \in Nat
  BY <1>1 DEF BusTypeOK
<1>5. /\ xf.src \in Nat /\ xf.dst \in Nat /\ srt_len \in Nat \ {0} /\ xf.sh \in {0, 1, 2}
      /\ (srt_we \/ xf.sh # 1 => srt_len <= ExpRow /\ xf.dst + srt_len <= VramWords)
      /\ srt_len <= ExpRow + 1
  BY <1>1, <1>2, <1>3, <1>4, TransferFits
<1>6. xf.fill \in BOOLEAN
  <2>1. CASE OfRow
    <3>1. req.fill \in BOOLEAN /\ xf.fill = req.fill
      BY <1>1, <2>1, RequestKinds DEF OfRow, RowRequest
    <3> QED BY <3>1
  <2>2. CASE OfShiftRegister
    <3>1. xf.fill = FALSE
      BY <2>2 DEF OfShiftRegister
    <3> QED BY <3>1
  <2> QED BY <1>2, <2>1, <2>2 DEF Transfer
<1>7. pal' = pal /\ pal_we' = None
  BY <1>1 DEF Around, Palette, Handshake, Keeps, Moving
<1>8. Latched'
  BY <1>1, <1>3, <1>7 DEF Keeps, Latched
<1> QED
  BY <1>1, <1>2, <1>3, <1>4, <1>5, <1>6, <1>7, <1>8 DEF TransferFacts, TransferFrame

(* The transfer goes on.                                                    *)
LEMMA GoesOn ==
  ASSUME TransferFacts, TransferFrame, Around, Moving, Moving', ack' = FALSE, BusTypeOK', Handshake',
         Transfer', srt_cnt' < srt_len', ~srt_we' => ReadSoFar', srt_we' => WrittenSoFar'
  PROVE  BusInv' /\ Answers
<1>1. st # "IDLE" /\ st' # "IDLE" /\ st' \notin {"REG_RD", "VRAM_WAIT", "EXP0", "EXP_WAIT"}
  BY DEF Moving
<1>2. Holding'
  BY <1>1 DEF TransferFacts, TransferFrame, Holding
<1>3. RegisterInv' /\ VramInv' /\ ExpanderInv'
  BY <1>1 DEF RegisterInv, VramInv, ExpanderInv
<1>4. TransferInv'
  BY DEF TransferInv, Transfer
<1>5. UNCHANGED Mem!vars
  BY <1>1, Inside DEF Around, TransferFacts
<1> QED
  BY <1>2, <1>3, <1>4, <1>5 DEF BusInv, Answers

LEMMA SameTransfer ==
  ASSUME TransferFacts, TransferFrame, srt_len' = srt_len, srt_we' = srt_we
  PROVE  Transfer'
<1>1. OfRow => OfRow'
  <2>1. rc_sh' = rc_sh /\ rc_lastb' = rc_lastb /\ rc_ndw' = rc_ndw
    BY DEF TransferFrame, rc_sh, rc_lastb, rc_ndw
  <2> QED BY <2>1 DEF TransferFrame, OfRow
<1>2. OfShiftRegister => OfShiftRegister'
  <2>1. RowName' = RowName
    BY DEF TransferFrame, RowName
  <2> QED BY <2>1 DEF TransferFrame, OfShiftRegister
<1> QED
  BY <1>1, <1>2 DEF TransferFacts, Transfer

(* What has been read, and what has been written, after a clock.            *)
LEMMA ReadNext ==
  ASSUME TransferFrame, ~xf.fill, vram' = before.vram, NEW d, NEW l, Done' = d, Landed' = l,
         l > 0 => xf_prev' = WordAt(before.vram, xf.src + l - 1),
         arrived'.wr => arrived'.data = WordAt(before.vram, xf.src + d - 1),
         \A i \in 0 .. (IF xf.sh = 1 THEN l - 1 ELSE l) - 1 : \A h \in Both :
             HasSource(i, h) => rowbuf'[i][h] = SourceByte(i, h)
  PROVE  ReadSoFar'
<1>1. xf' = xf /\ before' = before
  BY DEF TransferFrame
<1>2. Stored' = IF xf.sh = 1 THEN l - 1 ELSE l
  BY <1>1 DEF Stored
<1>3. Gathered(Stored)'
  BY <1>1, <1>2 DEF Gathered, HasSource, SourceByte, Shift
<1> QED
  BY <1>1, <1>3 DEF ReadSoFar

LEMMA WrittenNext ==
  ASSUME TransferFrame, srt_len' = srt_len, ~xf.fill => Gathered(srt_len), rowbuf' = rowbuf, NEW d, Done' = d,
         (st = "SRT_BURST_WAIT" /\ bp.phase = "words" /\ bp.settled)' => rb_q' = rowbuf[rb_go'],
         vram' = [b \in Bytes |-> IF b \div 2 \in xf.dst .. xf.dst + d - 1 THEN Target[b] ELSE before.vram[b]]
  PROVE  WrittenSoFar'
<1>1. xf' = xf /\ before' = before /\ Target' = Target
  BY DEF TransferFrame
<1>2. ~xf.fill => Gathered(srt_len)'
  BY <1>1 DEF Gathered, HasSource, SourceByte, Shift
<1> QED
  BY <1>1, <1>2 DEF WrittenSoFar

(* A piece of the transfer is asked for.                                    *)
LEMMA AsksForPiece ==
  ASSUME BusInv, Around, SrtBurst \/ SrtBurstGap
  PROVE  BusInv' /\ Answers
<1>1. st \in {"SRT_BURST", "SRT_BURST_GAP"} /\ Keeps /\ ack' = FALSE /\ UNCHANGED <<exp, xf, sd>>
      /\ srt_cnt' = srt_cnt /\ srt_we' = srt_we /\ srt_len' = srt_len
      /\ st' = (IF st = "SRT_BURST" THEN "SRT_BURST_WAIT" ELSE "SRT_BURST")
  BY DEF SrtBurst, SrtBurstGap, NoAck, Turns, transfer
<1>2. Moving /\ Moving'
  BY <1>1 DEF Moving
<1>3. TransferFacts /\ TransferFrame
  BY <1>1, <1>2, Transferring
<1>4. /\ vram' = vram /\ sd_ack' = FALSE /\ sb_done' = FALSE /\ arrived'.wr = FALSE
      /\ bp' \in BurstType /\ bp'.phase = "idle" /\ bp'.issued = 0
      /\ rowbuf' = rowbuf /\ xf_prev' = xf_prev
  BY <1>1, <1>3, PortsAtRest DEF Around, TransferFacts
<1>5. BurstQuiet
  BY <1>1, <1>3 DEF TransferFacts, Handshake
<1> DEFINE rest == srt_len - srt_cnt
<1> DEFINE part == IF rest > Piece THEN Piece ELSE rest
<1>6. rest \in Nat \ {0} /\ part \in 1 .. rest
  BY <1>3, Sizes DEF TransferFacts
<1>7. st = "SRT_BURST" => sb' = [req |-> TRUE, we |-> srt_we, addr |-> (IF srt_we THEN xf.dst ELSE xf.src) + srt_cnt, len |-> part]
  BY <1>1 DEF SrtBurst, SrtBurstGap
<1>8. st # "SRT_BURST" => sb' = sb
  BY DEF SrtBurst, SrtBurstGap
<1>9. sb' \in [req : BOOLEAN, we : BOOLEAN, addr : Nat, len : Nat]
  <2>1. CASE st = "SRT_BURST"
    <3> DEFINE a == (IF srt_we THEN xf.dst ELSE xf.src) + srt_cnt
    <3>1. a \in Nat
      BY <1>3 DEF TransferFacts
    <3>2. part \in Nat
      BY <1>6
    <3>3. srt_we \in BOOLEAN
      BY <1>3 DEF TransferFacts
    <3>4. sb' = [req |-> TRUE, we |-> srt_we, addr |-> a, len |-> part]
      BY <1>7, <2>1
    <3> HIDE DEF a, part
    <3> QED BY <3>1, <3>2, <3>3, <3>4
  <2>2. CASE st # "SRT_BURST"
    BY <1>3, <1>8, <2>2 DEF TransferFacts, BusTypeOK
  <2> QED BY <2>1, <2>2
<1> HIDE DEF part
<1>10. BusTypeOK'
  BY <1>1, <1>3, <1>4, <1>9 DEF TransferFacts, TransferFrame, BusTypeOK, States, BurstType, Keeps
<1>11. Handshake'
  <2>1. CASE st = "SRT_BURST"
    <3>1. Bursting'
      <4>1. sb'.req /\ sb'.we = srt_we /\ sb'.len = part
            /\ sb'.addr = (IF srt_we THEN xf.dst ELSE xf.src) + srt_cnt
        BY <1>7, <2>1
      <4> QED BY <1>1, <1>3, <1>4, <1>6, <4>1 DEF Bursting, TransferFrame
    <3> QED BY <1>1, <1>3, <1>4, <2>1, <3>1 DEF Handshake, RandomQuiet, TransferFacts, TransferFrame
  <2>2. CASE st = "SRT_BURST_GAP"
    <3>1. sb' = sb
      BY <1>8, <2>2
    <3> QED BY <1>1, <1>3, <1>4, <1>5, <2>2, <3>1 DEF Handshake, RandomQuiet, BurstQuiet, TransferFacts, TransferFrame
  <2> QED BY <1>1, <2>1, <2>2
<1>12. Done = srt_cnt /\ Done' = srt_cnt /\ Landed = srt_cnt /\ Landed' = srt_cnt /\ srt_cnt \in Nat
  <2>1. Done = srt_cnt /\ ~arrived.wr
    BY <1>1, <1>5 DEF Done, BurstQuiet
  <2>2. srt_cnt + 0 = srt_cnt
    BY <1>3 DEF TransferFacts
  <2>3. Done' = srt_cnt
    BY <1>1, <1>4, <2>2 DEF Done
  <2> QED BY <1>3, <1>4, <2>1, <2>3 DEF Landed, TransferFacts
<1>13. ~srt_we' => ReadSoFar'
  <2> HAVE ~srt_we'
  <2>1. ReadSoFar
    BY <1>1, <1>3 DEF TransferFacts
  <2>2. Stored = IF xf.sh = 1 THEN srt_cnt - 1 ELSE srt_cnt
    BY <1>12 DEF Stored
  <2>3. \A i \in 0 .. (IF xf.sh = 1 THEN srt_cnt - 1 ELSE srt_cnt) - 1 : \A h \in Both :
             HasSource(i, h) => rowbuf'[i][h] = SourceByte(i, h)
    BY <1>4, <2>1, <2>2 DEF ReadSoFar, Gathered
  <2> QED BY <1>3, <1>4, <1>12, <2>1, <2>3, ReadNext DEF ReadSoFar
<1>14. srt_we' => WrittenSoFar'
  <2> HAVE srt_we'
  <2>1. WrittenSoFar
    BY <1>1, <1>3 DEF TransferFacts
  <2>2. bp'.phase # "words"
    BY <1>4
  <2> QED BY <1>1, <1>3, <1>4, <1>12, <2>1, <2>2, WrittenNext DEF WrittenSoFar
<1>15. Transfer' /\ srt_cnt' < srt_len'
  BY <1>1, <1>3, SameTransfer DEF TransferFacts
<1> QED
  BY <1>1, <1>2, <1>3, <1>10, <1>11, <1>13, <1>14, <1>15, GoesOn

(* A word that has arrived is stored at the next clock.                     *)
LEMMA StoresWord ==
  ASSUME TransferFacts, TransferFrame, RowBuffer, st = "SRT_BURST_WAIT", ~srt_we, arrived.wr
  PROVE  /\ Done \in Nat /\ Done > 0 /\ Landed = Done - 1
         /\ xf_prev' = WordAt(before.vram, xf.src + Done - 1)
         /\ \A i \in 0 .. (IF xf.sh = 1 THEN Done - 1 ELSE Done) - 1 : \A h \in Both :
               HasSource(i, h) => rowbuf'[i][h] = SourceByte(i, h)
         /\ DOMAIN rowbuf' = DOMAIN rowbuf
<1>1. Bursting /\ ReadSoFar /\ bp \in BurstType /\ sb.len \in Nat
  BY DEF TransferFacts, Handshake, BusTypeOK, BurstType
<1>2. bp.phase \in {"words", "closing"} /\ bp.issued \in Nat \ {0} /\ bp.issued <= sb.len
      /\ sb.len <= srt_len - srt_cnt /\ arrived.idx = bp.issued - 1
  BY <1>1 DEF Bursting, BurstType, TransferFacts
<1> DEFINE l == Landed
<1>3. Done = srt_cnt + bp.issued /\ l = Done - 1 /\ rb_gi = l /\ l \in Nat /\ Done \in Nat /\ Done <= srt_len
  <2>1. Done = srt_cnt + bp.issued
    BY <1>2 DEF Done
  <2>2. rb_gi = srt_cnt + (bp.issued - 1)
    BY <1>2 DEF rb_gi
  <2>3. l = Done - 1
    BY DEF Landed
  <2>4. srt_cnt \in Nat /\ srt_len \in Nat /\ bp.issued \in Nat \ {0} /\ bp.issued <= srt_len - srt_cnt
    BY <1>1, <1>2 DEF TransferFacts
  <2> HIDE DEF l
  <2> QED BY <2>1, <2>2, <2>3, <2>4
<1>4. Stored = IF xf.sh = 1 THEN l - 1 ELSE l
  BY DEF Stored
<1> HIDE DEF l
<1> DEFINE W(i) == WordAt(before.vram, i)
<1>5. /\ (l > 0 => xf_prev = WordAt(before.vram, xf.src + l - 1))
      /\ arrived.data = WordAt(before.vram, xf.src + l)
      /\ \A i \in 0 .. Stored - 1 : \A h \in Both : HasSource(i, h) => rowbuf[i][h] = SourceByte(i, h)
  <2>1. xf.src + Done - 1 = xf.src + l
    BY <1>3 DEF TransferFacts
  <2> QED BY <1>1, <1>3, <2>1 DEF ReadSoFar, Gathered, l
<1>6. xf_prev' = WordAt(before.vram, xf.src + Done - 1)
  <2>1. xf_prev' = arrived.data
    BY DEF RowBuffer
  <2>2. xf.src + Done - 1 = xf.src + l
    BY <1>3 DEF TransferFacts
  <2> QED BY <1>5, <2>1, <2>2
<1>7. DOMAIN rowbuf = 0 .. ExpRow - 1
  BY DEF TransferFacts, BusTypeOK
<1>8. DOMAIN rowbuf' = DOMAIN rowbuf
  BY DEF RowBuffer
<1>9. xf.src \in Nat /\ srt_len \in Nat /\ ExpRow \in Nat /\ xf.sh \in {0, 1, 2} /\ (xf.sh # 1 => srt_len <= ExpRow)
      /\ srt_len <= ExpRow + 1
  BY Sizes DEF TransferFacts
<1>10. CASE xf.sh = 1 /\ l = 0
  <2>1. 0 .. (IF xf.sh = 1 THEN Done - 1 ELSE Done) - 1 = {}
    BY <1>3, <1>10
  <2> QED BY <1>3, <1>6, <1>8, <2>1 DEF l
<1>11. CASE ~(xf.sh = 1 /\ l = 0)
  <2> DEFINE k == IF xf.sh = 1 THEN l - 1 ELSE l
  <2>1. k \in 0 .. ExpRow - 1 /\ Stored = k /\ (IF xf.sh = 1 THEN Done - 1 ELSE Done) - 1 = k
    BY <1>3, <1>4, <1>9, <1>11
  <2>2. rowbuf' = [rowbuf EXCEPT ![k] = Assembled]
    <3>1. rb_gi - (IF xf.sh = 1 THEN 1 ELSE 0) = k
      BY <1>3
    <3> QED BY <1>3, <1>11, <3>1 DEF RowBuffer
  <2>3. \A h \in Both : HasSource(k, h) => Assembled[h] = SourceByte(k, h)
    <3> SUFFICES ASSUME NEW h \in Both, HasSource(k, h)
                 PROVE  Assembled[h] = SourceByte(k, h)
      OBVIOUS
    <3>1. h = 1 \/ h = 2
      BY DEF Both
    <3>2. \A j \in Int : WordAt(before.vram, j)[h] = before.vram[(2 * j + h - 1) % (2 * VramWords)]
      BY WordIs
    <3>3. \A j \in Int : /\ WordAt(before.vram, j)[1] = before.vram[(2 * j + 1 - 1) % (2 * VramWords)]
                         /\ WordAt(before.vram, j)[2] = before.vram[(2 * j + 2 - 1) % (2 * VramWords)]
      <4>1. 1 \in Both /\ 2 \in Both
        BY DEF Both
      <4> QED BY <4>1, WordIs
    <3> DEFINE a == 2 * (xf.src + k) + h - 1 + Shift
    <3>4. SourceByte(k, h) = before.vram[a % (2 * VramWords)]
      BY DEF SourceByte
    <3>5. CASE xf.sh = 0
      <4>1. Assembled[h] = WordAt(before.vram, xf.src + l)[h]
        BY <1>5, <3>5 DEF Assembled
      <4>2. a = 2 * (xf.src + l) + h - 1
        BY <1>3, <1>9, <3>1, <3>5 DEF Shift
      <4>3. xf.src + l \in Int
        BY <1>3, <1>9
      <4> QED BY <3>2, <3>4, <4>1, <4>2, <4>3
    <3>6. CASE xf.sh # 0 /\ h = 1
      <4>1. l > 0
        BY <1>3, <1>9, <1>11, <3>6 DEF HasSource
      <4>2. Assembled[h] = WordAt(before.vram, xf.src + l - 1)[2]
        BY <1>5, <3>6, <4>1 DEF Assembled
      <4>3. a = 2 * (xf.src + l - 1) + 2 - 1
        BY <1>3, <1>9, <3>6 DEF Shift
      <4>4. xf.src + l - 1 \in Int
        BY <1>3, <1>9
      <4> QED BY <3>3, <3>4, <4>2, <4>3, <4>4
    <3>7. CASE xf.sh # 0 /\ h = 2
      <4>1. Assembled[h] = WordAt(before.vram, xf.src + l)[1]
        BY <1>5, <3>7 DEF Assembled
      <4>2. a = 2 * (xf.src + l) + 1 - 1
        BY <1>3, <1>9, <3>7 DEF Shift
      <4>3. xf.src + l \in Int
        BY <1>3, <1>9
      <4> QED BY <3>3, <3>4, <4>1, <4>2, <4>3
    <3> QED BY <3>1, <3>5, <3>6, <3>7
  <2> HIDE DEF k
  <2>4. \A i \in 0 .. k : \A h \in Both : HasSource(i, h) => rowbuf'[i][h] = SourceByte(i, h)
    <3> SUFFICES ASSUME NEW i \in 0 .. k, NEW h \in Both, HasSource(i, h)
                 PROVE  rowbuf'[i][h] = SourceByte(i, h)
      OBVIOUS
    <3>1. CASE i = k
      <4>1. rowbuf'[k] = Assembled
        BY <1>7, <2>1, <2>2
      <4> QED BY <2>3, <3>1, <4>1
    <3>2. CASE i # k
      <4>1. i \in 0 .. k - 1
        BY <2>1, <3>2
      <4>2. i \in DOMAIN rowbuf
        BY <1>7, <1>9, <2>1, <4>1
      <4>3. rowbuf'[i] = rowbuf[i]
        BY <2>2, <3>2, <4>2
      <4> QED BY <1>5, <2>1, <4>1, <4>3
    <3> QED BY <3>1, <3>2
  <2> QED BY <1>3, <1>6, <1>8, <2>1, <2>4 DEF l
<1> QED
  BY <1>10, <1>11

(* A clock of a burst: a word moves, or none does.                          *)
WordMoves ==
    /\ bp.phase = "words" /\ bp.settled /\ ~arrived.wr /\ bp'.settled = FALSE
    /\ Done < srt_len /\ Done' = Done + 1 /\ rb_go = Done
    /\ sb.addr + bp.issued = (IF srt_we THEN xf.dst ELSE xf.src) + Done
    /\ arrived'.wr = ~srt_we
    /\ ~srt_we => arrived'.data = WordAt(vram, xf.src + Done)
    /\ vram' = IF srt_we THEN Put(vram, xf.dst + Done, sb_wdata, sb_be) ELSE vram
NoWordMoves ==
    /\ vram' = vram /\ arrived'.wr = FALSE /\ Done' = Done
    /\ bp'.phase = "words" /\ bp'.settled => rb_go' = rb_go /\ rb_go \in 0 .. srt_len - 1

LEMMA BurstClock ==
  ASSUME TransferFacts, TransferFrame, Memory, st = "SRT_BURST_WAIT", st' = st, sb' = sb,
         srt_cnt' = srt_cnt, srt_len' = srt_len, srt_we' = srt_we, ~sb_done
  PROVE  /\ Bursting' /\ sd_ack' = FALSE /\ bp' \in BurstType /\ sb_done' \in BOOLEAN
         /\ Done \in Nat /\ Done <= srt_len
         /\ WordMoves \/ NoWordMoves
<1>1. Bursting /\ bp \in BurstType /\ sb \in [req : BOOLEAN, we : BOOLEAN, addr : Nat, len : Nat]
      /\ BusPorts /\ srt_cnt \in Nat /\ srt_len \in Nat /\ srt_we \in BOOLEAN
  BY DEF TransferFacts, Handshake, BusTypeOK, BurstType
<1>2. /\ sb.req /\ sb.we = srt_we /\ sb.addr = (IF srt_we THEN xf.dst ELSE xf.src) + srt_cnt
      /\ sb.len \in 1 .. srt_len - srt_cnt /\ bp.phase # "told"
      /\ bp.issued \in Nat /\ bp.settled \in BOOLEAN /\ bp.phase \in {"idle", "words", "closing"}
      /\ (bp.phase = "idle" => bp.issued = 0)
      /\ (bp.phase = "words" => bp.issued < sb.len)
      /\ (bp.phase = "closing" => bp.issued = sb.len)
      /\ sb.len \in Nat /\ sb.len <= srt_len - srt_cnt
  BY <1>1 DEF Bursting, BurstType
<1>3. arrived.wr \in BOOLEAN /\ (arrived.wr => ~bp.settled /\ ~srt_we /\ bp.phase \in {"words", "closing"}
                                 /\ bp.issued > 0 /\ arrived.idx = bp.issued - 1)
  BY <1>1 DEF TransferFacts, BusTypeOK, Bursting
<1>4. Done = srt_cnt + bp.issued /\ rb_go = Done /\ Done <= srt_len /\ Done \in Nat
  <2>1. Done = srt_cnt + bp.issued /\ rb_go = srt_cnt + bp.issued
    BY <1>2 DEF Done, rb_go
  <2>2. bp.issued <= sb.len
    BY <1>2
  <2> QED BY <1>1, <1>2, <2>1, <2>2
<1>5. sd_ack' = FALSE /\ bp' \in BurstType /\ (Accept \/ NextWord \/ Tells \/ Waits)
  BY <1>1, BurstPort DEF TransferFacts
<1>6. xf' = xf /\ (sb.we => sb'.we)
  BY <1>2 DEF TransferFrame
<1>7. CASE Accept
  <2>1. bp' = [phase |-> "words", issued |-> 0, settled |-> FALSE] /\ arrived' = NoWord /\ sb_done' = FALSE /\ vram' = vram
        /\ bp.phase = "idle"
    BY <1>7 DEF Accept
  <2>2. arrived'.wr = FALSE /\ bp'.phase = "words" /\ bp'.issued = 0 /\ bp'.settled = FALSE
    BY <2>1 DEF NoWord
  <2>3. Bursting'
    BY <1>2, <1>6, <2>1, <2>2 DEF Bursting
  <2>4. Done' = Done
    BY <1>2, <1>4, <2>1, <2>2 DEF Done
  <2>5. NoWordMoves
    BY <2>1, <2>2, <2>4 DEF NoWordMoves
  <2> QED BY <1>4, <1>5, <2>1, <2>3, <2>5
<1>8. CASE NextWord
  <2>1. /\ bp.phase = "words" /\ bp.settled /\ sb_done' = FALSE
        /\ bp' = [phase |-> IF bp.issued + 1 = sb.len THEN "closing" ELSE "words",
                  issued |-> bp.issued + 1, settled |-> FALSE]
        /\ arrived' = (IF sb.we THEN NoWord
                       ELSE [wr |-> TRUE, idx |-> bp.issued, data |-> WordAt(vram, sb.addr + bp.issued)])
        /\ vram' = (IF sb.we THEN Put(vram, sb.addr + bp.issued, sb_wdata, sb_be) ELSE vram)
    BY <1>8 DEF NextWord
  <2>2. bp'.phase = (IF bp.issued + 1 = sb.len THEN "closing" ELSE "words") /\ bp'.issued = bp.issued + 1 /\ bp'.settled = FALSE
    BY <2>1
  <2>3. bp.issued + 1 <= sb.len /\ bp.issued + 1 \in Nat /\ bp.issued + 1 > 0 /\ bp.issued + 1 - 1 = bp.issued
    BY <1>2, <2>1
  <2>4. arrived'.wr = ~srt_we /\ (~srt_we => arrived'.idx = bp.issued /\ arrived'.data = WordAt(vram, sb.addr + bp.issued))
    <3>1. CASE srt_we
      BY <1>2, <2>1, <3>1 DEF NoWord
    <3>2. CASE ~srt_we
      BY <1>1, <1>2, <2>1, <3>2
    <3> QED BY <3>1, <3>2
  <2>5. Bursting'
    <3>1. bp'.phase \in {"words", "closing"} /\ (bp'.phase = "words" => bp'.issued < sb.len) /\ (bp'.phase = "closing" => bp'.issued = sb.len)
      BY <1>2, <2>2, <2>3
    <3>2. arrived'.wr => ~srt_we
      BY <2>4
    <3>3. ~srt_we => arrived'.idx = bp'.issued - 1 /\ bp'.issued > 0
      <4>1. bp'.issued - 1 = bp.issued /\ bp'.issued > 0
        BY <1>2, <2>2, <2>3
      <4> QED BY <2>4, <4>1
    <3> QED BY <1>2, <1>6, <2>1, <2>2, <3>1, <3>2, <3>3 DEF Bursting
  <2>6. Done' = Done + 1
    <3>1. Done' = srt_cnt + (bp.issued + 1)
      BY <2>2 DEF Done
    <3> QED BY <1>1, <1>2, <1>4, <3>1
  <2>7. sb.addr + bp.issued = (IF srt_we THEN xf.dst ELSE xf.src) + Done
    <3>1. xf.src \in Nat /\ xf.dst \in Nat
      BY DEF TransferFacts
    <3> QED BY <1>1, <1>2, <1>4, <3>1
  <2>8. Done < srt_len
    BY <1>1, <1>2, <1>4, <2>1
  <2>9. WordMoves
    <3>1. ~srt_we => arrived'.data = WordAt(vram, xf.src + Done)
      BY <2>4, <2>7
    <3>2. vram' = IF srt_we THEN Put(vram, xf.dst + Done, sb_wdata, sb_be) ELSE vram
      BY <1>2, <2>1, <2>7
    <3>3. ~arrived.wr
      BY <1>3, <2>1
    <3> QED BY <1>4, <2>1, <2>2, <2>4, <2>6, <2>7, <2>8, <3>1, <3>2, <3>3 DEF WordMoves
  <2> QED BY <1>4, <1>5, <2>1, <2>5, <2>9
<1>9. CASE Tells
  <2>1. /\ bp.phase = "closing" /\ bp.settled /\ sb_done' = TRUE /\ arrived' = NoWord /\ vram' = vram
        /\ bp' = [phase |-> "told", issued |-> 0, settled |-> TRUE]
    BY <1>9 DEF Tells
  <2>2. bp'.phase = "told" /\ bp'.issued = 0 /\ arrived'.wr = FALSE
    BY <1>1, <2>1 DEF BurstType, NoWord
  <2>3. Bursting'
    BY <1>2, <1>6, <2>1, <2>2 DEF Bursting
  <2>4. Done' = Done
    BY <1>2, <1>4, <2>1, <2>2 DEF Done
  <2>5. NoWordMoves
    BY <2>1, <2>2, <2>4 DEF NoWordMoves
  <2> QED BY <1>4, <1>5, <2>1, <2>3, <2>5
<1>10. CASE Waits
  <2>1. bp' = [bp EXCEPT !.settled = TRUE] /\ arrived' = NoWord /\ sb_done' = FALSE /\ vram' = vram
    BY <1>10 DEF Waits
  <2>2. bp'.phase = bp.phase /\ bp'.issued = bp.issued /\ bp'.settled /\ arrived'.wr = FALSE
    BY <1>1, <2>1 DEF BurstType, NoWord
  <2>3. Bursting'
    BY <1>2, <1>6, <2>1, <2>2 DEF Bursting
  <2>4. Done' = Done /\ rb_go' = rb_go
    BY <1>2, <2>1, <2>2 DEF Done, rb_go
  <2>5. bp.phase = "words" => rb_go \in 0 .. srt_len - 1
    BY <1>1, <1>2, <1>4
  <2>6. NoWordMoves
    BY <2>1, <2>2, <2>4, <2>5 DEF NoWordMoves
  <2> QED BY <1>4, <1>5, <2>1, <2>3, <2>6
<1> QED
  BY <1>5, <1>7, <1>8, <1>9, <1>10

LEMMA ReadsOn ==
  ASSUME TransferFacts, TransferFrame, RowBuffer, st = "SRT_BURST_WAIT", ~srt_we,
         Done \in Nat, WordMoves \/ NoWordMoves
  PROVE  ReadSoFar' /\ vram' = vram
<1>1. ReadSoFar /\ vram = before.vram /\ ~xf.fill /\ xf.src \in Nat /\ arrived.wr \in BOOLEAN
  BY DEF TransferFacts, ReadSoFar, BusTypeOK
<1>2. vram' = before.vram
  BY <1>1 DEF WordMoves, NoWordMoves
<1> DEFINE d == Done
<1>3. CASE arrived.wr
  <2>1. NoWordMoves
    BY <1>3 DEF WordMoves
  <2>2. Done' = d /\ arrived'.wr = FALSE /\ Landed' = d
    BY <2>1 DEF NoWordMoves, Landed
  <2>3. /\ xf_prev' = WordAt(before.vram, xf.src + d - 1)
        /\ \A i \in 0 .. (IF xf.sh = 1 THEN d - 1 ELSE d) - 1 : \A h \in Both :
               HasSource(i, h) => rowbuf'[i][h] = SourceByte(i, h)
    BY <1>3, StoresWord
  <2> HIDE DEF d
  <2> QED BY <1>1, <1>2, <2>2, <2>3, ReadNext
<1>4. CASE ~arrived.wr
  <2>1. rowbuf' = rowbuf /\ xf_prev' = xf_prev
    BY <1>4 DEF RowBuffer
  <2>2. Landed = d /\ Stored = (IF xf.sh = 1 THEN d - 1 ELSE d)
    BY <1>4 DEF Landed, Stored
  <2>3. \A i \in 0 .. (IF xf.sh = 1 THEN d - 1 ELSE d) - 1 : \A h \in Both :
               HasSource(i, h) => rowbuf'[i][h] = SourceByte(i, h)
    BY <1>1, <2>1, <2>2 DEF ReadSoFar, Gathered
  <2>4. d > 0 => xf_prev' = WordAt(before.vram, xf.src + d - 1)
    BY <1>1, <2>1, <2>2 DEF ReadSoFar
  <2>5. CASE NoWordMoves
    <3>1. Done' = d /\ arrived'.wr = FALSE /\ Landed' = d
      BY <2>5 DEF NoWordMoves, Landed
    <3> HIDE DEF d
    <3> QED BY <1>1, <1>2, <2>3, <2>4, <3>1, ReadNext
  <2>6. CASE WordMoves
    <3> DEFINE e == d + 1
    <3>1. Done' = e /\ arrived'.wr /\ d \in Nat /\ arrived'.data = WordAt(before.vram, xf.src + d)
      BY <1>1, <2>6 DEF WordMoves
    <3> HIDE DEF d
    <3>2. e \in Nat /\ e - 1 = d /\ xf.src + e - 1 = xf.src + d
      BY <1>1, <3>1
    <3>3. Landed' = d
      BY <3>1, <3>2 DEF Landed
    <3>4. arrived'.data = WordAt(before.vram, xf.src + e - 1)
      BY <3>1, <3>2
    <3> HIDE DEF e
    <3> QED BY <1>1, <1>2, <2>3, <2>4, <3>1, <3>3, <3>4, ReadNext
  <2> QED BY <2>5, <2>6
<1> QED
  BY <1>1, <1>2, <1>3, <1>4

LEMMA WritesOn ==
  ASSUME TransferFacts, TransferFrame, RowBuffer, st = "SRT_BURST_WAIT", srt_we, srt_len' = srt_len,
         Done \in Nat, WordMoves \/ NoWordMoves
  PROVE  WrittenSoFar'
<1>1. /\ WrittenSoFar /\ srt_we = TRUE /\ xf.dst \in Nat /\ srt_len \in Nat /\ srt_len <= ExpRow
      /\ xf.dst + srt_len <= VramWords /\ xf.fill \in BOOLEAN /\ HeldVram /\ Transfer
      /\ (~xf.fill => Gathered(srt_len)) /\ before.srt_src \in Nat
  BY DEF TransferFacts, WrittenSoFar
<1>2. ~arrived.wr
  BY DEF TransferFacts, Handshake, Bursting
<1>3. rowbuf' = rowbuf /\ rb_q' = rowbuf[rb_go % ExpRow]
  BY <1>2 DEF RowBuffer
<1> DEFINE d == Done
<1>4. vram = [b \in Bytes |-> IF b \div 2 \in xf.dst .. xf.dst + d - 1 THEN Target[b] ELSE before.vram[b]]
  BY <1>1 DEF WrittenSoFar
<1>5. CASE NoWordMoves
  <2>1. Done' = d /\ vram' = vram
    BY <1>5 DEF NoWordMoves
  <2>2. (st = "SRT_BURST_WAIT" /\ bp.phase = "words" /\ bp.settled)' => rb_q' = rowbuf[rb_go']
    <3> HAVE (st = "SRT_BURST_WAIT" /\ bp.phase = "words" /\ bp.settled)'
    <3>1. rb_go' = rb_go /\ rb_go \in 0 .. srt_len - 1
      BY <1>5 DEF NoWordMoves
    <3>2. rb_go \in 0 .. ExpRow - 1
      BY <1>1, <3>1, Sizes
    <3>3. rb_go % ExpRow = rb_go
      <4> DEFINE g == rb_go
      <4>1. g \in 0 .. ExpRow - 1
        BY <3>2
      <4> HIDE DEF g
      <4>2. g % ExpRow = g
        BY <4>1, Sizes, SmallRemainder
      <4> QED BY <4>2 DEF g
    <3> QED BY <1>3, <3>1, <3>3
  <2> HIDE DEF d
  <2> QED BY <1>1, <1>3, <1>4, <2>1, <2>2, WrittenNext
<1>6. CASE WordMoves
  <2>1. /\ bp.phase = "words" /\ bp.settled /\ bp'.settled = FALSE /\ d < srt_len /\ Done' = d + 1 /\ rb_go = d
        /\ vram' = Put(vram, xf.dst + d, sb_wdata, sb_be) /\ d \in Nat
    BY <1>6 DEF WordMoves
  <2>2. sb_wdata = WordData(d)
    BY <1>1, <2>1 DEF WrittenSoFar, sb_wdata, WordData
  <2>3. sb_be = WordMask(d) \cap {h \in Both : xf.transp => WordData(d)[h] # 0}
    BY <2>1, <2>2 DEF sb_be, WordMask
  <2>4. \A b \in Bytes : b \div 2 = xf.dst + d =>
            Target[b] = IF 1 + (b % 2) \in sb_be THEN WordData(d)[1 + (b % 2)] ELSE before.vram[b]
    <3> SUFFICES ASSUME NEW b \in Bytes, b \div 2 = xf.dst + d
                 PROVE  Target[b] = IF 1 + (b % 2) \in sb_be THEN WordData(d)[1 + (b % 2)] ELSE before.vram[b]
      OBVIOUS
    <3> DEFINE h == 1 + (b % 2)
    <3>1. b \in Nat
      BY Sizes DEF Bytes
    <3>2. h \in {1, 2} /\ b = 2 * (b \div 2) + h - 1
      BY <3>1
    <3> HIDE DEF h
    <3>3. h \in Both /\ b = 2 * (xf.dst + d) + h - 1
      BY <3>2 DEF Both
    <3>4. d \in 0 .. srt_len - 1
      BY <1>1, <2>1
    <3> HIDE DEF d
    <3>5. Target[b] = IF h \in WordMask(d) /\ (xf.transp => WordData(d)[h] # 0)
                     THEN WordData(d)[h] ELSE before.vram[b]
      <4>1. req \in Requests
        BY DEF TransferFacts
      <4> QED BY <1>1, <3>3, <3>4, <4>1, TargetOfWord
    <3>6. h \in sb_be <=> h \in WordMask(d) /\ (xf.transp => WordData(d)[h] # 0)
      BY <2>3, <3>3
    <3>7. Target[b] = IF h \in sb_be THEN WordData(d)[h] ELSE before.vram[b]
      BY <3>5, <3>6
    <3> QED BY <3>7 DEF h
  <2>5. (xf.dst + d) % VramWords = xf.dst + d
    <3> DEFINE u == xf.dst + d
    <3>1. u \in 0 .. VramWords - 1
      BY <1>1, <2>1, Sizes
    <3> HIDE DEF u
    <3>2. u % VramWords = u
      BY <3>1, Sizes, SmallRemainder
    <3> QED BY <3>2 DEF u
  <2> HIDE DEF d
  <2>6. vram' = [b \in Bytes |-> IF b \div 2 = xf.dst + d /\ 1 + (b % 2) \in sb_be
                                 THEN WordData(d)[1 + (b % 2)] ELSE vram[b]]
    <3>1. DOMAIN vram = Bytes
      BY <1>4
    <3> QED BY <2>1, <2>2, <2>5, <3>1 DEF Put
  <2> DEFINE e == d + 1
  <2>7. \A b \in Bytes : b \div 2 \in xf.dst .. xf.dst + e - 1 <=> b \div 2 = xf.dst + d \/ b \div 2 \in xf.dst .. xf.dst + d - 1
    <3> SUFFICES ASSUME NEW b \in Bytes
                 PROVE  b \div 2 \in xf.dst .. xf.dst + e - 1 <=> b \div 2 = xf.dst + d \/ b \div 2 \in xf.dst .. xf.dst + d - 1
      OBVIOUS
    <3>1. b \div 2 \in Int
      BY Sizes DEF Bytes
    <3> QED BY <1>1, <2>1, <3>1
  <2>8. \A b \in Bytes : b \div 2 = xf.dst + d => b \div 2 \notin xf.dst .. xf.dst + d - 1
    BY <1>1, <2>1
  <2> HIDE DEF e
  <2>9. vram' = [b \in Bytes |-> IF b \div 2 \in xf.dst .. xf.dst + e - 1 THEN Target[b] ELSE before.vram[b]]
    <3> DEFINE Old1(b) == b \div 2 \in xf.dst .. xf.dst + d - 1
    <3> DEFINE New1(b) == b \div 2 \in xf.dst .. xf.dst + e - 1
    <3> DEFINE Here(b) == b \div 2 = xf.dst + d
    <3>1. vram' = [b \in Bytes |-> IF Here(b) /\ 1 + (b % 2) \in sb_be THEN WordData(d)[1 + (b % 2)] ELSE vram[b]]
      BY <2>6
    <3>2. vram = [b \in Bytes |-> IF Old1(b) THEN Target[b] ELSE before.vram[b]]
      BY <1>4
    <3>3. \A b \in Bytes : (New1(b) <=> Here(b) \/ Old1(b)) /\ (Here(b) => ~Old1(b))
      BY <2>7, <2>8
    <3>4. \A b \in Bytes : Here(b) => Target[b] = IF 1 + (b % 2) \in sb_be THEN WordData(d)[1 + (b % 2)] ELSE before.vram[b]
      BY <2>4
    <3>5. vram' = [b \in Bytes |-> IF New1(b) THEN Target[b] ELSE before.vram[b]]
      <4> HIDE DEF Old1, New1, Here
      <4> QED BY <3>1, <3>2, <3>3, <3>4
    <3> QED BY <3>5
  <2>10. Done' = e
    BY <2>1 DEF e
  <2> QED BY <1>1, <1>3, <2>1, <2>9, <2>10, WrittenNext
<1> QED
  BY <1>5, <1>6

LEMMA WaitsForPiece ==
  ASSUME BusInv, Around, SrtBurstWait, ~sb_done
  PROVE  BusInv' /\ Answers
<1>1. st = "SRT_BURST_WAIT" /\ Keeps /\ ack' = FALSE /\ UNCHANGED <<exp, xf, sd>> /\ st' = st /\ sb' = sb
      /\ srt_cnt' = srt_cnt /\ srt_we' = srt_we /\ srt_len' = srt_len
  BY DEF SrtBurstWait, NoAck
<1>2. Moving /\ Moving'
  BY <1>1 DEF Moving
<1>3. TransferFacts /\ TransferFrame
  BY <1>1, <1>2, Transferring
<1>4. /\ Bursting' /\ sd_ack' = FALSE /\ bp' \in BurstType /\ sb_done' \in BOOLEAN
      /\ Done \in Nat /\ (WordMoves \/ NoWordMoves)
  BY <1>1, <1>3, BurstClock DEF Around
<1>5. (~srt_we => ReadSoFar' /\ vram' = vram) /\ (srt_we => WrittenSoFar')
  BY <1>1, <1>3, <1>4, ReadsOn, WritesOn DEF Around
<1>6. vram' = [b \in Bytes |-> vram'[b]]
  <2>1. CASE srt_we
    BY <1>5, <2>1 DEF WrittenSoFar
  <2>2. CASE ~srt_we
    BY <1>3, <1>5, <2>2 DEF TransferFacts, BusTypeOK
  <2> QED BY <2>1, <2>2
<1>7. DOMAIN rowbuf' = 0 .. ExpRow - 1 /\ arrived'.wr \in BOOLEAN
  <2>1. DOMAIN rowbuf' = DOMAIN rowbuf
    BY DEF Around, RowBuffer
  <2>2. arrived'.wr \in BOOLEAN
    BY <1>4 DEF WordMoves, NoWordMoves
  <2> QED BY <1>3, <2>1, <2>2 DEF TransferFacts, BusTypeOK
<1>8. BusTypeOK'
  BY <1>1, <1>3, <1>4, <1>6, <1>7 DEF TransferFacts, TransferFrame, BusTypeOK, States, BurstType, Keeps
<1>9. Handshake'
  BY <1>1, <1>3, <1>4 DEF Handshake, RandomQuiet, TransferFacts, TransferFrame
<1> QED
  BY <1>1, <1>2, <1>3, <1>5, <1>8, <1>9, SameTransfer, GoesOn DEF TransferFacts

(* A piece is over: the next one, the other phase, or the answer.           *)
LEMMA EndsPiece ==
  ASSUME BusInv, Around, SrtBurstWait, sb_done
  PROVE  BusInv' /\ Answers
<1>1. st = "SRT_BURST_WAIT" /\ Keeps /\ UNCHANGED <<exp, xf, sd>> /\ sb' = [sb EXCEPT !.req = FALSE]
      /\ (PieceDone \/ ReadPhaseDone \/ WritePhaseDone)
  BY DEF SrtBurstWait
<1>2. Moving
  BY <1>1 DEF Moving
<1>3. TransferFacts /\ TransferFrame
  BY <1>1, <1>2, Transferring
<1>4. Bursting /\ bp \in BurstType /\ bp.phase = "told" /\ bp.issued = 0 /\ ~arrived.wr
      /\ sb \in [req : BOOLEAN, we : BOOLEAN, addr : Nat, len : Nat]
  <2>1. Bursting
    BY <1>1, <1>3 DEF TransferFacts, Handshake
  <2> QED BY <1>3, <2>1 DEF TransferFacts, BusTypeOK, BurstType, Bursting
<1>5. Waits
  BY <1>1, <1>3, <1>4, BurstPort DEF Around, TransferFacts
<1>6. /\ vram' = vram /\ sd_ack' = FALSE /\ sb_done' = FALSE /\ arrived'.wr = FALSE
      /\ bp' \in BurstType /\ bp'.phase = "told" /\ bp'.issued = 0
      /\ rowbuf' = rowbuf /\ xf_prev' = xf_prev
  BY <1>4, <1>5 DEF Waits, NoServe, NoWord, BurstType, Around, RowBuffer
<1>7. sb'.req = FALSE /\ sb' \in [req : BOOLEAN, we : BOOLEAN, addr : Nat, len : Nat]
  BY <1>1, <1>4
<1> DEFINE d == srt_cnt + sb.len
<1>8. Done = d /\ Landed = d /\ d \in Nat /\ d <= srt_len /\ sb.len \in Nat \ {0}
  <2>1. sb.len \in 1 .. srt_len - srt_cnt
    BY <1>4 DEF Bursting
  <2>2. Done = d /\ Landed = d
    BY <1>1, <1>4 DEF Done, Landed
  <2>3. srt_cnt \in Nat /\ srt_len \in Nat
    BY <1>3 DEF TransferFacts
  <2> QED BY <2>1, <2>2, <2>3
<1> DEFINE g == IF xf.sh = 1 THEN d - 1 ELSE d
<1>9. ~srt_we => /\ ~xf.fill /\ vram = before.vram /\ Gathered(g)
                 /\ (d > 0 => xf_prev = WordAt(before.vram, xf.src + d - 1))
  <2>1. Stored = g
    BY <1>8 DEF Stored
  <2> QED BY <1>3, <1>8, <2>1 DEF TransferFacts, ReadSoFar
<1>10. srt_we => /\ (~xf.fill => Gathered(srt_len))
                 /\ vram = [b \in Bytes |-> IF b \div 2 \in xf.dst .. xf.dst + d - 1 THEN Target[b] ELSE before.vram[b]]
  BY <1>3, <1>8 DEF TransferFacts, WrittenSoFar
<1> HIDE DEF g
<1>11. CASE PieceDone
  <2>1. /\ srt_cnt' = d /\ srt_we' = srt_we /\ srt_len' = srt_len /\ d # srt_len
        /\ st' = "SRT_BURST_GAP" /\ ack' = FALSE
    BY <1>11 DEF PieceDone, Turns, NoAck
  <2>2. BusTypeOK'
    BY <1>1, <1>3, <1>6, <1>7, <1>8, <2>1 DEF TransferFacts, TransferFrame, BusTypeOK, States, BurstType, Keeps
  <2>3. Handshake'
    BY <1>1, <1>3, <1>6, <1>7, <2>1 DEF Handshake, RandomQuiet, BurstQuiet, TransferFacts, TransferFrame
  <2>4. Done' = d /\ Landed' = d
    BY <1>6, <2>1 DEF Done, Landed
  <2>5. srt_cnt' < srt_len' /\ Moving'
    <3>1. srt_len \in Nat
      BY <1>3 DEF TransferFacts
    <3> QED BY <1>8, <2>1, <3>1 DEF Moving
  <2> HIDE DEF d
  <2>6. ~srt_we' => ReadSoFar'
    <3> HAVE ~srt_we'
    <3>1. \A i \in 0 .. (IF xf.sh = 1 THEN d - 1 ELSE d) - 1 : \A h \in Both :
               HasSource(i, h) => rowbuf'[i][h] = SourceByte(i, h)
      BY <1>6, <1>9, <2>1 DEF Gathered, g
    <3> QED BY <1>3, <1>6, <1>9, <2>1, <2>4, <3>1, ReadNext
  <2>7. srt_we' => WrittenSoFar'
    <3> HAVE srt_we'
    <3>1. bp'.phase # "words"
      BY <1>6
    <3> QED BY <1>3, <1>6, <1>10, <2>1, <2>4, <3>1, WrittenNext
  <2>8. Transfer'
    BY <1>3, <2>1, SameTransfer
  <2> QED BY <1>2, <1>3, <2>1, <2>2, <2>3, <2>5, <2>6, <2>7, <2>8, GoesOn
<1>12. CASE ReadPhaseDone
  <2>1. /\ ~srt_we /\ d = srt_len /\ srt_we' = TRUE /\ srt_cnt' = 0
        /\ srt_len' = (IF xf.isrc THEN rc_ndw ELSE srt_len) /\ st' = "SRT_BURST_GAP" /\ ack' = FALSE
    BY <1>12 DEF ReadPhaseDone, Turns, NoAck
  <2>2. Transfer' /\ srt_len' = g /\ srt_len' \in Nat \ {0}
    <3>1. CASE OfRow
      <4>1. srt_len' = rc_ndw
        BY <2>1, <3>1 DEF OfRow
      <4>2. OfRow'
        <5>1. rc_sh' = rc_sh /\ rc_lastb' = rc_lastb /\ rc_ndw' = rc_ndw
          BY <1>3 DEF TransferFrame, rc_sh, rc_lastb, rc_ndw
        <5> QED BY <1>3, <2>1, <3>1, <4>1, <5>1 DEF TransferFrame, OfRow
      <4>3. rc_ndw \in 1 .. ExpRow /\ xf.sh = rc_sh /\ srt_len = IF xf.sh = 1 THEN rc_ndw + 1 ELSE rc_ndw
        BY <1>3, <2>1, <3>1, RowGeometry DEF OfRow, TransferFacts
      <4>4. g = rc_ndw
        BY <2>1, <4>3, Sizes DEF g
      <4> QED BY <4>1, <4>2, <4>3, <4>4, Sizes DEF Transfer
    <3>2. CASE OfShiftRegister
      <4>1. xf.isrc = FALSE /\ xf.sh = 0
        BY <3>2 DEF OfShiftRegister
      <4>2. srt_len' = srt_len /\ g = srt_len
        BY <2>1, <4>1 DEF g
      <4>3. OfShiftRegister'
        <5>1. RowName' = RowName
          BY <1>3 DEF TransferFrame, RowName
        <5> QED BY <1>3, <3>2, <4>2, <5>1 DEF TransferFrame, OfShiftRegister
      <4> QED BY <1>3, <4>2, <4>3 DEF Transfer, TransferFacts
    <3> QED BY <1>3, <3>1, <3>2 DEF TransferFacts, Transfer
  <2>3. BusTypeOK'
    BY <1>1, <1>3, <1>6, <1>7, <2>1, <2>2 DEF TransferFacts, TransferFrame, BusTypeOK, States, BurstType, Keeps
  <2>4. Handshake'
    BY <1>1, <1>3, <1>6, <1>7, <2>1 DEF Handshake, RandomQuiet, BurstQuiet, TransferFacts, TransferFrame
  <2>5. Done' = 0
    BY <2>1 DEF Done
  <2>6. srt_cnt' < srt_len' /\ Moving'
    BY <2>1, <2>2 DEF Moving
  <2>7. WrittenSoFar'
    <3>1. xf' = xf /\ before' = before /\ Target' = Target
      BY <1>3 DEF TransferFrame
    <3>2. Gathered(srt_len)'
      BY <1>6, <1>9, <2>1, <2>2, <3>1 DEF Gathered, HasSource, SourceByte, Shift
    <3>3. vram' = [b \in Bytes |-> before.vram[b]]
      BY <1>3, <1>6, <1>9, <2>1 DEF TransferFacts, HeldVram
    <3>4. \A b \in Bytes : b \div 2 \notin xf.dst .. xf.dst + 0 - 1
      BY <1>3, Sizes DEF Bytes, TransferFacts
    <3>5. vram' = [b \in Bytes |-> IF b \div 2 \in xf.dst .. xf.dst + 0 - 1 THEN Target[b] ELSE before.vram[b]]
      BY <3>3, <3>4
    <3> QED BY <2>1, <2>5, <3>1, <3>2, <3>5 DEF WrittenSoFar
  <2> QED BY <1>2, <1>3, <2>1, <2>2, <2>3, <2>4, <2>6, <2>7, GoesOn
<1>13. CASE WritePhaseDone
  <2>1. /\ srt_we /\ d = srt_len /\ srt_cnt' = d /\ srt_we' = srt_we /\ srt_len' = srt_len
        /\ st' = "IDLE" /\ ack' = TRUE
    BY <1>13 DEF WritePhaseDone, Turns, Ack
  <2>2. BusTypeOK'
    BY <1>1, <1>3, <1>6, <1>7, <1>8, <2>1 DEF TransferFacts, TransferFrame, BusTypeOK, States, BurstType, Keeps
  <2>3. BusInv'
    BY <1>1, <1>3, <1>6, <1>7, <2>1, <2>2, EndsIdle DEF Handshake, RandomQuiet, BurstQuiet, TransferFacts, TransferFrame
  <2>4. vram' = Target
    <3>1. vram' = [b \in Bytes |-> IF b \div 2 \in xf.dst .. xf.dst + srt_len - 1 THEN Target[b] ELSE before.vram[b]]
      BY <1>6, <1>10, <2>1
    <3>2. \A b \in Bytes : b \div 2 \notin xf.dst .. xf.dst + srt_len - 1 => Target[b] = before.vram[b]
      BY <1>3, <2>1, TargetElsewhere DEF TransferFacts
    <3>3. Target = [b \in Bytes |-> Target[b]]
      BY <1>3, TransferTarget DEF TransferFacts
    <3>4. vram' = [b \in Bytes |-> Target[b]]
      BY <3>1, <3>2
    <3> QED BY <3>3, <3>4
  <2>5. req.row \/ (~req.row /\ req.we /\ req.region \in {"vram", "exp"})
    BY <1>3 DEF TransferFacts, Transfer, OfRow, OfShiftRegister
  <2> QED BY <1>1, <1>3, <2>1, <2>3, <2>4, <2>5, WroteVram DEF Answers, TransferFacts, TransferFrame
<1> QED
  BY <1>1, <1>11, <1>12, <1>13

-----------------------------------------------------------------------------
LEMMA BusStarts ==
  ASSUME NEW p \in Programs, BusInit(p)
  PROVE  BusInv /\ Mem!Init
<1>1. todo \in Seq(Requests) /\ req = None /\ st = "IDLE" /\ ack = FALSE
  BY GspBusAssumption DEF BusInit
<1>2. vram = [b \in Bytes |-> vram[b]]
  BY GspBusAssumption DEF BusInit, Bytes
<1>3. /\ sd = NoAccess /\ sd_ack = FALSE /\ sb = NoBurst /\ sb_done = FALSE /\ arrived = NoWord /\ pal_we = None
      /\ bp = [phase |-> "idle", issued |-> 0, settled |-> TRUE] /\ srt_we = FALSE /\ srt_cnt = 0 /\ srt_len = 0
      /\ palbank = 0 /\ srt_enable = FALSE /\ srt_src = 0 /\ rowbuf = [i \in 0 .. ExpRow - 1 |-> <<0, 0>>]
  BY DEF BusInit
<1>4. BusTypeOK
  BY <1>1, <1>2, <1>3 DEF BusTypeOK, States, NoAccess, NoBurst, NoWord
<1>5. Handshake
  BY <1>1, <1>3 DEF Handshake, RandomQuiet, BurstQuiet, NoAccess, NoBurst, NoWord
<1>6. Holding /\ RegisterInv /\ VramInv /\ ExpanderInv /\ TransferInv
  BY <1>1 DEF Holding, RegisterInv, VramInv, ExpanderInv, TransferInv, Moving
<1>7. memport = Mem!Idle
  BY <1>1 DEF memport, Mem!Idle, Mem!NoAnswer
<1>8. Mem!Init
  BY <1>1, <1>7, SeenAtStart DEF BusInit, Mem!Init
<1> QED
  BY <1>4, <1>5, <1>6, <1>8 DEF BusInv

LEMMA BusClock ==
  ASSUME BusInv, BusNext
  PROVE  BusInv' /\ Answers
<1>1. Around /\ Fsm
  BY DEF BusNext, Around
<1>2. CASE IdleRow \/ IdleSrtWrite
  BY <1>1, <1>2, TakesTransfer
<1>3. CASE IdleSrtRead \/ IdleSrtOff \/ IdleUnmapped
  BY <1>1, <1>3, AnswersAtOnce
<1>4. CASE IdleVram
  BY <1>1, <1>4, TakesVram
<1>5. CASE IdleExpander
  BY <1>1, <1>5, TakesExpander, AnswersAtOnce
<1>6. CASE IdleLo \/ IdleHi \/ IdlePalette
  BY <1>1, <1>6, TakesRegister
<1>7. CASE IdleRest
  BY <1>1, <1>7, Rests
<1>8. CASE RegRd
  BY <1>1, <1>8, ReadsRegister
<1>9. CASE VramWait
  BY <1>1, <1>9, WaitsForVram
<1>10. CASE Exp0
  BY <1>1, <1>10, StartsWord
<1>11. CASE ExpWait
  BY <1>1, <1>11, WaitsForWord
<1>12. CASE SrtBurst \/ SrtBurstGap
  BY <1>1, <1>12, AsksForPiece
<1>13. CASE SrtBurstWait
  BY <1>1, <1>13, WaitsForPiece, EndsPiece
<1> QED
  BY <1>1, <1>2, <1>3, <1>4, <1>5, <1>6, <1>7, <1>8, <1>9, <1>10, <1>11, <1>12, <1>13 DEF Fsm

LEMMA BusStutters ==
  ASSUME BusInv, UNCHANGED busvars
  PROVE  BusInv' /\ UNCHANGED Mem!vars
<1>1. /\ UNCHANGED <<todo, req, st, ack, rdata, vram, lo, hi, pal, palbank, finescroll, srt_enable, srt_src, pal_we>>
      /\ UNCHANGED <<q, exp, xf, srt_we, srt_cnt, srt_len, rowbuf, rb_q, xf_prev>>
      /\ UNCHANGED <<sd, sd_ack, sd_rdata, sb, bp, arrived, sb_done, before>>
  BY DEF busvars, core, fsm, latches, transfer, memory, buffer
<1>2. Seen' = Seen /\ memport' = memport
  BY <1>1 DEF Seen, Snapshot, memport
<1>3. Target' = Target
  BY <1>1, TargetStays
<1>4. BusTypeOK' /\ Handshake' /\ Holding' /\ RegisterInv'
  BY <1>1 DEF BusInv, BusTypeOK, Handshake, RandomQuiet, BurstQuiet, Bursting, Holding, Latched, RegisterInv, Plain,
              LoTaken, HiTaken, PaletteTaken
<1>5. VramInv' /\ ExpanderInv'
  BY <1>1, <1>3 DEF BusInv, VramInv, ExpanderInv, Plain, Expanded, Pixels
<1>6. TransferInv'
  BY <1>1, <1>3 DEF BusInv, TransferInv, Moving, OfRow, OfShiftRegister, ReadSoFar, WrittenSoFar, Gathered, HasSource,
              SourceByte, Shift, Stored, Landed, Done, rc_sh, rc_lastb, rc_ndw, RowName, rb_go
<1> QED
  BY <1>2, <1>4, <1>5, <1>6 DEF BusInv, Mem!vars, Mem!state

LEMMA BusShowsOldOrNew ==
  ASSUME BusInv
  PROVE  OldOrNew
<1>1. SUFFICES ASSUME st # "IDLE", NEW b \in Bytes
               PROVE  vram[b] \in {before.vram[b], Target[b]}
  <2>1. DOMAIN vram = Bytes
    BY DEF BusInv, BusTypeOK
  <2> QED BY <1>1, <2>1, SeenMidway DEF OldOrNew
<1>2. BusTypeOK /\ Holding /\ HeldVram /\ before.srt_src \in Nat /\ srt_we \in BOOLEAN /\ req \in Requests
  <2>1. BusTypeOK /\ Holding /\ Handshake
    BY DEF BusInv
  <2> QED BY <1>1, <2>1 DEF BusTypeOK, Holding, HeldVram, Handshake
<1>3. CASE st = "REG_RD"
  BY <1>3 DEF BusInv, RegisterInv
<1>4. CASE st = "VRAM_WAIT"
  BY <1>2, <1>4 DEF BusInv, VramInv, BusTypeOK
<1>5. CASE st \in {"EXP0", "EXP_WAIT"}
  <2>1. /\ req.row = FALSE /\ ~req.srt /\ req.region = "exp" /\ req.we /\ exp.n \in 0 .. 3
        /\ vram = Expanded(IF st = "EXP_WAIT" /\ sd_ack THEN exp.n + 1 ELSE exp.n)
    BY <1>5 DEF BusInv, ExpanderInv, Plain
  <2>2. req.srt = FALSE
    BY <1>2, <2>1, RequestKinds DEF WordRequest
  <2>3. Expanded(4) = Target /\ req.data \subseteq 0 .. 7
    BY <1>2, <2>1, <2>2, ExpanderTarget
  <2> DEFINE n == IF st = "EXP_WAIT" /\ sd_ack THEN exp.n + 1 ELSE exp.n
  <2>4. n \in 0 .. 4
    BY <2>1
  <2>5. vram = Expanded(n)
    BY <2>1
  <2> HIDE DEF n
  <2>6. \A k : Expanded(k)[b] = IF Coloured(k, b) THEN before.lo[0][1 + (b % 2)] ELSE before.vram[b]
    BY DEF Expanded, Coloured
  <2>7. Coloured(n, b) => Coloured(4, b)
    BY <2>3, <2>4 DEF Coloured
  <2> QED BY <2>3, <2>5, <2>6, <2>7
<1>6. CASE Moving
  <2>1. (~srt_we => ReadSoFar) /\ (srt_we => WrittenSoFar)
    BY <1>6 DEF BusInv, TransferInv
  <2> QED BY <1>2, <2>1 DEF ReadSoFar, WrittenSoFar
<1> QED
  BY <1>1, <1>2, <1>3, <1>4, <1>5, <1>6 DEF BusTypeOK, States, Moving

(* The invariant of the glue, clock by clock, for any pace of the two SDRAM *)
(* ports: their handshakes, the latches and palette taken, the pixels       *)
(* expanded, the words of a transfer read and written so far.               *)
THEOREM BusInvariant == BusSpec => []BusInv
<1>1. (\E p \in Programs : BusInit(p)) => BusInv
  BY BusStarts
<1>2. BusInv /\ [BusNext]_busvars => BusInv'
  BY BusClock, BusStutters
<1> QED
  BY <1>1, <1>2, PTL DEF BusSpec

(* While a request is under way - a row copied at any byte shift, the       *)
(* expander, a shift-register cycle - every byte of VRAM, which the display *)
(* reads meanwhile, is the old one or the new one.                          *)
THEOREM BusOldOrNew == BusSpec => []OldOrNew
<1>1. BusInv => OldOrNew
  BY BusShowsOldOrNew
<1> QED
  BY <1>1, BusInvariant, PTL

(* Refinement: the glue, with its latches, expander, row buffer and pieces, *)
(* is the memory that the trace bench puts behind the core.  Every request  *)
(* takes effect whole, at the clock of its acknowledge, reads what was      *)
(* there before, and nothing else changes the memory.                       *)
THEOREM BusServesGspMemory == BusSpec => ServesGspMemory
<1>1. (\E p \in Programs : BusInit(p)) => Mem!Init
  BY BusStarts
<1>2. BusInv /\ [BusNext]_busvars => [Mem!Next]_(Mem!vars)
  BY BusClock, BusStutters DEF Answers
<1> QED
  BY <1>1, <1>2, BusInvariant, PTL DEF BusSpec, ServesGspMemory, Mem!Spec
=============================================================================
