----------------------------- MODULE SdramCtrl -----------------------------
(***************************************************************************)
(* rtl/sdram_ctrl.sv: the multi-port SDRAM controller.  Every step is one  *)
(* rising edge of the 96 MHz clock: exactly one branch of the case (state) *)
(* is taken, together with the assignments around it (capture pipeline,    *)
(* refresh counter, burst acceptance and completion), the chip obeys the   *)
(* command issued on that edge, and the clients drive their ports as       *)
(* docs/rtl-conventions.md prescribes.  Non-blocking assignments read the  *)
(* unprimed values.                                                        *)
(***************************************************************************)
EXTENDS Integers, SdramChip

CONSTANTS NCLI,                 \* random-access clients
          Loader,               \* the client only hw_reset resets (client 4)
          Sim,                  \* the client that asks again right after a reset (client 2)
          CYCLES_PER_REFRESH, STARTUP_CYCLES,
          REFRESH_MAX,          \* largest value of the 14-bit refresh counter
          BURST_CHUNK,          \* words of a burst before it yields
          AddrSize,             \* words of the chip; addresses wrap
          RowLen,               \* columns of a row
          rd_late, burst_slow,  \* the two menu switches
          Val, InitMem,         \* word values, and what the chip holds at power-up
          RowData,              \* word k of the row a burst write drains
          Requests,             \* Requests[i]: the accesses client i may ask for
          Bursts,               \* the bursts the burst client may ask for
          MaxLen,               \* longest burst
          Resets,               \* may the machine reset (mreset) strike?
          Bench                 \* the clients of sim/tb_sdram.cpp, not the machine's

Client == 0 .. NCLI - 1
Addr   == 0 .. AddrSize - 1
Access == [we : BOOLEAN, addr : Addr, data : Val]
BurstCmd == [we : BOOLEAN, addr : Addr, len : 1 .. MaxLen]
Row(a) == a \div RowLen

(* The clocks from a READ to its word being sampled depend on the phase of  *)
(* the chip's clock; rd_late states that phase, so both sides agree.        *)
ChipLatency == IF rd_late THEN 4 ELSE 3

ASSUME SdramAssumption ==
    /\ NCLI \in Nat \ {0} /\ Loader \in Nat /\ Sim \in Nat
    /\ CYCLES_PER_REFRESH \in Nat /\ STARTUP_CYCLES \in Nat
    /\ REFRESH_MAX \in Nat /\ STARTUP_CYCLES <= REFRESH_MAX
    /\ BURST_CHUNK \in Nat \ {0} /\ AddrSize \in Nat \ {0} /\ RowLen \in Nat \ {0}
    /\ AddrSize % RowLen = 0 /\ MaxLen \in Nat \ {0}
    /\ rd_late \in BOOLEAN /\ burst_slow \in BOOLEAN /\ Resets \in BOOLEAN /\ Bench \in BOOLEAN
    /\ Val \subseteq Int /\ -1 \notin Val
    /\ InitMem \in [Addr -> Val]
    /\ RowData \in [0 .. MaxLen -> Val]
    /\ Requests \in [Client -> SUBSET Access]
    /\ Bursts \subseteq BurstCmd

NoData == -1                    \* nothing drives the data pins
Word   == Val \cup {NoData}

VARIABLES
  state, wait_n,                                   \* the FSM
  refresh_count, refresh_due,
  cap,                                             \* tags of the READs in flight
  cur, last, cur_cmd,                              \* the single access being served
  any_req_q, b_start,                              \* registered decisions
  b_active, b_next, b_remain, b_issued, b_chunk,   \* the burst being served
  b_yield, b_accepted, b_is_we, b_gap,
  c_ack, rdata, b_wr, b_idx, b_data, b_done,       \* outputs to the clients
  c_req, c_cmd,                                    \* the random clients' registers
  b_req, b_cmd, b_wdata, buf,                      \* the burst client's registers
  booting,                                         \* after a machine reset
  chip, mem, dq                                    \* the chip and the data pins

fsm     == <<state, wait_n>>
refresh == <<refresh_count, refresh_due>>
grant   == <<cur, last, cur_cmd>>
burst   == <<b_active, b_next, b_remain, b_issued, b_yield, b_is_we>>
spacing == <<b_chunk, b_gap>>
outputs == <<cap, c_ack, rdata, b_wr, b_idx, b_data>>
ports   == <<c_req, c_cmd, b_req, b_cmd, b_wdata, buf, booting>>
vars == <<fsm, refresh, grant, burst, spacing, outputs, ports, any_req_q, b_start,
          b_accepted, b_done, chip, mem, dq>>

State == {"STARTUP", "IDLE", "ARB", "OPEN1", "OPEN2", "WAIT5", "WAIT4", "WAIT3", "WAIT2",
          "WAIT1", "REF", "BOPEN1", "BOPEN2", "BREAD", "BEND"}

ready == state # "STARTUP"

NoTag == [kind |-> "none", id |-> 0]
Tag   == [kind : {"none", "random", "burst"}, id : Nat]
Stage == 0 .. 4

NoCmd  == [op |-> "NOP", addr |-> 0, data |-> NoData]
ACTIVE(a) == [NoCmd EXCEPT !.op = "ACTIVE", !.addr = a]
COMMAND(o) == [NoCmd EXCEPT !.op = o]

EmptyBuf == [k \in 0 .. MaxLen - 1 |-> NoData]

-----------------------------------------------------------------------------
(* Arbitration: the first pending client after the one served last.         *)

PendingUnmasked == {i \in Client : c_req[i]}                      \* mutant
Pending == {i \in Client : c_req[i] /\ ~c_ack[i]}
any_req == Pending # {}
DistanceFixed(i) == i                                            \* mutant
Distance(i) == (i + NCLI - 1 - last) % NCLI
pick == CHOOSE i \in Pending : \A j \in Pending : Distance(i) <= Distance(j)

-----------------------------------------------------------------------------
(* The assignments outside the case statement.                              *)

(* The tag reaching stage 0 marks the clock on which dq_in holds its word.  *)
(* A tag issued on this edge enters at the stage rd_late selects.           *)
TagStageEarly == 3                                               \* mutant
TagStage == IF rd_late THEN 4 ELSE 3

Shifted(tag) == [k \in Stage |-> IF k = TagStage /\ tag # NoTag THEN tag
                                 ELSE IF k = 4 THEN NoTag ELSE cap[k + 1]]

(* mutant: the defaults, assigned last, clear the acknowledge of a read     *)
CaptureDefaultsLast(tag, wack) ==
    /\ cap' = Shifted(tag)
    /\ c_ack' = [i \in Client |-> i \in wack]
    /\ b_wr' = (cap[0].kind = "burst")
    /\ rdata' = dq[0] /\ b_idx' = cap[0].id /\ b_data' = dq[0]

Capture(tag, wack) ==
    /\ cap' = Shifted(tag)
    /\ c_ack' = [i \in Client |-> i \in wack \/ cap[0] = [kind |-> "random", id |-> i]]
    /\ b_wr' = (cap[0].kind = "burst")
    /\ IF cap[0] # NoTag THEN rdata' = dq[0] ELSE UNCHANGED rdata
    /\ IF cap[0].kind = "burst" THEN b_idx' = cap[0].id /\ b_data' = dq[0]
                                ELSE UNCHANGED <<b_idx, b_data>>

(* The chip takes the command: a column command reads or writes the word,   *)
(* and a word read reaches the sampled data pins ChipLatency clocks later.  *)
(* Driving the pins while a word is still on its way is a collision.        *)
Pins(cmd) ==
    LET writes == cmd.op \in {"WRITE", "WRITE_AP"}
        reads  == cmd.op \in {"READ", "READ_AP"}
        next   == ChipNext(chip, cmd.op, Row(cmd.addr))
    IN /\ chip' = [next EXCEPT !.ok = @ /\ (writes => \A k \in Stage : dq[k] = NoData)]
       /\ mem' = IF writes THEN [mem EXCEPT ![cmd.addr] = cmd.data] ELSE mem
       /\ dq' = [k \in Stage |-> IF k = ChipLatency /\ reads THEN mem[cmd.addr]
                                 ELSE IF k = 4 THEN NoData ELSE dq[k + 1]]

(* mutant: the comparison holds for one clock only *)
CountRefreshEqual ==
    /\ refresh_count' = (refresh_count + 1) % (REFRESH_MAX + 1)
    /\ refresh_due' = (refresh_count = CYCLES_PER_REFRESH)

CountRefresh ==
    /\ refresh_count' = (refresh_count + 1) % (REFRESH_MAX + 1)
    /\ refresh_due' = (refresh_count > CYCLES_PER_REFRESH)

(* A burst is accepted once per rise of b_req, when none is active.         *)
AcceptBurstAgain == b_req /\ ~b_active /\ ~b_done                 \* mutant
AcceptBurst == b_req /\ ~b_active /\ ~b_done /\ ~b_accepted

BurstDone == /\ state = "WAIT1" /\ ~b_active /\ b_req /\ ~b_done
             /\ b_issued # 0 /\ b_remain = 0

(* The burst registers: acceptance and completion override what the branch  *)
(* of the case statement assigned (active, next, remain, issued, yield).    *)
BurstRegs(active, next, remain, issued, yield) ==
    /\ b_done' = BurstDone
    /\ b_accepted' = (b_req /\ (b_accepted \/ AcceptBurst))
    /\ IF AcceptBurst
       THEN /\ b_active' = TRUE /\ b_is_we' = b_cmd.we /\ b_next' = b_cmd.addr
            /\ b_remain' = b_cmd.len /\ b_issued' = 0 /\ b_yield' = FALSE
       ELSE /\ b_active' = active /\ b_next' = next /\ b_remain' = remain
            /\ b_issued' = (IF BurstDone THEN 0 ELSE issued)
            /\ b_yield' = yield /\ UNCHANGED b_is_we

KeepBurst == BurstRegs(b_active, b_next, b_remain, b_issued, b_yield)

(* mutant: a burst never lets a random client in between its chunks *)
DecisionsNoYield ==
    /\ any_req_q' = any_req
    /\ b_start' = (b_active /\ ~refresh_due)

Decisions ==
    /\ any_req_q' = any_req
    /\ b_start' = (b_active /\ ~(b_yield /\ any_req_q) /\ ~refresh_due)

-----------------------------------------------------------------------------
(* The clients.  A random client holds its request until the acknowledge    *)
(* and drops it on the next edge; the burst client holds b_req until b_done *)
(* (stunrun_core's arbiter then releases the port for at least one clock).  *)
(* The machine reset drops every request but the loader's, and is released  *)
(* only once the controller is ready.  The SIM prefetch asks again at once; *)
(* every other client waits for a processor to reboot, which outlasts by    *)
(* far whatever access or burst the reset has cut off (booting).            *)

NoAccess == [we |-> FALSE, addr |-> 0, data |-> NoData]
Wants == {w \in [Client -> UNION {Requests[i] : i \in Client} \cup {NoAccess}] :
             \A i \in Client : w[i] \in Requests[i] \cup {NoAccess}}

MayAsk(i, mreset) == \/ i = Loader
                     \/ ready /\ ~mreset /\ (booting => i = Sim)

RandomPorts(mreset) ==
    \E want \in Wants :
       LET raise == {i \in Client : ~c_req[i] /\ want[i] # NoAccess /\ MayAsk(i, mreset)}
       IN /\ c_req' = [i \in Client |-> \/ i \in raise
                                        \/ c_req[i] /\ ~c_ack[i] /\ (i = Loader \/ ~mreset)]
          /\ c_cmd' = [i \in Client |-> IF i \in raise THEN want[i] ELSE c_cmd[i]]

BurstPort(mreset) ==
    /\ b_wdata' = RowData[b_issued]
    /\ \/ \E cmd \in Bursts : /\ ~b_req /\ ready /\ ~mreset /\ ~booting
                              /\ b_req' = TRUE /\ b_cmd' = cmd /\ buf' = EmptyBuf
       \/ /\ b_req' = (b_req /\ ~b_done /\ ~mreset)
          /\ buf' = IF b_wr THEN [buf EXCEPT ![b_idx] = b_data] ELSE buf
          /\ UNCHANGED b_cmd

MachinePorts ==
    \E mreset \in {FALSE, Resets} :
        /\ RandomPorts(mreset)
        /\ BurstPort(mreset)
        /\ booting' = (mreset \/ (booting /\ (state # "IDLE" \/ b_active)))

(* The clients of the bench look at the outputs after the edge: they drop   *)
(* an acknowledged request before the next one, or put the next request in  *)
(* its place, so that c_req never falls.                                    *)
BenchRandom ==
    \E want \in Wants :
       LET raise == {i \in Client : ready /\ want[i] # NoAccess /\ (~c_req[i] \/ c_ack'[i])}
       IN /\ c_req' = [i \in Client |-> i \in raise \/ (c_req[i] /\ ~c_ack'[i])]
          /\ c_cmd' = [i \in Client |-> IF i \in raise THEN want[i] ELSE c_cmd[i]]

BenchBurst ==
    /\ b_wdata' = RowData[b_issued]
    /\ \/ \E cmd \in Bursts : ready /\ (~b_req \/ b_done') /\ b_req' = TRUE /\ b_cmd' = cmd
       \/ b_req' = (b_req /\ ~b_done') /\ UNCHANGED b_cmd
    /\ UNCHANGED <<buf, booting>>

BenchPorts == BenchRandom /\ BenchBurst

Ports == IF Bench THEN BenchPorts ELSE MachinePorts

(* What every edge does besides the branch of the case statement.           *)
Edge(cmd, tag, wack) == Capture(tag, wack) /\ Pins(cmd) /\ Decisions /\ Ports

-----------------------------------------------------------------------------
(* The branches of the case statement.                                      *)

StartupCommand ==
    CASE refresh_count = REFRESH_MAX - 31 -> "PRECHARGE"
      [] refresh_count \in {REFRESH_MAX - 23, REFRESH_MAX - 15} -> "AUTO_REFRESH"
      [] refresh_count = REFRESH_MAX - 7 -> "LOAD_MODE"
      [] OTHER -> "NOP"

Startup ==
    /\ state = "STARTUP"
    /\ state' = IF refresh_count = 0 THEN "IDLE" ELSE "STARTUP"
    /\ CountRefresh /\ KeepBurst
    /\ Edge(COMMAND(StartupCommand), NoTag, {})
    /\ UNCHANGED <<wait_n, grant, spacing>>

OpensBurst == b_start /\ b_active

IdleRefresh ==
    /\ state = "IDLE" /\ refresh_due
    /\ state' = "REF" /\ wait_n' = 6
    /\ refresh_count' = 0 /\ refresh_due' = FALSE
    /\ KeepBurst
    /\ Edge(COMMAND("AUTO_REFRESH"), NoTag, {})
    /\ UNCHANGED <<grant, spacing>>

IdleOpenBurst ==
    /\ state = "IDLE" /\ ~refresh_due /\ OpensBurst
    /\ state' = "BOPEN1" /\ b_chunk' = 0 /\ b_gap' = 0
    /\ CountRefresh /\ KeepBurst
    /\ Edge(ACTIVE(b_next), NoTag, {})
    /\ UNCHANGED <<wait_n, grant>>

IdleGrant ==
    /\ state = "IDLE" /\ ~refresh_due /\ ~OpensBurst /\ any_req
    /\ state' = "ARB" /\ cur' = pick /\ last' = pick
    /\ CountRefresh
    /\ BurstRegs(b_active, b_next, b_remain, b_issued, FALSE)
    /\ Edge(NoCmd, NoTag, {})
    /\ UNCHANGED <<wait_n, cur_cmd, spacing>>

IdleNothing ==
    /\ state = "IDLE" /\ ~refresh_due /\ ~OpensBurst /\ ~any_req
    /\ CountRefresh /\ KeepBurst
    /\ Edge(NoCmd, NoTag, {})
    /\ UNCHANGED <<fsm, grant, spacing>>

(* mutant: a write is acknowledged when its row is opened *)
ArbAcksWrite ==
    /\ state = "ARB" /\ state' = "OPEN1"
    /\ cur_cmd' = c_cmd[cur]
    /\ CountRefresh /\ KeepBurst
    /\ Edge(ACTIVE(c_cmd[cur].addr), NoTag, IF c_cmd[cur].we THEN {cur} ELSE {})
    /\ UNCHANGED <<wait_n, cur, last, spacing>>

Arb ==
    /\ state = "ARB" /\ state' = "OPEN1"
    /\ cur_cmd' = c_cmd[cur]
    /\ CountRefresh /\ KeepBurst
    /\ Edge(ACTIVE(c_cmd[cur].addr), NoTag, {})
    /\ UNCHANGED <<wait_n, cur, last, spacing>>

Open2Write ==
    /\ state = "OPEN2" /\ cur_cmd.we
    /\ state' = "WAIT3"
    /\ CountRefresh /\ KeepBurst
    /\ Edge([op |-> "WRITE_AP", addr |-> cur_cmd.addr, data |-> cur_cmd.data], NoTag, {cur})
    /\ UNCHANGED <<wait_n, grant, spacing>>

Open2Read ==
    /\ state = "OPEN2" /\ ~cur_cmd.we
    /\ state' = "WAIT5"
    /\ CountRefresh /\ KeepBurst
    /\ Edge([op |-> "READ_AP", addr |-> cur_cmd.addr, data |-> NoData],
            [kind |-> "random", id |-> cur], {})
    /\ UNCHANGED <<wait_n, grant, spacing>>

(* The states that only pass the time to the next one.                      *)
FollowingNoOpen2 == [OPEN1 |-> "OPEN2", WAIT5 |-> "WAIT4", WAIT4 |-> "WAIT3",
                     WAIT3 |-> "WAIT2", WAIT2 |-> "WAIT1", WAIT1 |-> "IDLE",
                     BOPEN1 |-> "BREAD"]                         \* mutant
Following == [OPEN1 |-> "OPEN2", WAIT5 |-> "WAIT4", WAIT4 |-> "WAIT3", WAIT3 |-> "WAIT2",
              WAIT2 |-> "WAIT1", WAIT1 |-> "IDLE", BOPEN1 |-> "BOPEN2", BOPEN2 |-> "BREAD"]

Wait ==
    /\ state \in DOMAIN Following /\ state' = Following[state]
    /\ CountRefresh /\ KeepBurst
    /\ Edge(NoCmd, NoTag, {})
    /\ UNCHANGED <<wait_n, grant, spacing>>

RefreshWait ==
    /\ state = "REF"
    /\ state' = IF wait_n = 0 THEN "IDLE" ELSE "REF"
    /\ wait_n' = (wait_n - 1) % 8
    /\ CountRefresh /\ KeepBurst
    /\ Edge(NoCmd, NoTag, {})
    /\ UNCHANGED <<grant, spacing>>

EndOfChunkNoLast == b_chunk = BURST_CHUNK - 1 \/ b_next % RowLen = RowLen - 1   \* mutant
EndOfChunk == b_remain = 1 \/ b_chunk = BURST_CHUNK - 1 \/ b_next % RowLen = RowLen - 1

BurstWord ==
    /\ state = "BREAD" /\ b_gap = 0
    /\ IF EndOfChunk THEN state' = "BEND" /\ wait_n' = 1 ELSE UNCHANGED fsm
    /\ b_chunk' = b_chunk + 1
    /\ b_gap' = IF burst_slow THEN 4 ELSE 1
    /\ CountRefresh
    /\ BurstRegs(b_active, (b_next + 1) % AddrSize, b_remain - 1, b_issued + 1, b_yield)
    /\ IF b_is_we
       THEN Edge([op |-> "WRITE", addr |-> b_next, data |-> b_wdata], NoTag, {})
       ELSE Edge([op |-> "READ", addr |-> b_next, data |-> NoData],
                 [kind |-> "burst", id |-> b_issued], {})
    /\ UNCHANGED grant

BurstGap ==
    /\ state = "BREAD" /\ b_gap # 0
    /\ b_gap' = b_gap - 1
    /\ CountRefresh /\ KeepBurst
    /\ Edge(NoCmd, NoTag, {})
    /\ UNCHANGED <<fsm, grant, b_chunk>>

(* Two clocks after the last word the row is closed; the burst then pauses, *)
(* or is over, in which case the longer wait lets its last word land.       *)
ClosingWaitShort == "WAIT2"                                      \* mutant
ClosingWait == IF b_remain = 0 THEN "WAIT5" ELSE "WAIT2"

BurstEnd ==
    /\ state = "BEND"
    /\ wait_n' = (wait_n - 1) % 8
    /\ CountRefresh
    /\ IF wait_n = 0
       THEN /\ state' = ClosingWait
            /\ BurstRegs(b_active /\ b_remain # 0, b_next, b_remain, b_issued, TRUE)
            /\ Edge(COMMAND("PRECHARGE"), NoTag, {})
       ELSE state' = "BEND" /\ KeepBurst /\ Edge(NoCmd, NoTag, {})
    /\ UNCHANGED <<grant, spacing>>

-----------------------------------------------------------------------------
(* Power-up: init has just fallen, no client has asked for anything.        *)
Init ==
    /\ state = "STARTUP" /\ wait_n = 0
    /\ refresh_count = REFRESH_MAX - STARTUP_CYCLES /\ refresh_due = FALSE
    /\ cap = [k \in Stage |-> NoTag]
    /\ cur = 0 /\ last = 0 /\ cur_cmd = NoAccess
    /\ any_req_q = FALSE /\ b_start = FALSE
    /\ b_active = FALSE /\ b_next = 0 /\ b_remain = 0 /\ b_issued = 0 /\ b_chunk = 0
    /\ b_yield = FALSE /\ b_accepted = FALSE /\ b_is_we = FALSE /\ b_gap = 0
    /\ c_ack = [i \in Client |-> FALSE] /\ rdata = NoData
    /\ b_wr = FALSE /\ b_idx = 0 /\ b_data = NoData /\ b_done = FALSE
    /\ c_req = [i \in Client |-> FALSE] /\ c_cmd = [i \in Client |-> NoAccess]
    /\ b_req = FALSE /\ b_cmd = [we |-> FALSE, addr |-> 0, len |-> 1]
    /\ b_wdata = NoData /\ buf = EmptyBuf /\ booting = FALSE
    /\ chip = PowerUp /\ mem = InitMem /\ dq = [k \in Stage |-> NoData]

Next == \/ Startup \/ IdleRefresh \/ IdleOpenBurst \/ IdleGrant \/ IdleNothing
        \/ Arb \/ Open2Write \/ Open2Read \/ Wait \/ RefreshWait
        \/ BurstWord \/ BurstGap \/ BurstEnd

Spec == Init /\ [][Next]_vars

(* The clock never stops.                                                   *)
FairSpec == Spec /\ WF_vars(Next)

-----------------------------------------------------------------------------
(* Types: every register holds a value of its width.                        *)
TypeOK ==
    /\ state \in State /\ wait_n \in 0 .. 7
    /\ refresh_count \in 0 .. REFRESH_MAX /\ refresh_due \in BOOLEAN
    /\ cap \in [Stage -> Tag]
    /\ cur \in Client /\ last \in Client
    /\ c_req \in [Client -> BOOLEAN] /\ c_ack \in [Client -> BOOLEAN]
    /\ any_req_q \in BOOLEAN /\ b_start \in BOOLEAN
    /\ b_active \in BOOLEAN /\ b_yield \in BOOLEAN /\ b_accepted \in BOOLEAN
    /\ b_is_we \in BOOLEAN /\ b_req \in BOOLEAN /\ b_done \in BOOLEAN /\ b_wr \in BOOLEAN
    /\ b_next \in Addr /\ b_remain \in 0 .. MaxLen /\ b_issued \in 0 .. MaxLen
    /\ b_chunk \in 0 .. BURST_CHUNK /\ b_gap \in 0 .. 4
    /\ b_cmd \in BurstCmd

Tagged(i) == \E k \in Stage : cap[k] = [kind |-> "random", id |-> i]
Committed(i) == cur = i /\ state \in {"ARB", "OPEN1", "OPEN2"}

(* One request, one access: from the grant to the acknowledge an access is  *)
(* in one place only (granted, read in flight, or acknowledged), its client *)
(* is still asking, and what goes to the chip is what the client asks for.  *)
(* The hazard is the grant made on the very clock of an acknowledge, when   *)
(* the request is still high: it would serve the request a second time.     *)
OneAccessPerRequest ==
    \A i \in Client :
        /\ Committed(i) => c_req[i] /\ ~Tagged(i) /\ ~c_ack[i]
        /\ Tagged(i) => c_req[i] /\ ~c_ack[i]
        /\ c_ack[i] => c_req[i]
        /\ Committed(i) /\ state # "ARB" => cur_cmd = c_cmd[i]

(* The chip is never given a command it cannot take: every row is open      *)
(* before it is read, closed before another opens, all banks are idle for a *)
(* refresh, tRCD, tRP, tRAS, tRC, tRFC and tWR pass, and the controller     *)
(* never drives the data pins while a word read is on its way out.          *)
ChipTimingMet == chip.ok

(* When b_done is up, the client of a burst read holds exactly the words of *)
(* its own run of addresses, in order, and after a burst write the chip     *)
(* does: "b_done after the final capture has certainly landed".             *)
BurstComplete ==
    b_done /\ b_req =>
        \A k \in 0 .. b_cmd.len - 1 :
            LET word == mem[(b_cmd.addr + k) % AddrSize]
            IN IF b_cmd.we THEN word = RowData[k] ELSE buf[k] = word

(* The longest the controller is away from S_IDLE: a random read, or one    *)
(* chunk of a burst with its two openings, its gaps and its closing waits.  *)
Gap == IF burst_slow THEN 5 ELSE 2
LongestService == Later(9, 11 + (BURST_CHUNK - 1) * Gap)

(* A refresh is never overdue by more than one service, so that the counter *)
(* cannot wrap and lose it.                                                 *)
RefreshBounded ==
    ready => refresh_count <= CYCLES_PER_REFRESH + 1 + LongestService

(* The words on their way belong to the client whose tag travels with them. *)
Port(i) ==
    IF ~c_req[i] THEN [phase |-> "idle", cmd |-> NoAccess, val |-> NoData]
    ELSE IF c_ack[i]
         THEN [phase |-> "acked", cmd |-> c_cmd[i],
               val |-> IF c_cmd[i].we THEN c_cmd[i].data ELSE rdata]
         ELSE IF Tagged(i)
              THEN [phase |-> "served", cmd |-> c_cmd[i],
                    val |-> dq[CHOOSE k \in Stage : cap[k] = [kind |-> "random", id |-> i]]]
              ELSE [phase |-> "wait", cmd |-> c_cmd[i], val |-> NoData]

Interface == INSTANCE MemPort WITH
            port <- [i \in Client |-> Port(i)],
            NoPort <- [phase |-> "idle", cmd |-> NoAccess, val |-> NoData],
            BurstVal <- {RowData[k] : k \in 0 .. MaxLen}

(* The controller implements the memory request interface: whatever bursts, *)
(* refreshes and other clients do, each request takes effect exactly once   *)
(* and its acknowledge carries the word it read.                            *)
ServesMemPort == Interface!Spec

(* Every request of a random client is acknowledged, however the others and *)
(* the burst client behave, and every burst completes.                      *)
RequestsServed == \A i \in Client : c_req[i] ~> c_ack[i]
BurstsComplete == b_req ~> b_done
-----------------------------------------------------------------------------
(* What a system around the controller has to keep to: the hypotheses under *)
(* which its theorems are proved.                                           *)

(* The chip.  Its timings, in clocks, may be as long as the waits of the    *)
(* FSM: S_OPEN1 and S_OPEN2 after ACTIVE, S_WAIT3 to S_WAIT1 after a write, *)
(* S_BEND around the last word of a chunk, "wait_n <= 6" after a refresh.   *)
ChipKeepsUp ==
    /\ tRCD <= 2 /\ tWR <= 2 /\ tRP <= 3 /\ tWR + tRP <= 4
    /\ tRAS <= 5 /\ tRC <= 6 /\ tRFC <= 8

(* The controller waits long enough at power-up for the whole start-up      *)
(* sequence, which ends when the counter wraps.                             *)
WholeStartUp == 31 <= STARTUP_CYCLES /\ STARTUP_CYCLES < REFRESH_MAX

(* Between two refreshes there is time for the longest service, the wait   *)
(* before it and an IDLE clock.                                             *)
RefreshesFarApart == CYCLES_PER_REFRESH >= 7 + LongestService

(* No burst runs over its own start, and no random client writes into a     *)
(* word that a burst reads or writes.                                       *)
WordsApart ==
    /\ MaxLen <= AddrSize
    /\ \A b \in Bursts, i \in Client : \A a \in Requests[i] :
          a.we => \A k \in 0 .. b.len - 1 : (b.addr + k) % AddrSize # a.addr
=============================================================================
