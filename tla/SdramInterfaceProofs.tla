----------------------- MODULE SdramInterfaceProofs -----------------------
(***************************************************************************)
(* The two interfaces of SdramCtrl, proved for every number of clients,    *)
(* refresh interval, chunk, burst and row length: towards the chip, its    *)
(* timings; towards the clients, the memory port, the turns they take and  *)
(* the words of a burst; and the scoreboard of sim/tb_sdram.cpp, whose     *)
(* clients are quicker than the machine's.                                 *)
(***************************************************************************)
EXTENDS SdramCtrlProofs, SdramBench

-----------------------------------------------------------------------------
(* The chip: its timers, and what the FSM's waits leave of them.            *)
ChipType == [row : Int, rcd : Nat, ras : Nat, rc : Nat, idle : Nat, refs : Nat,
             mode : BOOLEAN, ok : BOOLEAN]

CommandsTyped ==
    /\ c_cmd \in [Client -> Access \cup {NoAccess}]
    /\ cur_cmd \in Access \cup {NoAccess}

(* The clocks a timer of the chip may still have to run, state by state, on *)
(* a command that only opens a row or refreshes.                            *)
Rest == CASE state = "WAIT5" -> 5 [] state = "WAIT4" -> 4 [] state = "WAIT3" -> 3
          [] state = "WAIT2" -> 2 [] state = "WAIT1" -> 1 [] state = "REF" -> wait_n + 1
          [] OTHER -> 0

(* The clocks since a row was opened leave this much of tRC at most.        *)
SinceOpened == CASE state \in {"OPEN1", "BOPEN1"} -> 5 [] state \in {"OPEN2", "BOPEN2"} -> 4
                 [] state = "BREAD" -> 3 [] state = "BEND" -> wait_n + 1
                 [] OTHER -> Rest

(* The last stage of the data pins that may still hold a word read.         *)
Driven == CASE state = "BREAD" /\ ~b_is_we -> 4
            [] state = "BEND" -> wait_n + 3
            [] state = "WAIT5" -> 4 [] state = "WAIT4" -> 3
            [] state = "WAIT3" -> 2 [] state = "WAIT2" -> 2 [] state = "WAIT1" -> 1
            [] state = "IDLE" -> 0
            [] OTHER -> -1

TimersMet ==
    /\ chip.rc <= SinceOpened
    /\ state # "STARTUP" => chip.idle <= Rest
    /\ state \in {"OPEN1", "BOPEN1"} => chip.rcd <= 1
    /\ state \in {"OPEN2", "BOPEN2", "BREAD"} => chip.rcd = 0
    /\ state \in {"BOPEN1", "BOPEN2", "BREAD"} => chip.ras <= SinceOpened - 1
    /\ state = "BEND" => chip.ras <= wait_n /\ wait_n <= 1

RowsOpen ==
    /\ state \in {"OPEN1", "OPEN2"} => chip.row = Row(cur_cmd.addr)
    /\ state \in {"BOPEN1", "BOPEN2", "BREAD"} => chip.row = Row(b_next)
    /\ state \in {"STARTUP", "IDLE", "ARB", "REF"} \cup Waits => chip.row = NoRow

(* The start-up sequence: a command every eight clocks.                     *)
StartUpMet ==
    LET left == REFRESH_MAX - refresh_count IN
    IF ready \/ refresh_count = 0 \/ left < 7 THEN chip.mode /\ (~ready => chip.idle = 0)
    ELSE /\ chip.ras = 0
         /\ left >= 31 => chip.idle = 0
         /\ left \in 23 .. 30 => chip.idle <= left - 23
         /\ left \in 15 .. 22 => chip.idle <= left - 15 /\ chip.refs >= 1
         /\ left \in 7 .. 14 => chip.idle <= left - 7 /\ chip.refs >= 2

PinsQuiet == \A k \in Stage : dq[k] # NoData => k <= Driven

ChipInv == chip.ok /\ TimersMet /\ RowsOpen /\ StartUpMet /\ PinsQuiet

PinsInv == chip \in ChipType /\ CommandsTyped /\ ChipInv

-----------------------------------------------------------------------------
(* What a command does to the chip, timer by timer.                         *)

Columns == {"READ", "READ_AP", "WRITE", "WRITE_AP"}

LEMMA TickFacts ==
  ASSUME NEW t \in Nat
  PROVE  /\ Tick(t) \in Nat /\ Tick(t) <= t
         /\ \A n \in Nat : t <= n + 1 => Tick(t) <= n
         /\ t = 0 => Tick(t) = 0
BY DEF Tick

ChipMoves(c, op, row, n) ==
    /\ n \in ChipType
    /\ c.ok /\ Legal(c, op, row) => n.ok
    /\ n.row = IF op = "ACTIVE" THEN row
               ELSE IF op \in {"READ_AP", "WRITE_AP", "PRECHARGE"} THEN NoRow ELSE c.row
    /\ n.rcd = IF op = "ACTIVE" THEN tRCD - 1 ELSE Tick(c.rcd)
    /\ n.ras = IF op = "ACTIVE" THEN tRAS - 1
               ELSE IF op = "WRITE" THEN Later(Tick(c.ras), tWR - 1) ELSE Tick(c.ras)
    /\ n.rc = IF op = "ACTIVE" THEN tRC - 1 ELSE Tick(c.rc)
    /\ n.idle = IF op = "READ_AP" THEN tRP ELSE IF op = "WRITE_AP" THEN tWR - 1 + tRP
                ELSE IF op = "PRECHARGE" THEN tRP - 1
                ELSE IF op = "AUTO_REFRESH" THEN tRFC - 1 ELSE Tick(c.idle)
    /\ n.refs = IF op = "AUTO_REFRESH" /\ c.refs < 2 THEN c.refs + 1 ELSE c.refs
    /\ n.mode = (IF op = "LOAD_MODE" THEN TRUE ELSE c.mode)

LEMMA ChipStep ==
  ASSUME NEW c \in ChipType, NEW op \in Op, NEW row \in Int
  PROVE  ChipMoves(c, op, row, ChipNext(c, op, row))
<1>n. PICK n : n = ChipNext(c, op, row)
  OBVIOUS
<1> SUFFICES ChipMoves(c, op, row, n)
  BY <1>n
<1> DEFINE t == [c EXCEPT !.rcd = Tick(@), !.ras = Tick(@), !.rc = Tick(@),
                          !.idle = Tick(@), !.ok = @ /\ Legal(c, op, row)]
<1>1. /\ c.rcd \in Nat /\ c.ras \in Nat /\ c.rc \in Nat /\ c.idle \in Nat /\ c.refs \in Nat
      /\ c.row \in Int /\ c.mode \in BOOLEAN /\ c.ok \in BOOLEAN
  BY DEF ChipType
<1>2. /\ Tick(c.rcd) \in Nat /\ Tick(c.ras) \in Nat /\ Tick(c.rc) \in Nat /\ Tick(c.idle) \in Nat
  BY <1>1, TickFacts
<1>3. (c.ok /\ Legal(c, op, row)) \in BOOLEAN
  BY Zenon
<1>4. /\ t \in ChipType /\ t.row = c.row /\ t.rcd = Tick(c.rcd) /\ t.ras = Tick(c.ras)
      /\ t.rc = Tick(c.rc) /\ t.idle = Tick(c.idle) /\ t.refs = c.refs /\ t.mode = c.mode
      /\ t.ok = (c.ok /\ Legal(c, op, row))
  BY <1>1, <1>2, <1>3 DEF ChipType
<1>5. /\ tRCD - 1 \in Nat /\ tRAS - 1 \in Nat /\ tRC - 1 \in Nat /\ tRP \in Nat
      /\ tRP - 1 \in Nat /\ tWR - 1 \in Nat /\ tWR - 1 + tRP \in Nat /\ tRFC - 1 \in Nat
      /\ Later(Tick(c.ras), tWR - 1) \in Nat /\ NoRow \in Int
  BY <1>2, TimingAssumption DEF Later, NoRow
<1>6. n = CASE op = "ACTIVE"       -> [t EXCEPT !.row = row, !.rcd = tRCD - 1,
                                                !.ras = tRAS - 1, !.rc = tRC - 1]
            [] op = "READ_AP"      -> [t EXCEPT !.row = NoRow, !.idle = tRP]
            [] op = "WRITE"        -> [t EXCEPT !.ras = Later(t.ras, tWR - 1)]
            [] op = "WRITE_AP"     -> [t EXCEPT !.row = NoRow, !.idle = tWR - 1 + tRP]
            [] op = "PRECHARGE"    -> [t EXCEPT !.row = NoRow, !.idle = tRP - 1]
            [] op = "AUTO_REFRESH" -> [t EXCEPT !.idle = tRFC - 1,
                                                !.refs = IF t.refs < 2 THEN t.refs + 1 ELSE t.refs]
            [] op = "LOAD_MODE"    -> [t EXCEPT !.mode = TRUE]
            [] OTHER               -> t
  BY <1>n DEF ChipNext
<1> HIDE DEF t
<1>7. CASE op = "ACTIVE"
  BY <1>4, <1>5, <1>6, <1>7 DEF ChipType, ChipMoves
<1>8. CASE op = "READ_AP"
  BY <1>4, <1>5, <1>6, <1>8 DEF ChipType, ChipMoves
<1>9. CASE op = "WRITE"
  BY <1>4, <1>5, <1>6, <1>9 DEF ChipType, ChipMoves
<1>10. CASE op = "WRITE_AP"
  BY <1>4, <1>5, <1>6, <1>10 DEF ChipType, ChipMoves
<1>11. CASE op = "PRECHARGE"
  BY <1>4, <1>5, <1>6, <1>11 DEF ChipType, ChipMoves
<1>12. CASE op = "AUTO_REFRESH"
  <2> DEFINE refs == IF c.refs < 2 THEN c.refs + 1 ELSE c.refs
  <2>1. refs \in Nat
    BY <1>1
  <2>2. n = [t EXCEPT !.idle = tRFC - 1, !.refs = refs]
    BY <1>4, <1>6, <1>12
  <2>3. n.refs = IF op = "AUTO_REFRESH" /\ c.refs < 2 THEN c.refs + 1 ELSE c.refs
    BY <1>4, <1>12, <2>2 DEF ChipType
  <2> HIDE DEF refs
  <2> QED
    BY <1>4, <1>5, <1>12, <2>1, <2>2, <2>3 DEF ChipType, ChipMoves
<1>13. CASE op = "LOAD_MODE"
  BY <1>4, <1>5, <1>6, <1>13 DEF ChipType, ChipMoves
<1>14. CASE op \in {"NOP", "READ"}
  BY <1>4, <1>5, <1>6, <1>14 DEF ChipType, ChipMoves
<1> QED
  BY <1>7, <1>8, <1>9, <1>10, <1>11, <1>12, <1>13, <1>14 DEF Op

(* The clock of a command: the chip obeys it, and the words on the pins     *)
(* move on, behind the word that a read of this clock puts there.           *)
Drives(cmd) == cmd.op \in {"WRITE", "WRITE_AP"}
Reads(cmd)  == cmd.op \in {"READ", "READ_AP"}
PinsFree    == \A k \in Stage : dq[k] = NoData
WordsMove(cmd) ==
    \A k \in Stage : dq'[k] # NoData => Reads(cmd) \/ (k + 1 \in Stage /\ dq[k + 1] # NoData)

(* Whether the command met the chip's timings is left to be shown.          *)
LEMMA PinsStep ==
  ASSUME chip \in ChipType, NEW cmd, cmd.op \in Op, Row(cmd.addr) \in Int, Pins(cmd),
         Legal(chip, cmd.op, Row(cmd.addr)), Drives(cmd) => PinsFree, chip.ok
  PROVE  ChipMoves(chip, cmd.op, Row(cmd.addr), chip') /\ chip'.ok /\ WordsMove(cmd)
<1>n. PICK next : next = ChipNext(chip, cmd.op, Row(cmd.addr))
  OBVIOUS
<1>1. chip' = [next EXCEPT !.ok = @ /\ (Drives(cmd) => PinsFree)]
  BY <1>n, Zenon DEF Pins, Drives, PinsFree
<1>2. ChipMoves(chip, cmd.op, Row(cmd.addr), next)
  BY <1>n, ChipStep
<1>3. next \in ChipType /\ next.ok
  BY <1>2 DEF ChipMoves
<1>4. next.ok \in BOOLEAN /\ (next.ok /\ (Drives(cmd) => PinsFree)) = TRUE
  BY <1>3, Zenon
<1>5. chip' = next
  BY <1>1, <1>3, <1>4 DEF ChipType
<1>6. WordsMove(cmd)
  BY DEF Pins, Stage, WordsMove, Reads
<1> QED
  BY <1>2, <1>3, <1>5, <1>6

(* The pins after a clock of the FSM that issued cmd.                       *)
PinsMoved(cmd) ==
    /\ ChipMoves(chip, cmd.op, Row(cmd.addr), chip') /\ chip'.ok
    /\ WordsMove(cmd)

LEMMA CommandFacts ==
  /\ NoCmd.op = "NOP" /\ NoCmd.addr = 0
  /\ \A o : COMMAND(o).op = o /\ COMMAND(o).addr = 0
  /\ \A a : ACTIVE(a).op = "ACTIVE" /\ ACTIVE(a).addr = a
  /\ \A a \in Int : Row(a) \in Int
BY SdramAssumption DEF NoCmd, COMMAND, ACTIVE, Row

LEMMA NopMoves ==
  ASSUME PinsInv, Pins(NoCmd)
  PROVE  PinsMoved(NoCmd)
<1>1. NoCmd.op \in Op /\ Row(NoCmd.addr) \in Int /\ ~Drives(NoCmd)
  BY CommandFacts DEF Op, Drives
<1>2. Legal(chip, NoCmd.op, Row(NoCmd.addr))
  BY CommandFacts DEF Legal
<1>3. chip \in ChipType /\ chip.ok
  BY DEF PinsInv, ChipInv
<1> QED
  BY <1>1, <1>2, <1>3, PinsStep DEF PinsMoved

(* The words on the pins move on as fast as the states allow.               *)
LEMMA PinsQuietStep ==
  ASSUME PinsQuiet, NEW cmd, WordsMove(cmd), ~Reads(cmd), NEW d \in Int, NEW e \in Int,
         d = Driven, e = Driven', e >= d - 1
  PROVE  PinsQuiet'
<1> SUFFICES ASSUME NEW k \in Stage, dq'[k] # NoData
             PROVE  k <= e
  BY DEF PinsQuiet
<1>1. k + 1 \in Stage /\ dq[k + 1] # NoData
  BY DEF WordsMove
<1>2. k + 1 <= d
  BY <1>1 DEF PinsQuiet
<1> QED
  BY <1>2 DEF Stage

LEMMA NoPins ==
  ASSUME PinsQuiet, NEW d \in Int, d = Driven, d < 0
  PROVE  PinsFree
<1> SUFFICES ASSUME NEW k \in Stage, dq[k] # NoData PROVE FALSE
  BY DEF PinsFree
<1>1. k <= d
  BY DEF PinsQuiet
<1> QED
  BY <1>1 DEF Stage

(* An active burst keeps its registers until its branch changes them.       *)
LEMMA BurstStays ==
  ASSUME b_active, NEW active, NEW next, NEW remain, NEW issued, NEW yield,
         BurstRegs(active, next, remain, issued, yield)
  PROVE  b_next' = next /\ b_is_we' = b_is_we
BY DEF BurstRegs, AcceptBurst

LEMMA RequestsTyped ==
  ASSUME CommandsTyped, TypeOK, Ports,
         cur_cmd' = cur_cmd \/ cur_cmd' = c_cmd[cur]
  PROVE  CommandsTyped'
<1>1. ASSUME NEW want \in Wants, NEW i \in Client, want[i] # NoAccess
      PROVE  want[i] \in Access
  BY <1>1, SdramAssumption DEF Wants
<1>2. \A i \in Client : c_cmd'[i] \in Access \cup {NoAccess}
  BY <1>1 DEF Ports, MachinePorts, RandomPorts, BenchPorts, BenchRandom, CommandsTyped
<1>3. c_cmd' = [i \in Client |-> c_cmd'[i]]
  BY DEF Ports, MachinePorts, RandomPorts, BenchPorts, BenchRandom
<1>4. c_cmd' \in [Client -> Access \cup {NoAccess}]
  BY <1>2, <1>3
<1>5. cur_cmd' \in Access \cup {NoAccess}
  BY DEF CommandsTyped, TypeOK
<1> QED
  BY <1>4, <1>5 DEF CommandsTyped

-----------------------------------------------------------------------------
(* One lemma per branch of the case statement.                              *)

LEMMA ModeStays ==
  ASSUME PinsInv, ready, ready', NEW cmd, PinsMoved(cmd)
  PROVE  StartUpMet'
<1>1. chip.mode = TRUE
  BY DEF PinsInv, ChipInv, StartUpMet, ChipType
<1>2. chip'.mode
  BY <1>1 DEF PinsMoved, ChipMoves
<1> QED
  BY <1>2 DEF StartUpMet

LEMMA ChipFacts ==
  ASSUME PinsInv
  PROVE  /\ chip \in ChipType /\ chip.ok /\ TimersMet /\ RowsOpen /\ PinsQuiet
         /\ chip.rcd \in Nat /\ chip.ras \in Nat /\ chip.rc \in Nat /\ chip.idle \in Nat
BY DEF PinsInv, ChipInv, ChipType

(* Where nothing is commanded the timers run down.                          *)
LEMMA NopTimers ==
  ASSUME PinsInv, Pins(NoCmd)
  PROVE  /\ PinsMoved(NoCmd) /\ chip'.ok /\ chip'.row = chip.row
         /\ chip'.rcd = Tick(chip.rcd) /\ chip'.ras = Tick(chip.ras)
         /\ chip'.rc = Tick(chip.rc) /\ chip'.idle = Tick(chip.idle)
         /\ WordsMove(NoCmd) /\ ~Reads(NoCmd)
<1>1. PinsMoved(NoCmd)
  BY NopMoves
<1>2. NoCmd.op = "NOP"
  BY CommandFacts
<1> QED
  BY <1>1, <1>2 DEF PinsMoved, ChipMoves, Reads

LEMMA WaitPins ==
  ASSUME TypeInv, PinsInv, Wait
  PROVE  ChipInv'
<1>1. Pins(NoCmd) /\ wait_n' = wait_n /\ cur_cmd' = cur_cmd /\ ready /\ ready' /\ KeepBurst
  BY DEF Wait, Edge, grant, ready, Following
<1>2. /\ PinsMoved(NoCmd) /\ chip'.ok /\ chip'.row = chip.row
      /\ chip'.rcd = Tick(chip.rcd) /\ chip'.ras = Tick(chip.ras)
      /\ chip'.rc = Tick(chip.rc) /\ chip'.idle = Tick(chip.idle)
      /\ WordsMove(NoCmd) /\ ~Reads(NoCmd)
  BY <1>1, NopTimers
<1>3. StartUpMet'
  BY <1>1, <1>2, ModeStays
<1>4. /\ state \in {"OPEN1", "WAIT5", "WAIT4", "WAIT3", "WAIT2", "WAIT1", "BOPEN1", "BOPEN2"}
      /\ state = "OPEN1"  => state' = "OPEN2"
      /\ state = "WAIT5"  => state' = "WAIT4"
      /\ state = "WAIT4"  => state' = "WAIT3"
      /\ state = "WAIT3"  => state' = "WAIT2"
      /\ state = "WAIT2"  => state' = "WAIT1"
      /\ state = "WAIT1"  => state' = "IDLE"
      /\ state = "BOPEN1" => state' = "BOPEN2"
      /\ state = "BOPEN2" => state' = "BREAD"
  BY DEF Wait, Following
<1>5. RowsOpen'
  <2>1. state \in {"BOPEN1", "BOPEN2"} => b_next' = b_next
    BY <1>1, BurstStays DEF KeepBurst, TypeInv, BurstInv
  <2> QED
    BY <1>1, <1>2, <1>4, <2>1, ChipFacts DEF RowsOpen, Waits, Row
<1>6. TimersMet'
  <2>1. /\ Tick(chip.rc) \in Nat /\ Tick(chip.ras) \in Nat /\ Tick(chip.rcd) \in Nat
        /\ Tick(chip.idle) \in Nat /\ wait_n \in Nat
    BY ChipFacts, TickFacts DEF TypeInv, TypeOK
  <2> QED
    BY <1>1, <1>2, <1>4, <2>1, ChipFacts DEF TimersMet, SinceOpened, Rest, Tick
<1>7. PinsQuiet'
  <2>1. state \in {"BOPEN1", "BOPEN2"} => b_is_we' = b_is_we
    BY <1>1, BurstStays DEF KeepBurst, TypeInv, BurstInv
  <2>2. Driven \in Int /\ Driven' \in Int /\ Driven' >= Driven - 1
    BY <1>4 DEF Driven
  <2> QED
    BY <1>2, <2>2, ChipFacts, PinsQuietStep
<1> QED
  BY <1>2, <1>3, <1>5, <1>6, <1>7 DEF ChipInv

LEMMA IdleNopPins ==
  ASSUME TypeInv, PinsInv, IdleGrant \/ IdleNothing
  PROVE  ChipInv'
<1>1. /\ Pins(NoCmd) /\ state = "IDLE" /\ state' \in {"IDLE", "ARB"} /\ ready /\ ready'
  BY DEF IdleGrant, IdleNothing, Edge, ready, fsm
<1>2. /\ PinsMoved(NoCmd) /\ chip'.ok /\ chip'.row = chip.row
      /\ chip'.rcd = Tick(chip.rcd) /\ chip'.ras = Tick(chip.ras)
      /\ chip'.rc = Tick(chip.rc) /\ chip'.idle = Tick(chip.idle)
      /\ WordsMove(NoCmd) /\ ~Reads(NoCmd)
  BY <1>1, NopTimers
<1>3. StartUpMet'
  BY <1>1, <1>2, ModeStays
<1>4. RowsOpen'
  BY <1>1, <1>2, ChipFacts DEF RowsOpen
<1>5. TimersMet'
  <2>1. chip.rc = 0 /\ chip.idle = 0
    BY <1>1, ChipFacts DEF TimersMet, SinceOpened, Rest
  <2> QED
    BY <1>1, <1>2, <2>1 DEF TimersMet, SinceOpened, Rest, Tick
<1>6. PinsQuiet'
  <2>1. Driven \in Int /\ Driven' \in Int /\ Driven' >= Driven - 1
    BY <1>1 DEF Driven
  <2> QED
    BY <1>2, <2>1, ChipFacts, PinsQuietStep
<1> QED
  BY <1>2, <1>3, <1>4, <1>5, <1>6 DEF ChipInv

LEMMA RefreshPins ==
  ASSUME ChipKeepsUp, TypeInv, PinsInv, IdleRefresh
  PROVE  ChipInv'
<1> DEFINE cmd == COMMAND("AUTO_REFRESH")
<1>1. Pins(cmd) /\ state = "IDLE" /\ state' = "REF" /\ wait_n' = 6 /\ ready /\ ready'
  BY DEF IdleRefresh, Edge, ready
<1>2. cmd.op = "AUTO_REFRESH" /\ Row(cmd.addr) \in Int
  BY CommandFacts
<1> HIDE DEF cmd
<1>3. chip.row = NoRow /\ chip.idle = 0 /\ chip.rc = 0
  BY <1>1, ChipFacts DEF RowsOpen, TimersMet, SinceOpened, Rest
<1>4. Legal(chip, cmd.op, Row(cmd.addr)) /\ cmd.op \in Op /\ ~Drives(cmd) /\ ~Reads(cmd)
  BY <1>2, <1>3 DEF Legal, Precharged, Op, Drives, Reads
<1>5. PinsMoved(cmd)
  BY <1>1, <1>2, <1>4, ChipFacts, PinsStep DEF PinsMoved
<1>6. /\ chip'.ok /\ chip'.row = NoRow /\ chip'.idle = tRFC - 1 /\ chip'.rc = Tick(chip.rc)
  BY <1>2, <1>3, <1>5 DEF PinsMoved, ChipMoves
<1>7. TimersMet'
  BY <1>1, <1>3, <1>6, TimingAssumption DEF ChipKeepsUp, TimersMet, SinceOpened, Rest, Tick
<1>8. PinsQuiet'
  <2>1. Driven \in Int /\ Driven' \in Int /\ Driven' >= Driven - 1
    BY <1>1 DEF Driven
  <2> QED
    BY <1>4, <1>5, <2>1, ChipFacts, PinsQuietStep DEF PinsMoved
<1> QED
  BY <1>1, <1>5, <1>6, <1>7, <1>8, ModeStays DEF ChipInv, RowsOpen

LEMMA OpenBurstPins ==
  ASSUME ChipKeepsUp, TypeInv, PinsInv, IdleOpenBurst
  PROVE  ChipInv'
<1> DEFINE cmd == ACTIVE(b_next)
<1>1. /\ Pins(cmd) /\ state = "IDLE" /\ state' = "BOPEN1" /\ ready /\ ready'
      /\ b_active /\ KeepBurst
  <2>1. Edge(cmd, NoTag, {}) /\ KeepBurst
    BY Zenon DEF IdleOpenBurst
  <2>2. Pins(cmd)
    BY <2>1 DEF Edge
  <2>3. state = "IDLE" /\ state' = "BOPEN1" /\ b_active
    BY DEF IdleOpenBurst, OpensBurst
  <2> QED
    BY <2>1, <2>2, <2>3 DEF ready
<1>2. b_next \in Int /\ b_next' = b_next
  <2>1. b_next \in Int
    BY SdramAssumption DEF TypeInv, TypeOK, Addr
  <2> QED
    BY <1>1, <2>1, BurstStays DEF KeepBurst
<1>3. cmd.op = "ACTIVE" /\ cmd.addr = b_next /\ Row(cmd.addr) \in Int
  BY <1>2, CommandFacts
<1> HIDE DEF cmd
<1>4. chip.row = NoRow /\ chip.idle = 0 /\ chip.rc = 0 /\ chip.mode
  BY <1>1, ChipFacts DEF PinsInv, ChipInv, StartUpMet, RowsOpen, TimersMet, SinceOpened, Rest
<1>5. Legal(chip, cmd.op, Row(cmd.addr)) /\ cmd.op \in Op /\ ~Drives(cmd) /\ ~Reads(cmd)
  BY <1>3, <1>4 DEF Legal, Precharged, Op, Drives, Reads
<1>6. PinsMoved(cmd)
  BY <1>1, <1>3, <1>5, ChipFacts, PinsStep DEF PinsMoved
<1>7. /\ chip'.ok /\ chip'.row = Row(b_next) /\ chip'.idle = Tick(chip.idle)
      /\ chip'.rcd = tRCD - 1 /\ chip'.ras = tRAS - 1 /\ chip'.rc = tRC - 1
  BY <1>3, <1>6 DEF PinsMoved, ChipMoves
<1>8. TimersMet'
  BY <1>1, <1>4, <1>7, TimingAssumption DEF ChipKeepsUp, TimersMet, SinceOpened, Rest, Tick
<1>9. PinsQuiet'
  <2>1. Driven \in Int /\ Driven' \in Int /\ Driven' >= Driven - 1
    BY <1>1 DEF Driven
  <2> QED
    BY <1>5, <1>6, <2>1, ChipFacts, PinsQuietStep DEF PinsMoved
<1>10. RowsOpen'
  BY <1>1, <1>2, <1>7 DEF RowsOpen, Row, Waits
<1> QED
  BY <1>1, <1>6, <1>7, <1>8, <1>9, <1>10, ModeStays DEF ChipInv

LEMMA ArbPins ==
  ASSUME ChipKeepsUp, TypeInv, PinsInv, Arb
  PROVE  ChipInv'
<1> DEFINE cmd == ACTIVE(c_cmd[cur].addr)
<1>1. /\ Pins(cmd) /\ state = "ARB" /\ state' = "OPEN1" /\ ready /\ ready'
      /\ cur_cmd' = c_cmd[cur]
  BY DEF Arb, Edge, ready
<1>2. c_cmd[cur].addr \in Int
  <2>1. c_cmd[cur] \in Access \cup {NoAccess}
    BY DEF PinsInv, CommandsTyped, TypeInv, TypeOK
  <2> QED
    BY <2>1, SdramAssumption DEF Access, NoAccess, Addr
<1>3. cmd.op = "ACTIVE" /\ cmd.addr = c_cmd[cur].addr /\ Row(cmd.addr) \in Int
  BY <1>2, CommandFacts
<1> HIDE DEF cmd
<1>4. chip.row = NoRow /\ chip.idle = 0 /\ chip.rc = 0 /\ chip.mode
  BY <1>1, ChipFacts DEF PinsInv, ChipInv, StartUpMet, RowsOpen, TimersMet, SinceOpened, Rest
<1>5. Legal(chip, cmd.op, Row(cmd.addr)) /\ cmd.op \in Op /\ ~Drives(cmd) /\ ~Reads(cmd)
  BY <1>3, <1>4 DEF Legal, Precharged, Op, Drives, Reads
<1>6. PinsMoved(cmd)
  BY <1>1, <1>3, <1>5, ChipFacts, PinsStep DEF PinsMoved
<1>7. /\ chip'.ok /\ chip'.row = Row(cur_cmd'.addr) /\ chip'.idle = Tick(chip.idle)
      /\ chip'.rcd = tRCD - 1 /\ chip'.ras = tRAS - 1 /\ chip'.rc = tRC - 1
  BY <1>1, <1>3, <1>6 DEF PinsMoved, ChipMoves
<1>8. TimersMet'
  BY <1>1, <1>4, <1>7, TimingAssumption DEF ChipKeepsUp, TimersMet, SinceOpened, Rest, Tick
<1>9. PinsQuiet'
  <2>1. Driven \in Int /\ Driven' \in Int /\ Driven' >= Driven - 1
    BY <1>1 DEF Driven
  <2> QED
    BY <1>5, <1>6, <2>1, ChipFacts, PinsQuietStep DEF PinsMoved
<1>10. RowsOpen'
  BY <1>1, <1>7 DEF RowsOpen, Row, Waits
<1> QED
  BY <1>1, <1>6, <1>7, <1>8, <1>9, <1>10, ModeStays DEF ChipInv

LEMMA ReadPins ==
  ASSUME ChipKeepsUp, TypeInv, PinsInv, Open2Read
  PROVE  ChipInv'
<1> DEFINE cmd == [op |-> "READ_AP", addr |-> cur_cmd.addr, data |-> NoData]
<1>1. Pins(cmd) /\ state = "OPEN2" /\ state' = "WAIT5" /\ ready /\ ready'
  BY DEF Open2Read, Edge, ready
<1>2. cur_cmd.addr \in Int
  BY SdramAssumption DEF PinsInv, CommandsTyped, Access, NoAccess, Addr
<1>3. cmd.op = "READ_AP" /\ cmd.addr = cur_cmd.addr /\ Row(cmd.addr) \in Int
  BY <1>2, CommandFacts
<1> HIDE DEF cmd
<1>4. chip.row = Row(cmd.addr) /\ chip.rcd = 0 /\ chip.rc <= 4 /\ chip.rc \in Nat
  BY <1>1, <1>3, ChipFacts DEF RowsOpen, TimersMet, SinceOpened
<1>5. Legal(chip, cmd.op, Row(cmd.addr)) /\ cmd.op \in Op /\ ~Drives(cmd)
  BY <1>3, <1>4 DEF Legal, Op, Drives
<1>6. PinsMoved(cmd)
  BY <1>1, <1>3, <1>5, ChipFacts, PinsStep DEF PinsMoved
<1>7. chip'.ok /\ chip'.row = NoRow /\ chip'.idle = tRP /\ chip'.rc = Tick(chip.rc)
  BY <1>3, <1>6 DEF PinsMoved, ChipMoves
<1>8. TimersMet'
  BY <1>1, <1>4, <1>7, TimingAssumption DEF ChipKeepsUp, TimersMet, SinceOpened, Rest, Tick
<1>9. PinsQuiet'
  BY <1>1 DEF PinsQuiet, Driven, Stage
<1> QED
  BY <1>1, <1>6, <1>7, <1>8, <1>9, ModeStays DEF ChipInv, RowsOpen

LEMMA WritePins ==
  ASSUME ChipKeepsUp, TypeInv, PinsInv, Open2Write
  PROVE  ChipInv'
<1> DEFINE cmd == [op |-> "WRITE_AP", addr |-> cur_cmd.addr, data |-> cur_cmd.data]
<1>1. Pins(cmd) /\ state = "OPEN2" /\ state' = "WAIT3" /\ ready /\ ready'
  BY DEF Open2Write, Edge, ready
<1>2. cur_cmd.addr \in Int
  BY SdramAssumption DEF PinsInv, CommandsTyped, Access, NoAccess, Addr
<1>3. cmd.op = "WRITE_AP" /\ cmd.addr = cur_cmd.addr /\ Row(cmd.addr) \in Int
  BY <1>2, CommandFacts
<1> HIDE DEF cmd
<1>4. chip.row = Row(cmd.addr) /\ chip.rcd = 0 /\ chip.rc <= 4 /\ chip.rc \in Nat
  BY <1>1, <1>3, ChipFacts DEF RowsOpen, TimersMet, SinceOpened
<1>5. Legal(chip, cmd.op, Row(cmd.addr)) /\ cmd.op \in Op /\ ~Reads(cmd) /\ PinsFree
  <2>1. Driven \in Int /\ Driven < 0
    BY <1>1 DEF Driven
  <2> QED
    BY <1>3, <1>4, <2>1, ChipFacts, NoPins DEF Legal, Op, Reads
<1>6. PinsMoved(cmd)
  BY <1>1, <1>3, <1>5, ChipFacts, PinsStep DEF PinsMoved
<1>7. chip'.ok /\ chip'.row = NoRow /\ chip'.idle = tWR - 1 + tRP /\ chip'.rc = Tick(chip.rc)
  BY <1>3, <1>6 DEF PinsMoved, ChipMoves
<1>8. TimersMet'
  BY <1>1, <1>4, <1>7, TimingAssumption DEF ChipKeepsUp, TimersMet, SinceOpened, Rest, Tick
<1>9. PinsQuiet'
  <2>1. Driven \in Int /\ Driven' \in Int /\ Driven' >= Driven - 1
    BY <1>1 DEF Driven
  <2> QED
    BY <1>5, <1>6, <2>1, ChipFacts, PinsQuietStep DEF PinsMoved
<1> QED
  BY <1>1, <1>6, <1>7, <1>8, <1>9, ModeStays DEF ChipInv, RowsOpen

LEMMA RefreshWaitPins ==
  ASSUME TypeInv, RefreshInv, PinsInv, RefreshWait
  PROVE  ChipInv'
<1>1. /\ Pins(NoCmd) /\ state = "REF" /\ ready /\ ready'
      /\ state' = (IF wait_n = 0 THEN "IDLE" ELSE "REF") /\ wait_n' = (wait_n - 1) % 8
  BY DEF RefreshWait, Edge, ready
<1>2. /\ PinsMoved(NoCmd) /\ chip'.ok /\ chip'.row = chip.row
      /\ chip'.rcd = Tick(chip.rcd) /\ chip'.ras = Tick(chip.ras)
      /\ chip'.rc = Tick(chip.rc) /\ chip'.idle = Tick(chip.idle)
      /\ WordsMove(NoCmd) /\ ~Reads(NoCmd)
  BY <1>1, NopTimers
<1>3. wait_n \in 0 .. 7 /\ (wait_n # 0 => wait_n' = wait_n - 1)
  BY <1>1 DEF TypeInv, TypeOK
<1>4. chip.rc <= wait_n + 1 /\ chip.idle <= wait_n + 1
  BY <1>1, ChipFacts DEF TimersMet, SinceOpened, Rest
<1>5. TimersMet'
  <2>1. CASE wait_n = 0
    <3>1. Tick(chip.rc) = 0 /\ Tick(chip.idle) = 0
      BY <1>4, <2>1, ChipFacts DEF Tick
    <3> QED
      BY <1>1, <1>2, <2>1, <3>1 DEF TimersMet, SinceOpened, Rest
  <2>2. CASE wait_n # 0
    <3>1. Tick(chip.rc) <= wait_n' + 1 /\ Tick(chip.idle) <= wait_n' + 1
      BY <1>3, <1>4, <2>2, ChipFacts DEF Tick
    <3> QED
      BY <1>1, <1>2, <2>2, <3>1 DEF TimersMet, SinceOpened, Rest
  <2> QED
    BY <2>1, <2>2
<1>6. PinsQuiet'
  <2>1. Driven \in Int /\ Driven' \in Int /\ Driven' >= Driven - 1
    BY <1>1 DEF Driven
  <2> QED
    BY <1>2, <2>1, ChipFacts, PinsQuietStep
<1>7. RowsOpen'
  BY <1>1, <1>2, ChipFacts DEF RowsOpen
<1> QED
  BY <1>1, <1>2, <1>5, <1>6, <1>7, ModeStays DEF ChipInv

LEMMA GapPins ==
  ASSUME TypeInv, PinsInv, BurstGap
  PROVE  ChipInv'
<1>1. /\ Pins(NoCmd) /\ state = "BREAD" /\ state' = "BREAD" /\ ready /\ ready' /\ KeepBurst
  BY DEF BurstGap, Edge, ready, fsm
<1>2. /\ PinsMoved(NoCmd) /\ chip'.ok /\ chip'.row = chip.row
      /\ chip'.rcd = Tick(chip.rcd) /\ chip'.ras = Tick(chip.ras)
      /\ chip'.rc = Tick(chip.rc) /\ chip'.idle = Tick(chip.idle)
      /\ WordsMove(NoCmd) /\ ~Reads(NoCmd)
  BY <1>1, NopTimers
<1>3. b_next' = b_next /\ b_is_we' = b_is_we
  BY <1>1, BurstStays DEF KeepBurst, TypeInv, BurstInv
<1>4. TimersMet'
  BY <1>1, <1>2, ChipFacts DEF TimersMet, SinceOpened, Rest, Tick
<1>5. PinsQuiet'
  <2>1. Driven \in Int /\ Driven' \in Int /\ Driven' >= Driven - 1
    BY <1>1, <1>3 DEF Driven
  <2> QED
    BY <1>2, <2>1, ChipFacts, PinsQuietStep
<1>6. RowsOpen'
  BY <1>1, <1>2, <1>3, ChipFacts DEF RowsOpen, Row, Waits
<1> QED
  BY <1>1, <1>2, <1>4, <1>5, <1>6, ModeStays DEF ChipInv

(* The next word of a burst is in the row of this one, unless the chunk     *)
(* ends: rows are whole.                                                    *)
LEMMA SameRow ==
  ASSUME NEW a \in Addr, a % RowLen # RowLen - 1
  PROVE  (a + 1) % AddrSize = a + 1 /\ Row(a + 1) = Row(a)
<1>1. a \in Nat /\ RowLen \in Nat \ {0} /\ AddrSize \in Nat \ {0} /\ AddrSize % RowLen = 0
  BY SdramAssumption DEF Addr
<1>2. a + 1 <= AddrSize
  BY <1>1 DEF Addr
<1>3. (a + 1) \div RowLen = a \div RowLen /\ (a + 1) % RowLen = (a % RowLen) + 1
  BY <1>1
<1>4. a % RowLen \in Nat
  BY <1>1
<1>5. a + 1 # AddrSize
  BY <1>1, <1>3, <1>4
<1>6. (a + 1) % AddrSize = a + 1
  BY <1>1, <1>2, <1>5
<1> QED
  BY <1>3, <1>6 DEF Row

LEMMA WordPins ==
  ASSUME ChipKeepsUp, TypeInv, PinsInv, BurstWord
  PROVE  ChipInv'
<1>0. b_active /\ b_next \in Addr /\ b_next \in Int
  BY SdramAssumption DEF TypeInv, TypeOK, BurstInv, BurstWord, Addr
<1> DEFINE cmd == IF b_is_we THEN [op |-> "WRITE", addr |-> b_next, data |-> b_wdata]
                  ELSE [op |-> "READ", addr |-> b_next, data |-> NoData]
<1>1. /\ Pins(cmd) /\ state = "BREAD" /\ ready /\ ready'
      /\ IF EndOfChunk THEN state' = "BEND" /\ wait_n' = 1 ELSE state' = "BREAD" /\ wait_n' = wait_n
  BY DEF BurstWord, Edge, ready, fsm
<1>2. b_next' = (b_next + 1) % AddrSize /\ b_is_we' = b_is_we
  BY <1>0, BurstStays DEF BurstWord
<1>3. /\ cmd.op = (IF b_is_we THEN "WRITE" ELSE "READ") /\ cmd.addr = b_next
      /\ Row(cmd.addr) \in Int
  BY <1>0, CommandFacts
<1> HIDE DEF cmd
<1>4. /\ chip.row = Row(cmd.addr) /\ chip.rcd = 0 /\ chip.rc <= 3 /\ chip.rc \in Nat
      /\ chip.ras <= 2 /\ chip.ras \in Nat /\ chip.idle = 0
  BY <1>1, <1>3, ChipFacts DEF RowsOpen, TimersMet, SinceOpened, Rest
<1>5. Legal(chip, cmd.op, Row(cmd.addr)) /\ cmd.op \in Op
  BY <1>3, <1>4 DEF Legal, Op
<1>6. Drives(cmd) => PinsFree
  <2>1. Drives(cmd) => Driven \in Int /\ Driven < 0
    BY <1>1, <1>3 DEF Driven, Drives
  <2> QED
    BY <2>1, ChipFacts, NoPins
<1>7. PinsMoved(cmd)
  BY <1>1, <1>3, <1>5, <1>6, ChipFacts, PinsStep DEF PinsMoved
<1>8. /\ chip'.ok /\ chip'.row = chip.row /\ chip'.rcd = Tick(chip.rcd)
      /\ chip'.rc = Tick(chip.rc) /\ chip'.idle = Tick(chip.idle)
      /\ chip'.ras = Tick(chip.ras) \/ chip'.ras = Later(Tick(chip.ras), tWR - 1)
  BY <1>3, <1>7 DEF PinsMoved, ChipMoves
<1>9. chip'.ras <= 1
  BY <1>4, <1>8, TimingAssumption DEF ChipKeepsUp, Later, Tick
<1>10. /\ chip'.rc <= 2 /\ chip'.rcd = 0 /\ chip'.idle = 0
       /\ chip'.rc \in Nat /\ chip'.ras \in Nat
  <2>1. chip'.rc <= 2 /\ chip'.rcd = 0 /\ chip'.idle = 0
    BY <1>4, <1>8 DEF Tick
  <2>2. chip' \in ChipType
    BY <1>7 DEF PinsMoved, ChipMoves
  <2> QED
    BY <2>1, <2>2 DEF ChipType
<1>11. TimersMet'
  <2>1. CASE EndOfChunk
    BY <1>1, <1>9, <1>10, <2>1 DEF TimersMet, SinceOpened, Rest
  <2>2. CASE ~EndOfChunk
    BY <1>1, <1>9, <1>10, <2>2 DEF TimersMet, SinceOpened, Rest
  <2> QED
    BY <2>1, <2>2
<1>12. PinsQuiet'
  <2>1. CASE b_is_we
    <3>1. Driven \in Int /\ Driven' \in Int /\ Driven' >= Driven - 1 /\ ~Reads(cmd)
      BY <1>1, <1>2, <1>3, <2>1 DEF Driven, Reads
    <3> QED
      BY <1>7, <3>1, ChipFacts, PinsQuietStep DEF PinsMoved
  <2>2. CASE ~b_is_we
    BY <1>1, <1>2, <2>2 DEF PinsQuiet, Driven, Stage
  <2> QED
    BY <2>1, <2>2
<1>13. RowsOpen'
  <2>1. CASE EndOfChunk
    BY <1>1, <2>1 DEF RowsOpen, Waits
  <2>2. CASE ~EndOfChunk
    <3>1. b_next' = b_next + 1 /\ Row(b_next + 1) = Row(b_next)
      BY <1>0, <1>2, <2>2, SameRow DEF EndOfChunk
    <3>2. Row(b_next') = Row(b_next)
      BY <3>1
    <3> QED
      BY <1>1, <1>3, <1>4, <1>8, <2>2, <3>2 DEF RowsOpen, Row, Waits
  <2> QED
    BY <2>1, <2>2
<1> QED
  BY <1>1, <1>7, <1>8, <1>11, <1>12, <1>13, ModeStays DEF ChipInv

LEMMA EndPins ==
  ASSUME ChipKeepsUp, TypeInv, PinsInv, BurstEnd
  PROVE  ChipInv'
<1>1. /\ state = "BEND" /\ ready /\ ready' /\ wait_n' = (wait_n - 1) % 8
      /\ IF wait_n = 0 THEN Pins(COMMAND("PRECHARGE")) /\ state' = ClosingWait
         ELSE Pins(NoCmd) /\ state' = "BEND"
  <2>1. state = "BEND" /\ wait_n' = (wait_n - 1) % 8
    BY DEF BurstEnd
  <2>2. IF wait_n = 0 THEN Edge(COMMAND("PRECHARGE"), NoTag, {}) /\ state' = ClosingWait
        ELSE Edge(NoCmd, NoTag, {}) /\ state' = "BEND"
    BY Zenon DEF BurstEnd
  <2>3. ClosingWait \in {"WAIT5", "WAIT2"}
    BY DEF ClosingWait
  <2>4. state' # "STARTUP"
    BY <2>2, <2>3
  <2> QED
    BY <2>1, <2>2, <2>4 DEF Edge, ready
<1>2. /\ wait_n \in {0, 1} /\ chip.ras <= wait_n /\ chip.rc <= wait_n + 1 /\ chip.idle = 0
      /\ chip.ras \in Nat /\ chip.rc \in Nat
  BY <1>1, ChipFacts DEF TimersMet, SinceOpened, Rest, TypeInv, TypeOK
<1>3. CASE wait_n = 1
  <2>1. wait_n' = 0 /\ state' = "BEND" /\ Pins(NoCmd)
    BY <1>1, <1>3
  <2>2. /\ PinsMoved(NoCmd) /\ chip'.ok /\ chip'.row = chip.row
        /\ chip'.rcd = Tick(chip.rcd) /\ chip'.ras = Tick(chip.ras)
        /\ chip'.rc = Tick(chip.rc) /\ chip'.idle = Tick(chip.idle)
        /\ WordsMove(NoCmd) /\ ~Reads(NoCmd)
    BY <2>1, NopTimers
  <2>3. TimersMet'
    BY <1>2, <1>3, <2>1, <2>2 DEF TimersMet, SinceOpened, Rest, Tick
  <2>4. PinsQuiet'
    <3>1. Driven \in Int /\ Driven' \in Int /\ Driven' >= Driven - 1
      BY <1>1, <1>3, <2>1 DEF Driven
    <3> QED
      BY <2>2, <3>1, ChipFacts, PinsQuietStep
  <2> QED
    BY <1>1, <2>1, <2>2, <2>3, <2>4, ModeStays DEF ChipInv, RowsOpen, Waits
<1>4. CASE wait_n = 0
  <2> DEFINE cmd == COMMAND("PRECHARGE")
  <2>1. Pins(cmd) /\ state' \in {"WAIT5", "WAIT2"}
    BY <1>1, <1>4 DEF ClosingWait
  <2>2. cmd.op = "PRECHARGE" /\ Row(cmd.addr) \in Int
    BY CommandFacts
  <2> HIDE DEF cmd
  <2>3. Legal(chip, cmd.op, Row(cmd.addr)) /\ cmd.op \in Op /\ ~Drives(cmd) /\ ~Reads(cmd)
    BY <1>2, <1>4, <2>2 DEF Legal, Op, Drives, Reads
  <2>4. PinsMoved(cmd)
    BY <2>1, <2>2, <2>3, ChipFacts, PinsStep DEF PinsMoved
  <2>5. chip'.ok /\ chip'.row = NoRow /\ chip'.idle = tRP - 1 /\ chip'.rc = Tick(chip.rc)
    BY <2>2, <2>4 DEF PinsMoved, ChipMoves
  <2>6. TimersMet'
    BY <1>2, <1>4, <2>1, <2>5, TimingAssumption
       DEF ChipKeepsUp, TimersMet, SinceOpened, Rest, Tick
  <2>7. PinsQuiet'
    <3>1. Driven \in Int /\ Driven' \in Int /\ Driven' >= Driven - 1
      BY <1>1, <1>4, <2>1 DEF Driven
    <3> QED
      BY <2>3, <2>4, <3>1, ChipFacts, PinsQuietStep DEF PinsMoved
  <2>8. RowsOpen'
    BY <2>1, <2>5 DEF RowsOpen, Waits
  <2> QED
    BY <1>1, <2>4, <2>5, <2>6, <2>7, <2>8, ModeStays DEF ChipInv
<1> QED
  BY <1>2, <1>3, <1>4

LEMMA StartupPins ==
  ASSUME ChipKeepsUp, WholeStartUp, TypeInv, PinsInv, Startup
  PROVE  ChipInv'
<1> DEFINE cmd == COMMAND(StartupCommand)
           left == REFRESH_MAX - refresh_count
<1>1. /\ Pins(cmd) /\ state = "STARTUP" /\ ~ready /\ CountRefresh
      /\ state' = IF refresh_count = 0 THEN "IDLE" ELSE "STARTUP"
  BY DEF Startup, Edge, ready
<1>2. /\ left \in 0 .. REFRESH_MAX /\ REFRESH_MAX \in Nat /\ REFRESH_MAX >= 32
      /\ refresh_count = REFRESH_MAX - left
  BY SdramAssumption DEF TypeInv, TypeOK, WholeStartUp
<1>3. refresh_count' = IF refresh_count = REFRESH_MAX THEN 0 ELSE refresh_count + 1
  BY <1>1, <1>2 DEF CountRefresh
<1>4. cmd.op = StartupCommand /\ Row(cmd.addr) \in Int
  BY CommandFacts
<1>5. /\ left = 31 => cmd.op = "PRECHARGE"
      /\ left \in {23, 15} => cmd.op = "AUTO_REFRESH"
      /\ left = 7 => cmd.op = "LOAD_MODE"
      /\ left \notin {31, 23, 15, 7} => cmd.op = "NOP"
  BY <1>2, <1>4 DEF StartupCommand
<1>6. /\ chip.row = NoRow /\ chip.rc = 0
      /\ refresh_count = 0 \/ left < 7 => chip.mode /\ chip.idle = 0
      /\ refresh_count # 0 /\ left >= 7 =>
            /\ chip.ras = 0
            /\ left >= 31 => chip.idle = 0
            /\ left \in 23 .. 30 => chip.idle <= left - 23
            /\ left \in 15 .. 22 => chip.idle <= left - 15 /\ chip.refs >= 1
            /\ left \in 7 .. 14 => chip.idle <= left - 7 /\ chip.refs >= 2
  <2>1. chip.row = NoRow
    BY <1>1, ChipFacts DEF RowsOpen
  <2>2. chip.rc = 0
    BY <1>1, ChipFacts DEF TimersMet, SinceOpened, Rest
  <2>3. StartUpMet
    BY DEF PinsInv, ChipInv
  <2>4. refresh_count = 0 \/ left < 7 => chip.mode /\ chip.idle = 0
    BY <1>1, <2>3 DEF StartUpMet
  <2>5. refresh_count # 0 /\ ~(left < 7) =>
            /\ chip.ras = 0
            /\ left >= 31 => chip.idle = 0
            /\ left \in 23 .. 30 => chip.idle <= left - 23
            /\ left \in 15 .. 22 => chip.idle <= left - 15 /\ chip.refs >= 1
            /\ left \in 7 .. 14 => chip.idle <= left - 7 /\ chip.refs >= 2
    BY <1>1, <2>3 DEF StartUpMet
  <2> HIDE DEF left
  <2>6. left >= 7 => ~(left < 7)
    BY <1>2
  <2> QED
    BY <2>1, <2>2, <2>4, <2>5, <2>6
<1> HIDE DEF cmd, left
<1>7. cmd.op \in Op /\ ~Drives(cmd) /\ ~Reads(cmd)
  BY <1>5 DEF Op, Drives, Reads
<1>8. Legal(chip, cmd.op, Row(cmd.addr))
  <2>1. CASE left = 31
    BY <1>2, <1>5, <1>6, <2>1 DEF Legal
  <2>2. CASE left \in {23, 15}
    BY <1>2, <1>5, <1>6, <2>2, ChipFacts DEF Legal, Precharged
  <2>3. CASE left = 7
    BY <1>2, <1>5, <1>6, <2>3, ChipFacts DEF Legal, Precharged
  <2>4. CASE left \notin {31, 23, 15, 7}
    BY <1>5, <2>4 DEF Legal
  <2> QED
    BY <2>1, <2>2, <2>3, <2>4
<1>9. PinsMoved(cmd)
  BY <1>1, <1>4, <1>7, <1>8, ChipFacts, PinsStep DEF PinsMoved
<1>10. /\ chip' \in ChipType /\ chip'.ok /\ chip'.row = NoRow /\ chip'.rc = 0
       /\ chip'.ras = Tick(chip.ras)
       /\ chip'.idle = IF cmd.op = "PRECHARGE" THEN tRP - 1
                       ELSE IF cmd.op = "AUTO_REFRESH" THEN tRFC - 1 ELSE Tick(chip.idle)
       /\ chip'.refs = IF cmd.op = "AUTO_REFRESH" /\ chip.refs < 2 THEN chip.refs + 1
                       ELSE chip.refs
       /\ chip.mode \/ cmd.op = "LOAD_MODE" => chip'.mode
  BY <1>5, <1>6, <1>9 DEF PinsMoved, ChipMoves, Tick
<1>11. /\ tRP - 1 \in 0 .. 7 /\ tRFC - 1 \in 0 .. 7
       /\ chip.idle \in Nat /\ chip.refs \in Nat /\ chip.ras \in Nat
  BY TimingAssumption, ChipFacts DEF ChipKeepsUp, ChipType
<1>12. RowsOpen'
  BY <1>1, <1>10 DEF RowsOpen
<1>13. PinsQuiet'
  <2>1. Driven \in Int /\ Driven' \in Int /\ Driven' >= Driven - 1
    BY <1>1 DEF Driven
  <2> QED
    BY <1>7, <1>9, <2>1, ChipFacts, PinsQuietStep DEF PinsMoved
<1>14. TimersMet'
  <2>1. chip'.rc <= SinceOpened'
    BY <1>1, <1>10 DEF SinceOpened, Rest
  <2>2. state' = "IDLE" => chip'.idle = 0
    BY <1>1, <1>2, <1>5, <1>6, <1>10 DEF Tick
  <2> QED
    BY <1>1, <2>1, <2>2 DEF TimersMet, Rest
<1>15. StartUpMet'
  <2>1. CASE refresh_count = 0
    <3>1. chip'.mode /\ ready'
      BY <1>1, <1>6, <1>10, <2>1 DEF ready
    <3> QED
      BY <3>1 DEF StartUpMet
  <2>2. CASE refresh_count # 0 /\ left <= 7
    <3>1. chip'.mode /\ chip'.idle = 0
      BY <1>2, <1>5, <1>6, <1>10, <1>11, <2>2 DEF Tick
    <3>2. refresh_count' = 0 \/ REFRESH_MAX - refresh_count' < 7
      BY <1>2, <1>3, <2>2
    <3> QED
      BY <3>1, <3>2 DEF StartUpMet
  <2>3. CASE refresh_count # 0 /\ left > 7
    <3>1. REFRESH_MAX - refresh_count' = left - 1
      BY <1>2, <1>3, <2>3
    <3>2. chip'.ras = 0
      BY <1>2, <1>6, <1>10, <2>3 DEF Tick
    <3>3. left > 31 => chip'.idle = 0
      BY <1>2, <1>5, <1>6, <1>10, <2>3 DEF Tick
    <3>4. left \in 24 .. 31 => chip'.idle <= left - 24
      BY <1>2, <1>5, <1>6, <1>10, <1>11, <2>3 DEF Tick
    <3>5. left \in 16 .. 23 => chip'.idle <= left - 16 /\ chip'.refs >= 1
      BY <1>2, <1>5, <1>6, <1>10, <1>11, <2>3 DEF Tick
    <3>6. left \in 8 .. 15 => chip'.idle <= left - 8 /\ chip'.refs >= 2
      BY <1>2, <1>5, <1>6, <1>10, <1>11, <2>3 DEF Tick
    <3>7. refresh_count' # 0 /\ ~ready'
      BY <1>1, <1>2, <1>3, <2>3 DEF ready
    <3> QED
      BY <1>2, <2>3, <3>1, <3>2, <3>3, <3>4, <3>5, <3>6, <3>7 DEF StartUpMet
  <2> QED
    BY <1>2, <2>1, <2>2, <2>3
<1> QED
  BY <1>10, <1>12, <1>13, <1>14, <1>15 DEF ChipInv
-----------------------------------------------------------------------------
(* The whole step.                                                          *)

LEMMA PinsInit ==
  ASSUME WholeStartUp
  PROVE  Init => PinsInv
<1> SUFFICES ASSUME Init PROVE PinsInv
  OBVIOUS
<1>1. /\ state = "STARTUP" /\ refresh_count = REFRESH_MAX - STARTUP_CYCLES
      /\ chip = PowerUp /\ dq = [k \in Stage |-> NoData]
      /\ c_cmd = [i \in Client |-> NoAccess] /\ cur_cmd = NoAccess
  BY DEF Init
<1>2. chip \in ChipType /\ chip.ok
  BY <1>1 DEF PowerUp, ChipType, NoRow
<1>3. CommandsTyped
  BY <1>1 DEF CommandsTyped
<1>4. TimersMet
  BY <1>1 DEF TimersMet, PowerUp, SinceOpened, Rest
<1>5. RowsOpen
  BY <1>1 DEF RowsOpen, PowerUp
<1>6. StartUpMet
  <2>1. /\ REFRESH_MAX - refresh_count >= 31 /\ refresh_count # 0
        /\ REFRESH_MAX - refresh_count \in Int
    BY <1>1, SdramAssumption DEF WholeStartUp
  <2> QED
    BY <1>1, <2>1 DEF StartUpMet, PowerUp, ready
<1>7. PinsQuiet
  BY <1>1 DEF PinsQuiet
<1> QED
  BY <1>2, <1>3, <1>4, <1>5, <1>6, <1>7 DEF PinsInv, ChipInv

(* Every branch issues one command, which leaves the chip's registers typed.*)
LEMMA ChipTyped ==
  ASSUME chip \in ChipType, NEW cmd, cmd.op \in Op, cmd.addr \in Int, Pins(cmd)
  PROVE  chip' \in ChipType
<1>n. PICK next : next = ChipNext(chip, cmd.op, Row(cmd.addr))
  OBVIOUS
<1>1. Row(cmd.addr) \in Int
  BY CommandFacts
<1>2. next \in ChipType
  BY <1>n, <1>1, ChipStep DEF ChipMoves
<1>3. PICK ok : chip' = [next EXCEPT !.ok = ok] /\ ok \in BOOLEAN
  <2>1. chip' = [next EXCEPT !.ok = next.ok /\ (Drives(cmd) => PinsFree)]
    BY <1>n, Zenon DEF Pins, Drives, PinsFree
  <2>2. (next.ok /\ (Drives(cmd) => PinsFree)) \in BOOLEAN
    BY Zenon
  <2> QED
    BY <2>1, <2>2
<1> QED
  BY <1>2, <1>3 DEF ChipType

LEMMA PinsNext ==
  ASSUME ChipKeepsUp, WholeStartUp
  PROVE  TypeInv /\ RefreshInv /\ PinsInv /\ [Next]_vars => PinsInv'
<1> SUFFICES ASSUME TypeInv, RefreshInv, PinsInv, [Next]_vars PROVE PinsInv'
  OBVIOUS
<1>1. CASE UNCHANGED vars
  BY <1>1 DEF PinsInv, CommandsTyped, ChipInv, TimersMet, RowsOpen, StartUpMet, PinsQuiet,
     SinceOpened, Rest, Driven, ready, vars, fsm, refresh, grant, burst, outputs, ports
<1>2. CASE Next
  <2>1. ChipInv'
    BY <1>2, WaitPins, IdleNopPins, RefreshPins, OpenBurstPins, ArbPins, ReadPins, WritePins,
       RefreshWaitPins, GapPins, WordPins, EndPins, StartupPins DEF Next
  <2>2. PICK cmd, tag, wack : Edge(cmd, tag, wack) /\ cmd.op \in Op /\ cmd.addr \in Int
    <3>1. /\ cur_cmd.addr \in Int /\ c_cmd[cur].addr \in Int /\ b_next \in Int
      BY SdramAssumption DEF TypeInv, TypeOK, PinsInv, CommandsTyped, Access, NoAccess, Addr
    <3>2. CASE Startup
      <4>1. StartupCommand \in Op
        BY DEF StartupCommand, Op
      <4>2. Edge(COMMAND(StartupCommand), NoTag, {})
        BY <3>2 DEF Startup
      <4> QED
        BY <4>1, <4>2, CommandFacts
    <3>3. CASE IdleGrant \/ IdleNothing \/ Wait \/ RefreshWait \/ BurstGap
      <4>1. Edge(NoCmd, NoTag, {})
        BY <3>3 DEF IdleGrant, IdleNothing, Wait, RefreshWait, BurstGap
      <4> QED
        BY <4>1, CommandFacts DEF Op
    <3>4. CASE IdleRefresh
      <4>1. Edge(COMMAND("AUTO_REFRESH"), NoTag, {})
        BY <3>4 DEF IdleRefresh
      <4> QED
        BY <4>1, CommandFacts DEF Op
    <3>5. CASE IdleOpenBurst
      <4>1. Edge(ACTIVE(b_next), NoTag, {})
        BY <3>5 DEF IdleOpenBurst
      <4> QED
        BY <3>1, <4>1, CommandFacts DEF Op
    <3>6. CASE Arb
      <4>1. Edge(ACTIVE(c_cmd[cur].addr), NoTag, {})
        BY <3>6 DEF Arb
      <4> QED
        BY <3>1, <4>1, CommandFacts DEF Op
    <3>7. CASE Open2Write
      BY <3>1, <3>7 DEF Open2Write, Op
    <3>8. CASE Open2Read
      BY <3>1, <3>8 DEF Open2Read, Op
    <3>9. CASE BurstWord
      BY <3>1, <3>9 DEF BurstWord, Op
    <3>10. CASE BurstEnd
      <4>1. \/ Edge(COMMAND("PRECHARGE"), NoTag, {})
            \/ Edge(NoCmd, NoTag, {})
        BY <3>10, Zenon DEF BurstEnd
      <4> QED
        BY <4>1, CommandFacts DEF Op
    <3> QED
      BY <1>2, <3>2, <3>3, <3>4, <3>5, <3>6, <3>7, <3>8, <3>9, <3>10 DEF Next
  <2>3. chip' \in ChipType
    BY <2>2, ChipTyped DEF Edge, PinsInv
  <2>4. cur_cmd' = cur_cmd \/ cur_cmd' = c_cmd[cur]
    BY <1>2 DEF Next, Startup, IdleRefresh, IdleOpenBurst, IdleGrant, IdleNothing, Arb,
       Open2Write, Open2Read, Wait, RefreshWait, BurstWord, BurstGap, BurstEnd, grant
  <2>5. CommandsTyped'
    BY <2>2, <2>4, RequestsTyped DEF Edge, PinsInv, TypeInv
  <2> QED
    BY <2>1, <2>3, <2>5 DEF PinsInv
<1> QED
  BY <1>1, <1>2

(* ChipTimingMet: the chip never gets a command it cannot take, nor a word  *)
(* on pins that it drives itself, in any program of the clients, with the   *)
(* machine reset or without: the waits of the FSM are long enough for every *)
(* chip that ChipKeepsUp describes.                                         *)
THEOREM ChipTimingsMet ==
  ASSUME ChipKeepsUp, WholeStartUp
  PROVE  Spec => []ChipTimingMet
<1>1. Init => TypeInv /\ RefreshInv /\ PinsInv
  BY TypeInit, RefreshInit, PinsInit
<1>2. TypeInv /\ RefreshInv /\ PinsInv /\ [Next]_vars => (TypeInv /\ RefreshInv /\ PinsInv)'
  BY TypeStep, RefreshStep, PinsNext
<1>3. PinsInv => ChipTimingMet
  BY DEF PinsInv, ChipInv, ChipTimingMet
<1> QED
  BY <1>1, <1>2, <1>3, PTL DEF Spec
-----------------------------------------------------------------------------
(* The memory port.  A request is carried out on the clock of its column    *)
(* command; until its acknowledge, the word of a read moves towards the     *)
(* sampling register together with the tag of its client.                   *)

BurstWords == {RowData[k] : k \in 0 .. MaxLen}

ServeInv ==
    /\ DOMAIN mem = Addr
    /\ ready => b_wdata \in BurstWords
    /\ \A k \in Stage : cap[k].kind = "random" => ~c_cmd[cur].we

IdlePort == [phase |-> "idle", cmd |-> NoAccess, val |-> NoData]

(* What a clock does to the ports of the random clients and to the words.   *)
PortMoves(cmd, tag, wack) ==
    /\ AccessMoves(tag, wack)
    /\ \A i \in Client : i \in wack \/ cap[0] = OwnTag(i) => c_ack'[i]
    /\ \A k \in Stage : cap'[k] = IF k = TagStage /\ tag # NoTag THEN tag
                                  ELSE IF k = 4 THEN NoTag ELSE cap[k + 1]
    /\ cap[0] # NoTag => rdata' = dq[0]
    /\ \A k \in Stage : dq'[k] = IF k = TagStage /\ Reads(cmd) THEN mem[cmd.addr]
                                 ELSE IF k = 4 THEN NoData ELSE dq[k + 1]
    /\ \A i \in Client : c_req[i] /\ c_ack[i] => ~c_req'[i]
    /\ \A i \in Client : ~c_req[i] /\ c_req'[i] => c_cmd'[i] \in Requests[i]

LEMMA EdgePorts ==
  ASSUME Resets = FALSE, Bench = FALSE, NEW cmd, NEW tag, NEW wack, Edge(cmd, tag, wack)
  PROVE  PortMoves(cmd, tag, wack)
<1>1. Capture(tag, wack) /\ Pins(cmd) /\ RandomPorts(FALSE)
  BY DEF Edge, Ports, MachinePorts
<1>2. AccessMoves(tag, wack)
  BY EdgeAccess
<1>3. \A i \in Client : i \in wack \/ cap[0] = OwnTag(i) => c_ack'[i]
  BY <1>1 DEF Capture, OwnTag
<1>4. \A k \in Stage : cap'[k] = IF k = TagStage /\ tag # NoTag THEN tag
                                 ELSE IF k = 4 THEN NoTag ELSE cap[k + 1]
  BY <1>1 DEF Capture, Shifted
<1>5. cap[0] # NoTag => rdata' = dq[0]
  BY <1>1 DEF Capture
<1>6. \A k \in Stage : dq'[k] = IF k = TagStage /\ Reads(cmd) THEN mem[cmd.addr]
                                ELSE IF k = 4 THEN NoData ELSE dq[k + 1]
  BY <1>1 DEF Pins, ChipLatency, TagStage, Reads
<1>7. \A i \in Client : c_req[i] /\ c_ack[i] => ~c_req'[i]
  BY <1>1 DEF RandomPorts
<1>8. \A i \in Client : ~c_req[i] /\ c_req'[i] => c_cmd'[i] \in Requests[i]
  BY <1>1 DEF RandomPorts, Wants
<1> QED
  BY <1>2, <1>3, <1>4, <1>5, <1>6, <1>7, <1>8 DEF PortMoves

(* A tagged client has its tag at one stage only, that of the FSM's state.  *)
LEMMA TagAtFlight ==
  ASSUME AccessInv, NEW i \in Client, Tagged(i)
  PROVE  /\ Flight(state) \in Stage /\ Flight(state) <= TagStage
         /\ cap[Flight(state)] = OwnTag(i) /\ i = cur /\ c_req[i] /\ ~c_ack[i]
         /\ (CHOOSE k \in Stage : cap[k] = [kind |-> "random", id |-> i]) = Flight(state)
<1>1. PICK k \in Stage : cap[k] = OwnTag(i)
  BY DEF Tagged, OwnTag
<1>2. \A j \in Stage : cap[j] = OwnTag(i) =>
         j = Flight(state) /\ i = cur /\ c_req[i] /\ ~c_ack[i]
  BY DEF AccessInv, OwnTag
<1>3. (CHOOSE j \in Stage : cap[j] = OwnTag(i)) = Flight(state)
  BY <1>1, <1>2
<1>4. Flight(state) <= TagStage
  BY DEF Flight, TagStage
<1> QED
  BY <1>1, <1>2, <1>3, <1>4 DEF OwnTag
(* MemPort's steps of one port, for the port p.                             *)
LEMMA PortSteps ==
  ASSUME NEW i \in Client, NEW s, NEW p, p = Port(i), NEW new
  PROVE  /\ p.phase = "idle" /\ i # s /\ new = p => Interface!PortStep(i, s, new)
         /\ p.phase = "wait" /\ i # s /\ new = p => Interface!PortStep(i, s, new)
         /\ p.phase = "served" /\ i # s /\ new = p => Interface!PortStep(i, s, new)
         /\ p.phase = "served" /\ i # s /\ new = [p EXCEPT !.phase = "acked"] =>
               Interface!PortStep(i, s, new)
         /\ p.phase = "acked" /\ i # s /\ new = IdlePort => Interface!PortStep(i, s, new)
         /\ p.phase = "idle" /\ i # s =>
               \A cmd \in Requests[i] : new = [phase |-> "wait", cmd |-> cmd, val |-> NoData] =>
                  Interface!PortStep(i, s, new)
         /\ p.phase = "wait" /\ i = s =>
               \A ph \in {"served", "acked"} :
                  new = [p EXCEPT !.phase = ph, !.val = Interface!Result(p.cmd)] =>
                     Interface!PortStep(i, s, new)
<1>1. [j \in Client |-> Port(j)][i] = p
  OBVIOUS
<1>2. IdlePort.val = NoData
  BY DEF IdlePort
<1> QED
  BY <1>1, <1>2 DEF Interface!PortStep, IdlePort

(* The port that is served: its request is carried out now.                 *)
LEMMA ServedPort ==
  ASSUME NEW i \in Client, NEW c, NEW p, p = Port(i),
         p = [phase |-> "wait", cmd |-> c, val |-> NoData],
         NEW res, res = Interface!Result(c), NEW ph \in {"served", "acked"},
         NEW new, new = [phase |-> ph, cmd |-> c, val |-> res]
  PROVE  Interface!PortStep(i, i, new)
<1>1. p.phase = "wait" /\ p.cmd = c
  OBVIOUS
<1>2. [p EXCEPT !.phase = ph, !.val = res] = [[p EXCEPT !.phase = ph] EXCEPT !.val = res]
  OBVIOUS
<1>3. PICK q : q = [p EXCEPT !.phase = ph]
  OBVIOUS
<1>4. q = [phase |-> ph, cmd |-> c, val |-> NoData]
  BY <1>3
<1>5. [q EXCEPT !.val = res] = new
  BY <1>4
<1>6. new = [p EXCEPT !.phase = ph, !.val = res]
  BY <1>2, <1>3, <1>5
<1> QED
  BY <1>1, <1>6, PortSteps

(* A port that is not served on this clock goes on as MemPort says.         *)
LEMMA OtherPort ==
  ASSUME AccessInv, AccessInv', ServeInv, NEW cmd, NEW tag, NEW wack, PortMoves(cmd, tag, wack),
         NEW i \in Client, NEW s, i # s, i \notin wack, tag # OwnTag(i)
  PROVE  Interface!PortStep(i, s, Port(i)')
<1>p. PICK p : p = Port(i)
  OBVIOUS
<1>n. PICK new : new = Port(i)'
  OBVIOUS
<1>g. /\ 0 \in Stage /\ TagStage \in Stage
      /\ \A k \in Stage : k # 4 => k + 1 \in Stage
  BY DEF Stage, TagStage
<1>t. \A k \in Stage : cap'[k] = OwnTag(i) => k + 1 \in Stage /\ cap[k + 1] = OwnTag(i)
  <2>1. \A k \in Stage : cap'[k] = OwnTag(i) => cap'[k].kind = "random"
    BY DEF OwnTag
  <2> QED
    BY <1>g, <2>1 DEF PortMoves, AccessMoves
<1>a. c_ack'[i] => cap[0] = OwnTag(i)
  BY DEF PortMoves, AccessMoves
<1>1. CASE ~c_req[i]
  <2>1. ~Tagged(i) /\ ~Tagged(i)'
    <3>1. \A k \in Stage : cap[k] # OwnTag(i)
      BY <1>1 DEF AccessInv, OwnTag
    <3> QED
      BY <1>t, <3>1 DEF Tagged, OwnTag
  <2>2. ~c_ack'[i]
    BY <1>a, <1>g, <2>1 DEF Tagged, OwnTag
  <2>3. p = IdlePort /\ p.phase = "idle"
    BY <1>p, <1>1 DEF Port, IdlePort
  <2>4. CASE c_req'[i]
    <3>1. new = [phase |-> "wait", cmd |-> c_cmd'[i], val |-> NoData]
      BY <1>n, <2>1, <2>2, <2>4 DEF Port
    <3>2. c_cmd'[i] \in Requests[i]
      BY <1>1, <2>4 DEF PortMoves
    <3> QED
      BY <1>p, <1>n, <2>3, <3>1, <3>2, PortSteps
  <2>5. CASE ~c_req'[i]
    <3>1. new = IdlePort
      BY <1>n, <2>5 DEF Port, IdlePort
    <3> QED
      BY <1>p, <1>n, <2>3, <3>1, PortSteps
  <2> QED
    BY <2>4, <2>5
<1>2. CASE c_req[i] /\ c_ack[i]
  <2>1. ~c_req'[i]
    BY <1>2 DEF PortMoves
  <2>2. new = IdlePort
    BY <1>n, <2>1 DEF Port, IdlePort
  <2>3. p.phase = "acked"
    BY <1>p, <1>2 DEF Port
  <2> QED
    BY <1>p, <1>n, <2>2, <2>3, PortSteps
<1>3. CASE c_req[i] /\ ~c_ack[i] /\ ~Tagged(i)
  <2>1. c_req'[i] /\ c_cmd'[i] = c_cmd[i]
    BY <1>3 DEF PortMoves, AccessMoves
  <2>2. ~c_ack'[i] /\ ~Tagged(i)'
    BY <1>3, <1>a, <1>g, <1>t DEF Tagged, OwnTag
  <2>3. p.phase = "wait" /\ new = p
    BY <1>p, <1>n, <1>3, <2>1, <2>2 DEF Port
  <2> QED
    BY <1>p, <1>n, <2>3, PortSteps
<1>4. CASE Tagged(i)
  <2> DEFINE f == Flight(state)
  <2>1. /\ f \in Stage /\ f <= TagStage /\ cap[f] = OwnTag(i) /\ c_req[i] /\ ~c_ack[i] /\ i = cur
        /\ (CHOOSE k \in Stage : cap[k] = [kind |-> "random", id |-> i]) = f
    BY <1>4, TagAtFlight
  <2> HIDE DEF f
  <2>2. p = [phase |-> "served", cmd |-> c_cmd[i], val |-> dq[f]]
    BY <1>p, <1>4, <2>1 DEF Port
  <2>3. c_req'[i] /\ c_cmd'[i] = c_cmd[i]
    BY <2>1 DEF PortMoves, AccessMoves
  <2>4. OwnTag(i).kind = "random" /\ OwnTag(i) # NoTag
    BY DEF OwnTag, NoTag
  <2>5. ~c_cmd[i].we
    BY <2>1, <2>4 DEF ServeInv
  <2>6. CASE f = 0
    <3>1. c_ack'[i] /\ rdata' = dq[0]
      BY <2>1, <2>4, <2>6 DEF PortMoves
    <3>2. new = [phase |-> "acked", cmd |-> c_cmd[i], val |-> dq[0]]
      BY <1>n, <2>3, <2>5, <3>1 DEF Port
    <3>3. new = [p EXCEPT !.phase = "acked"] /\ p.phase = "served"
      BY <2>2, <2>6, <3>2
    <3> QED
      BY <1>p, <1>n, <3>3, PortSteps
  <2>7. CASE f # 0
    <3>1. /\ f - 1 \in Stage /\ f - 1 # 4 /\ f - 1 # TagStage /\ (f - 1) + 1 = f
      BY <2>1, <2>7 DEF Stage, TagStage
    <3>2. cap'[f - 1] = OwnTag(i) /\ dq'[f - 1] = dq[f]
      BY <2>1, <3>1 DEF PortMoves
    <3>3. Tagged(i)'
      BY <3>1, <3>2 DEF Tagged, OwnTag
    <3>4. /\ \A k \in Stage : cap'[k] = [kind |-> "random", id |-> i] => k = f - 1
          /\ ~c_ack'[i]
      BY <2>4, <3>1, <3>2 DEF AccessInv, OwnTag
    <3>5. (CHOOSE k \in Stage : cap'[k] = [kind |-> "random", id |-> i]) = f - 1
      BY <3>1, <3>2, <3>4 DEF OwnTag
    <3>6. new = [phase |-> "served", cmd |-> c_cmd[i], val |-> dq[f]]
      BY <1>n, <2>3, <3>2, <3>3, <3>4, <3>5 DEF Port
    <3>7. new = p /\ p.phase = "served"
      BY <2>2, <3>6
    <3> QED
      BY <1>p, <1>n, <3>7, PortSteps
  <2> QED
    BY <2>6, <2>7
<1> QED
  BY <1>1, <1>2, <1>3, <1>4
LEMMA ServeInit ==
  Init => ServeInv
<1> SUFFICES ASSUME Init PROVE ServeInv
  OBVIOUS
<1>1. mem = InitMem /\ state = "STARTUP" /\ \A k \in Stage : cap[k].kind # "random"
  BY DEF Init, NoTag
<1> QED
  BY <1>1, SdramAssumption DEF ServeInv, ready

(* A clock that issues this command with this tag keeps ServeInv.           *)
LEMMA ServeStep ==
  ASSUME Resets = FALSE, Bench = FALSE, TypeInv, AccessInv, ServeInv,
         NEW cmd, NEW tag, NEW wack, Edge(cmd, tag, wack), state \in Waits => cur' = cur,
         tag.kind = "random" => cur' = cur /\ c_req[cur] /\ ~c_cmd[cur].we
  PROVE  ServeInv'
<1>1. PortMoves(cmd, tag, wack)
  BY EdgePorts
<1>2. DOMAIN mem' = Addr
  <2>1. mem' = mem \/ mem' = [mem EXCEPT ![cmd.addr] = cmd.data]
    BY DEF Edge, Pins
  <2> QED
    BY <2>1 DEF ServeInv
<1>3. b_wdata' \in BurstWords
  <2>1. b_wdata' = RowData[b_issued]
    BY DEF Edge, Ports, MachinePorts, BurstPort
  <2> QED
    BY <2>1 DEF TypeInv, TypeOK, BurstWords
<1>4. ASSUME NEW k \in Stage, cap'[k].kind = "random"
      PROVE  ~c_cmd'[cur'].we
  <2>c. cur \in Client /\ (c_req[cur] => c_cmd'[cur] = c_cmd[cur])
    BY <1>1 DEF TypeInv, TypeOK, PortMoves, AccessMoves
  <2>1. CASE cap'[k] = tag
    BY <1>4, <2>1, <2>c
  <2>2. CASE k + 1 \in Stage /\ cap'[k] = cap[k + 1]
    <3>1. k + 1 = Flight(state) /\ c_req[cur] /\ ~c_cmd[cur].we
      BY <1>4, <2>2 DEF AccessInv, ServeInv
    <3>2. state \in Waits
      BY <3>1 DEF Flight, Waits, Stage
    <3> QED
      BY <2>c, <3>1, <3>2
  <2> QED
    BY <1>1, <1>4, <2>1, <2>2 DEF PortMoves, AccessMoves
<1> QED
  BY <1>2, <1>3, <1>4 DEF ServeInv

(* MemPort's step, in which s (-1: nobody) is served.                       *)
LEMMA InterfaceNext ==
  ASSUME NEW s \in Client \cup {-1},
         \A i \in Client : Interface!PortStep(i, s, Port(i)'), Interface!Stored(s)
  PROVE  Interface!Next
<1>1. DOMAIN [i \in Client |-> Port(i)]' = Client
  OBVIOUS
<1>2. \A i \in Client : Interface!PortStep(i, s, [j \in Client |-> Port(j)]'[i])
  OBVIOUS
<1> QED
  BY <1>1, <1>2 DEF Interface!Next, Interface!Nobody

(* A clock on which no random client is served: the chip is written, if at  *)
(* all, by a burst.                                                         *)
LEMMA NobodyServed ==
  ASSUME Resets = FALSE, Bench = FALSE, AccessInv, AccessInv', ServeInv,
         NEW cmd, NEW tag, Edge(cmd, tag, {}), tag.kind # "random",
         Drives(cmd) => cmd.addr \in Addr /\ cmd.data \in BurstWords
  PROVE  Interface!Next
<1>1. PortMoves(cmd, tag, {})
  BY EdgePorts
<1>2. \A i \in Client : i # -1 /\ tag # OwnTag(i)
  BY SdramAssumption DEF Client, OwnTag
<1>3. \A i \in Client : Interface!PortStep(i, -1, Port(i)')
  BY <1>1, <1>2, OtherPort
<1>4. mem' = mem \/ (Drives(cmd) /\ mem' = [mem EXCEPT ![cmd.addr] = cmd.data])
  BY DEF Edge, Pins, Drives
<1>5. Interface!Stored(-1)
  BY <1>4 DEF Interface!Stored, Interface!Nobody, ServeInv, BurstWords
<1> QED
  BY <1>3, <1>5, InterfaceNext

(* A clock on which the controller opens, waits, refreshes or serves a      *)
(* burst.                                                                   *)
LEMMA QuietClock ==
  ASSUME Resets = FALSE, Bench = FALSE, TypeInv, AccessInv, AccessInv', ServeInv,
         NEW cmd, NEW tag, Edge(cmd, tag, {}), tag.kind # "random", state \in Waits => cur' = cur,
         Drives(cmd) => cmd.addr \in Addr /\ cmd.data \in BurstWords
  PROVE  ServeInv' /\ Interface!Next
BY ServeStep, NobodyServed

LEMMA WriteClock ==
  ASSUME Resets = FALSE, Bench = FALSE, TypeInv, AccessInv, AccessInv', ServeInv, Open2Write
  PROVE  ServeInv' /\ Interface!Next
<1> DEFINE cmd == [op |-> "WRITE_AP", addr |-> cur_cmd.addr, data |-> cur_cmd.data]
<1>1. /\ Edge(cmd, NoTag, {cur}) /\ state = "OPEN2" /\ cur_cmd.we
      /\ cmd.op = "WRITE_AP" /\ cmd.addr = cur_cmd.addr /\ cmd.data = cur_cmd.data
  BY DEF Open2Write
<1> HIDE DEF cmd
<1>n. NoTag.kind # "random" /\ \A i : NoTag # OwnTag(i)
  BY DEF NoTag, OwnTag
<1>2. PortMoves(cmd, NoTag, {cur})
  BY <1>1, EdgePorts
<1>3. ServeInv'
  BY <1>1, <1>n, ServeStep DEF Waits
<1>4. /\ cur \in Client /\ c_req[cur] /\ ~c_ack[cur] /\ cur_cmd = c_cmd[cur] /\ ~Tagged(cur)
  BY <1>1, TagAtFlight DEF AccessInv, TypeInv, TypeOK, Flight, Stage
<1>5. /\ c_req'[cur] /\ c_cmd'[cur] = c_cmd[cur] /\ c_ack'[cur]
  BY <1>2, <1>4 DEF PortMoves, AccessMoves
<1>6. ASSUME NEW i \in Client, i = cur PROVE Interface!PortStep(i, cur, Port(i)')
  <2>p. PICK p : p = Port(i)
    OBVIOUS
  <2>n. PICK new : new = Port(i)'
    OBVIOUS
  <2>1. p = [phase |-> "wait", cmd |-> c_cmd[i], val |-> NoData]
    BY <1>4, <1>6, <2>p DEF Port
  <2>2. new = [phase |-> "acked", cmd |-> c_cmd[i], val |-> c_cmd[i].data]
    BY <1>1, <1>4, <1>5, <1>6, <2>n DEF Port
  <2>3. Interface!Result(c_cmd[i]) = c_cmd[i].data
    BY <1>1, <1>4, <1>6 DEF Interface!Result
  <2> QED
    BY <1>6, <2>p, <2>n, <2>1, <2>2, <2>3, ServedPort
<1>7. \A i \in Client : Interface!PortStep(i, cur, Port(i)')
  <2> SUFFICES ASSUME NEW i \in Client PROVE Interface!PortStep(i, cur, Port(i)')
    OBVIOUS
  <2>1. CASE i # cur
    BY <1>2, <1>n, <2>1, OtherPort
  <2> QED
    BY <1>6, <2>1
<1>8. Interface!Stored(cur)
  <2>1. mem' = [mem EXCEPT ![cur_cmd.addr] = cur_cmd.data]
    BY <1>1 DEF Edge, Pins
  <2>2. cur # -1
    BY <1>4, SdramAssumption DEF Client
  <2>3. Port(cur).cmd = cur_cmd
    BY <1>4 DEF Port
  <2> QED
    BY <1>1, <1>4, <2>1, <2>2, <2>3 DEF Interface!Stored, Interface!Nobody
<1> QED
  BY <1>3, <1>4, <1>7, <1>8, InterfaceNext

LEMMA ReadClock ==
  ASSUME Resets = FALSE, Bench = FALSE, TypeInv, AccessInv, AccessInv', ServeInv, Open2Read
  PROVE  ServeInv' /\ Interface!Next
<1> DEFINE cmd == [op |-> "READ_AP", addr |-> cur_cmd.addr, data |-> NoData]
<1>1. /\ Edge(cmd, OwnTag(cur), {}) /\ state = "OPEN2" /\ ~cur_cmd.we /\ cur' = cur
      /\ cmd.op = "READ_AP" /\ cmd.addr = cur_cmd.addr
  BY DEF Open2Read, OwnTag, grant
<1> HIDE DEF cmd
<1>n. \A i : OwnTag(i).id = i /\ OwnTag(i) # NoTag
  BY DEF NoTag, OwnTag
<1>2. PortMoves(cmd, OwnTag(cur), {})
  BY <1>1, EdgePorts
<1>4. /\ cur \in Client /\ c_req[cur] /\ ~c_ack[cur] /\ cur_cmd = c_cmd[cur] /\ ~Tagged(cur)
  BY <1>1, TagAtFlight DEF AccessInv, TypeInv, TypeOK, Flight, Stage
<1>3. ServeInv'
  BY <1>1, <1>4, ServeStep DEF Waits
<1>5. /\ c_req'[cur] /\ c_cmd'[cur] = c_cmd[cur]
      /\ TagStage \in Stage /\ cap'[TagStage] = OwnTag(cur)
      /\ dq'[TagStage] = mem[c_cmd[cur].addr]
  BY <1>1, <1>2, <1>4, <1>n DEF PortMoves, AccessMoves, TagStage, Stage, Reads
<1>6. /\ \A k \in Stage : cap'[k] = OwnTag(cur) => k = TagStage
      /\ ~c_ack'[cur] /\ Tagged(cur)'
  <2>1. OwnTag(cur).kind = "random"
    BY DEF OwnTag
  <2>2. /\ Flight(state)' = TagStage /\ ~c_ack'[cur]
    BY <1>1, <1>5, <2>1 DEF AccessInv
  <2> QED
    BY <1>1, <1>5, <2>1, <2>2 DEF AccessInv, Tagged, OwnTag
<1>7. ASSUME NEW i \in Client, i = cur PROVE Interface!PortStep(i, cur, Port(i)')
  <2>p. PICK p : p = Port(i)
    OBVIOUS
  <2>n. PICK new : new = Port(i)'
    OBVIOUS
  <2>1. p = [phase |-> "wait", cmd |-> c_cmd[i], val |-> NoData]
    BY <1>4, <1>7, <2>p DEF Port
  <2>2. (CHOOSE k \in Stage : cap'[k] = [kind |-> "random", id |-> cur]) = TagStage
    BY <1>5, <1>6 DEF OwnTag
  <2>3. new = [phase |-> "served", cmd |-> c_cmd[i], val |-> mem[c_cmd[i].addr]]
    BY <1>1, <1>5, <1>6, <2>2, <1>7, <2>n DEF Port
  <2>4. Interface!Result(c_cmd[i]) = mem[c_cmd[i].addr]
    BY <1>1, <1>4, <1>7 DEF Interface!Result
  <2> QED
    BY <1>7, <2>p, <2>n, <2>1, <2>3, <2>4, ServedPort
<1>8. \A i \in Client : Interface!PortStep(i, cur, Port(i)')
  <2> SUFFICES ASSUME NEW i \in Client PROVE Interface!PortStep(i, cur, Port(i)')
    OBVIOUS
  <2>1. CASE i # cur
    <3>1. OwnTag(cur) # OwnTag(i)
      BY <1>n, <2>1
    <3> QED
      BY <1>2, <2>1, <3>1, OtherPort
  <2> QED
    BY <1>7, <2>1
<1>9. Interface!Stored(cur)
  <2>1. mem' = mem
    BY <1>1 DEF Edge, Pins
  <2>2. cur # -1
    BY <1>4, SdramAssumption DEF Client
  <2>3. Port(cur).cmd = cur_cmd
    BY <1>4 DEF Port
  <2> QED
    BY <1>1, <1>4, <2>1, <2>2, <2>3 DEF Interface!Stored, Interface!Nobody
<1> QED
  BY <1>3, <1>4, <1>8, <1>9, InterfaceNext
LEMMA ServeNext ==
  ASSUME Resets = FALSE, Bench = FALSE
  PROVE  /\ TypeInv /\ AccessInv /\ ServeInv /\ [Next]_vars => ServeInv'
         /\ TypeInv /\ AccessInv /\ AccessInv' /\ ServeInv /\ [Next]_vars =>
               [Interface!Next]_(Interface!vars)
<1> SUFFICES ASSUME TypeInv, AccessInv, ServeInv, [Next]_vars
             PROVE  ServeInv' /\ [Interface!Next]_(Interface!vars)
  BY AccessStep
<1>a. AccessInv'
  BY AccessStep
<1>n. NoTag.kind # "random"
  BY DEF NoTag
<1>c. /\ ~Drives(NoCmd)
      /\ \A o \in {"NOP", "PRECHARGE", "AUTO_REFRESH", "LOAD_MODE"} : ~Drives(COMMAND(o))
      /\ \A a : ~Drives(ACTIVE(a))
  BY CommandFacts DEF Drives
<1>1. CASE UNCHANGED vars
  <2>1. ServeInv'
    BY <1>1 DEF ServeInv, ready, vars, fsm, grant, outputs, ports
  <2>2. mem' = mem /\ \A i \in Client : Port(i)' = Port(i)
    BY <1>1 DEF Port, Tagged, vars, outputs, ports
  <2>3. UNCHANGED Interface!vars
    BY <2>2 DEF Interface!vars
  <2> QED
    BY <2>1, <2>3
<1>2. CASE Startup
  <2>1. Edge(COMMAND(StartupCommand), NoTag, {}) /\ state = "STARTUP"
    BY <1>2 DEF Startup
  <2>2. ~Drives(COMMAND(StartupCommand))
    BY <1>c DEF StartupCommand
  <2> QED
    BY <1>a, <1>n, <2>1, <2>2, QuietClock DEF Waits
<1>3. CASE IdleGrant \/ IdleNothing \/ Wait \/ RefreshWait \/ BurstGap
  <2>1. Edge(NoCmd, NoTag, {}) /\ (state \in Waits => cur' = cur)
    BY <1>3 DEF IdleGrant, IdleNothing, Wait, RefreshWait, BurstGap, Waits, grant
  <2> QED
    BY <1>a, <1>c, <1>n, <2>1, QuietClock
<1>4. CASE IdleRefresh
  <2>1. Edge(COMMAND("AUTO_REFRESH"), NoTag, {}) /\ state = "IDLE"
    BY <1>4 DEF IdleRefresh
  <2> QED
    BY <1>a, <1>c, <1>n, <2>1, QuietClock DEF Waits
<1>5. CASE IdleOpenBurst
  <2>1. Edge(ACTIVE(b_next), NoTag, {}) /\ state = "IDLE"
    BY <1>5 DEF IdleOpenBurst
  <2> QED
    BY <1>a, <1>c, <1>n, <2>1, QuietClock DEF Waits
<1>6. CASE Arb
  <2>1. Edge(ACTIVE(c_cmd[cur].addr), NoTag, {}) /\ state = "ARB"
    BY <1>6 DEF Arb
  <2> QED
    BY <1>a, <1>c, <1>n, <2>1, QuietClock DEF Waits
<1>7. CASE Open2Write
  BY <1>7, <1>a, WriteClock
<1>8. CASE Open2Read
  BY <1>8, <1>a, ReadClock
<1>9. CASE BurstWord
  <2>1. state \notin Waits /\ b_next \in Addr /\ b_wdata \in BurstWords
    BY <1>9 DEF BurstWord, Waits, TypeInv, TypeOK, ServeInv, ready
  <2>2. CASE b_is_we
    <3>1. PICK cmd : cmd = [op |-> "WRITE", addr |-> b_next, data |-> b_wdata]
      OBVIOUS
    <3>2. Edge(cmd, NoTag, {})
      BY <1>9, <2>2, <3>1 DEF BurstWord
    <3>3. cmd.addr = b_next /\ cmd.data = b_wdata
      BY <3>1
    <3> QED
      BY <1>a, <1>n, <2>1, <3>2, <3>3, QuietClock
  <2>3. CASE ~b_is_we
    <3>1. PICK cmd, tag : /\ cmd = [op |-> "READ", addr |-> b_next, data |-> NoData]
                          /\ tag = [kind |-> "burst", id |-> b_issued]
      OBVIOUS
    <3>2. Edge(cmd, tag, {})
      BY <1>9, <2>3, <3>1 DEF BurstWord
    <3>3. ~Drives(cmd) /\ tag.kind # "random"
      BY <3>1 DEF Drives
    <3> QED
      BY <1>a, <2>1, <3>2, <3>3, QuietClock
  <2> QED
    BY <2>2, <2>3
<1>10. CASE BurstEnd
  <2>1. state = "BEND" /\ state \notin Waits
    BY <1>10 DEF BurstEnd, Waits
  <2>2. Edge(COMMAND("PRECHARGE"), NoTag, {}) \/ Edge(NoCmd, NoTag, {})
    BY <1>10, Zenon DEF BurstEnd
  <2>3. CASE Edge(COMMAND("PRECHARGE"), NoTag, {})
    BY <1>a, <1>c, <1>n, <2>1, <2>3, QuietClock
  <2>4. CASE Edge(NoCmd, NoTag, {})
    BY <1>a, <1>c, <1>n, <2>1, <2>4, QuietClock
  <2> QED
    BY <2>2, <2>3, <2>4
<1> QED
  BY <1>1, <1>2, <1>3, <1>4, <1>5, <1>6, <1>7, <1>8, <1>9, <1>10 DEF Next

(* ServesMemPort: without machine resets, the controller implements the     *)
(* memory request interface for any number of clients, beside any bursts:   *)
(* every request takes effect once, between its rise and its acknowledge,   *)
(* and the acknowledge of a read carries the word stored at that instant.   *)
THEOREM ImplementsMemPort ==
  ASSUME Resets = FALSE, Bench = FALSE
  PROVE  Spec => ServesMemPort
<1>1. Init => TypeInv /\ AccessInv /\ ServeInv
  BY TypeInit, AccessInit, ServeInit
<1>2. TypeInv /\ AccessInv /\ ServeInv /\ [Next]_vars => (TypeInv /\ AccessInv /\ ServeInv)'
  BY TypeStep, AccessStep, ServeNext
<1>3. Init => Interface!Init
  <2> SUFFICES ASSUME Init PROVE Interface!Init
    OBVIOUS
  <2>1. mem = InitMem /\ \A i \in Client : ~c_req[i]
    BY DEF Init
  <2>2. \A i \in Client : Port(i) = IdlePort
    BY <2>1 DEF Port, IdlePort
  <2> QED
    BY <2>1, <2>2 DEF Interface!Init, IdlePort
<1>4. TypeInv /\ AccessInv /\ AccessInv' /\ ServeInv /\ [Next]_vars =>
         [Interface!Next]_(Interface!vars)
  BY ServeNext
<1> QED
  BY <1>1, <1>2, <1>3, <1>4, PTL DEF Spec, ServesMemPort, Interface!Spec

-----------------------------------------------------------------------------
(* Turns.  Every grant to someone else brings a waiting client nearer.      *)
LEMMA DistanceIs ==
  ASSUME NEW i \in Client, NEW l \in Client
  PROVE  (i + NCLI - 1 - l) % NCLI = IF i > l THEN i - l - 1 ELSE i + NCLI - 1 - l
<1>1. NCLI \in Nat \ {0} /\ i \in 0 .. NCLI - 1 /\ l \in 0 .. NCLI - 1
  BY SdramAssumption DEF Client
<1>2. CASE i > l
  BY <1>1, <1>2
<1>3. CASE ~(i > l)
  BY <1>1, <1>3
<1> QED
  BY <1>2, <1>3

(* The arbiter grants the pending client that is nearest.                   *)
LEMMA PickNearest ==
  ASSUME last \in Client, any_req
  PROVE  pick \in Pending /\ \A j \in Pending : Distance(pick) <= Distance(j)
<1> DEFINE D == {Distance(i) : i \in Pending}
<1>1. \A i \in Pending : Distance(i) \in Nat
  BY ModRange, SdramAssumption DEF Pending, Client, Distance
<1>2. D \in SUBSET Nat /\ D # {}
  BY <1>1 DEF any_req
<1>3. \E x \in D : \A y \in D : x <= y
  <2> HIDE DEF D
  <2> QED BY <1>2, LeastNatural
<1>4. \E i \in Pending : \A j \in Pending : Distance(i) <= Distance(j)
  BY <1>3
<1> QED
  BY <1>4 DEF pick

(* Whoever has passed a waiting client comes after it in the circle.        *)
TurnsInv ==
    \A i \in Client :
       /\ passed[i] \in [Client -> {0, 1}]
       /\ \A j \in Client : passed[i][j] = 1 => Distance(i) < Distance(j)

LEMMA DistanceShort ==
  ASSUME last \in Client, NEW i \in Client
  PROVE  Distance(i) \in 0 .. NCLI - 1
<1>1. i + NCLI - 1 - last \in Int /\ NCLI \in Nat \ {0}
  BY SdramAssumption DEF Client
<1> QED
  BY <1>1, ModRange DEF Distance

LEMMA TurnsInit ==
  WInit => TurnsInv
BY DEF WInit, TurnsInv, NotPassed

(* A grant comes from S_IDLE only, and goes to pick.                        *)
LEMMA GrantOrSame ==
  ASSUME Next
  PROVE  IF Grants THEN any_req /\ last' = pick ELSE last' = last
BY DEF Next, Grants, Startup, IdleRefresh, IdleOpenBurst, IdleGrant, IdleNothing, Arb, Following,
   Open2Write, Open2Read, Wait, RefreshWait, BurstWord, BurstGap, BurstEnd, ClosingWait, fsm, grant

(* A grant to k brings everyone who is further away equally nearer ...      *)
LEMMA Nearer ==
  ASSUME last \in Client, NEW k \in Client, last' = k,
         NEW i \in Client, Distance(k) < Distance(i)
  PROVE  Distance(i)' = Distance(i) - Distance(k) - 1
<1>1. /\ Distance(i) = IF i > last THEN i - last - 1 ELSE i + NCLI - 1 - last
      /\ Distance(k) = IF k > last THEN k - last - 1 ELSE k + NCLI - 1 - last
      /\ Distance(i)' = IF i > k THEN i - k - 1 ELSE i + NCLI - 1 - k
  BY DistanceIs DEF Distance
<1>2. i \in 0 .. NCLI - 1 /\ last \in 0 .. NCLI - 1 /\ k \in 0 .. NCLI - 1 /\ NCLI \in Nat
  BY SdramAssumption DEF Client
<1> QED
  BY <1>1, <1>2

(* ... and leaves k last of all, NCLI - 1 away.                             *)
LEMMA Furthest ==
  ASSUME last \in Client, NEW k \in Client, last' = k, NEW i \in Client, i # k
  PROVE  Distance(i)' < Distance(k)' /\ Distance(i) # Distance(k)
<1>1. /\ Distance(i) = IF i > last THEN i - last - 1 ELSE i + NCLI - 1 - last
      /\ Distance(k) = IF k > last THEN k - last - 1 ELSE k + NCLI - 1 - last
      /\ Distance(i)' = IF i > k THEN i - k - 1 ELSE i + NCLI - 1 - k
  BY DistanceIs DEF Distance
<1>2. i \in 0 .. NCLI - 1 /\ last \in 0 .. NCLI - 1 /\ k \in 0 .. NCLI - 1 /\ NCLI \in Nat
  BY SdramAssumption DEF Client
<1>3. Distance(k)' = NCLI - 1
  <2>1. (k + NCLI - 1 - k) % NCLI = k + NCLI - 1 - k
    BY <1>2, DistanceIs
  <2>2. Distance(k)' = (k + NCLI - 1 - k) % NCLI
    BY DEF Distance
  <2> QED
    BY <1>2, <2>1, <2>2
<1> QED
  BY <1>1, <1>2, <1>3

LEMMA TurnsStep ==
  TypeInv /\ TypeInv' /\ TurnsInv /\ [WNext]_wvars => TurnsInv'
<1> SUFFICES ASSUME TypeInv, TypeInv', TurnsInv, [WNext]_wvars PROVE TurnsInv'
  OBVIOUS
<1>t. last \in Client /\ last' \in Client
  BY DEF TypeInv, TypeOK
<1>1. CASE UNCHANGED wvars
  BY <1>1 DEF TurnsInv, Distance, wvars, vars, grant
<1>2. CASE WNext
  <2> SUFFICES ASSUME NEW i \in Client
               PROVE  /\ passed'[i] \in [Client -> {0, 1}]
                      /\ \A j \in Client : passed'[i][j] = 1 => Distance(i)' < Distance(j)'
    BY DEF TurnsInv
  <2>1. Next
    BY <1>2 DEF WNext
  <2>2. passed'[i] = IF i \notin Pending \/ (Grants /\ pick = i) THEN NotPassed
                     ELSE IF Grants THEN [passed[i] EXCEPT ![pick] = @ + 1] ELSE passed[i]
    BY <1>2 DEF WNext, History
  <2>3. /\ passed[i] \in [Client -> {0, 1}]
        /\ \A j \in Client : passed[i][j] = 1 => Distance(i) < Distance(j)
    BY DEF TurnsInv
  <2>4. CASE i \notin Pending \/ (Grants /\ pick = i)
    BY <2>2, <2>4 DEF NotPassed
  <2>5. CASE i \in Pending /\ Grants /\ pick # i
    <3>1. PICK k \in Client : k = pick
      BY <1>t, <2>1, <2>5, GrantOrSame, PickNearest DEF Pending
    <3>2. last' = k /\ Distance(k) <= Distance(i) /\ i # k
      BY <1>t, <2>1, <2>5, <3>1, GrantOrSame, PickNearest
    <3>3. \A j \in Client : Distance(j) \in Nat
      BY <1>t, DistanceShort
    <3>4. Distance(k) < Distance(i)
      <4>1. Distance(i) # Distance(k)
        BY <1>t, <3>2, Furthest
      <4> QED
        BY <3>2, <3>3, <4>1
    <3>5. passed'[i] = [passed[i] EXCEPT ![k] = @ + 1] /\ passed[i][k] = 0
      BY <2>2, <2>3, <2>5, <3>1, <3>3, <3>4
    <3>6. passed'[i] \in [Client -> {0, 1}]
      BY <2>3, <3>5
    <3>7. ASSUME NEW j \in Client, passed'[i][j] = 1
          PROVE  Distance(i)' < Distance(j)'
      <4>1. CASE j = k
        BY <1>t, <3>2, <4>1, Furthest
      <4>2. CASE j # k
        <5>1. Distance(i) < Distance(j) /\ Distance(k) < Distance(j)
          BY <2>3, <3>3, <3>4, <3>5, <3>7, <4>2
        <5>2. Distance(i)' = Distance(i) - Distance(k) - 1
          BY <1>t, <3>2, <3>4, Nearer
        <5>3. Distance(j)' = Distance(j) - Distance(k) - 1
          BY <1>t, <3>2, <5>1, Nearer
        <5> QED
          BY <3>3, <5>1, <5>2, <5>3
      <4> QED
        BY <4>1, <4>2
    <3> QED
      BY <3>6, <3>7
  <2>6. CASE i \in Pending /\ ~Grants
    <3>1. \A j \in Client : Distance(j)' = Distance(j)
      BY <2>1, <2>6, GrantOrSame DEF Distance
    <3> QED
      BY <2>2, <2>3, <2>6, <3>1
  <2> QED
    BY <2>4, <2>5, <2>6
<1> QED
  BY <1>1, <1>2

(* NobodyPassedTwice: while a client waits, each of the others is granted   *)
(* once at most, whoever else asks, and with or without machine resets: a   *)
(* client that has passed it comes after it in the circle pick goes round.  *)
THEOREM RoundRobin == WSpec => []NobodyPassedTwice
<1>1. WInit => TypeInv /\ TurnsInv
  BY TypeInit, TurnsInit DEF WInit
<1>2. TypeInv /\ TurnsInv /\ [WNext]_wvars => (TypeInv /\ TurnsInv)'
  <2>1. [WNext]_wvars => [Next]_vars
    BY DEF WNext, wvars
  <2> QED
    BY <2>1, TypeStep, TurnsStep
<1>3. TurnsInv => NobodyPassedTwice
  BY DEF TurnsInv, NobodyPassedTwice
<1> QED
  BY <1>1, <1>2, <1>3, PTL DEF WSpec

-----------------------------------------------------------------------------
(* The burst port.  Between its acceptance and b_done a burst belongs to    *)
(* the client that still holds b_req, and counts the words of its command.  *)
Owned     == b_req /\ b_accepted
Finishing == Owned /\ ~b_active /\ ~b_done

OwnerInv ==
    /\ ~booting
    /\ b_req => b_cmd \in Bursts
    /\ b_active => Owned /\ ~b_done /\ b_is_we = b_cmd.we /\ b_issued + b_remain = b_cmd.len
    /\ b_done => Owned /\ ~b_active /\ state = "IDLE"
    /\ Finishing => state \in Waits /\ b_remain = 0 /\ b_issued = b_cmd.len
    /\ ~b_active /\ ~Finishing => b_issued = 0

(* The burst client's side of a clock.                                      *)
OwnerMoves ==
    /\ ~booting'
    /\ \/ ~b_req /\ b_req' /\ b_cmd' \in Bursts /\ buf' = EmptyBuf
       \/ /\ b_req' = (b_req /\ ~b_done) /\ b_cmd' = b_cmd
          /\ buf' = IF b_wr THEN [buf EXCEPT ![b_idx] = b_data] ELSE buf

LEMMA OwnerEdge ==
  ASSUME Resets = FALSE, Bench = FALSE, ~booting,
         NEW cmd, NEW tag, NEW wack, Edge(cmd, tag, wack)
  PROVE  OwnerMoves
<1>1. PICK mreset \in {FALSE, Resets} :
         BurstPort(mreset) /\ booting' = (mreset \/ (booting /\ (state # "IDLE" \/ b_active)))
  BY DEF Edge, Ports, MachinePorts
<1>2. mreset = FALSE
  OBVIOUS
<1> QED
  BY <1>1, <1>2 DEF BurstPort, OwnerMoves

LEMMA OwnerInit ==
  Init => OwnerInv
BY DEF Init, OwnerInv, Finishing, Owned

(* A clock on which the branch leaves the burst's counters alone: a burst   *)
(* may be accepted, or be reported done.                                    *)
LEMMA OwnerKept ==
  ASSUME TypeInv, OwnerInv, OwnerMoves, NEW y,
         BurstRegs(b_active, b_next, b_remain, b_issued, y),
         state \in Waits \ {"WAIT1"} => state' \in Waits,
         state = "WAIT1" => state' = "IDLE"
  PROVE  OwnerInv'
<1>t. /\ b_active \in BOOLEAN /\ b_done \in BOOLEAN /\ b_req \in BOOLEAN /\ b_accepted \in BOOLEAN
      /\ b_issued \in Nat /\ b_remain \in Nat /\ b_cmd \in BurstCmd
  BY SdramAssumption DEF TypeInv, TypeOK
<1>l. b_cmd.len \in Nat /\ b_cmd.len # 0
  BY <1>t, SdramAssumption DEF BurstCmd
<1>c. b_req => b_cmd' = b_cmd
  BY DEF OwnerMoves
<1>r. b_req /\ ~b_done => b_req'
  BY DEF OwnerMoves
<1>b. ~booting' /\ (b_req' => b_cmd' \in Bursts)
  BY DEF OwnerMoves, OwnerInv
<1>1. CASE AcceptBurst
  <2>1. b_req /\ ~b_active /\ ~b_done /\ ~b_accepted
    BY <1>1 DEF AcceptBurst
  <2>2. ~Finishing /\ b_issued = 0
    BY <2>1 DEF Finishing, Owned, OwnerInv
  <2>3. /\ b_active' = TRUE /\ b_is_we' = b_cmd.we /\ b_remain' = b_cmd.len /\ b_issued' = 0
        /\ b_accepted' /\ ~b_done'
    BY <1>1, <2>1, <2>2 DEF BurstRegs, BurstDone
  <2>4. b_req' /\ b_cmd' = b_cmd
    BY <1>c, <1>r, <2>1
  <2> QED
    BY <1>b, <1>l, <2>3, <2>4 DEF OwnerInv, Finishing, Owned
<1>2. CASE ~AcceptBurst /\ BurstDone
  <2>1. b_req /\ ~b_active /\ ~b_done /\ b_issued # 0 /\ state = "WAIT1"
    BY <1>2 DEF BurstDone
  <2>2. Finishing
    BY <2>1 DEF OwnerInv
  <2>3. ~b_active' /\ b_issued' = 0 /\ b_done' /\ b_accepted' /\ b_req' /\ state' = "IDLE"
    BY <1>2, <1>r, <2>1, <2>2 DEF BurstRegs, Finishing, Owned
  <2> QED
    BY <1>b, <2>3 DEF OwnerInv, Finishing, Owned
<1>3. CASE ~AcceptBurst /\ ~BurstDone
  <2>1. /\ b_active' = b_active /\ b_remain' = b_remain /\ b_issued' = b_issued
        /\ b_is_we' = b_is_we /\ ~b_done' /\ b_accepted' = (b_req /\ b_accepted)
    BY <1>3 DEF BurstRegs
  <2>2. CASE b_active
    <3>1. Owned /\ ~b_done /\ b_is_we = b_cmd.we /\ b_issued + b_remain = b_cmd.len
      BY <2>2 DEF OwnerInv
    <3>2. b_req' /\ b_cmd' = b_cmd /\ b_accepted'
      BY <1>c, <1>r, <2>1, <3>1 DEF Owned
    <3> QED
      BY <1>b, <2>1, <2>2, <3>1, <3>2 DEF OwnerInv, Finishing, Owned
  <2>3. CASE Finishing
    <3>1. /\ b_req /\ b_accepted /\ ~b_active /\ ~b_done
          /\ state \in Waits /\ b_remain = 0 /\ b_issued = b_cmd.len
      BY <2>3 DEF OwnerInv, Finishing, Owned
    <3>2. state # "WAIT1"
      BY <1>3, <1>l, <3>1 DEF BurstDone
    <3>3. b_req' /\ b_cmd' = b_cmd /\ b_accepted' /\ state' \in Waits
      BY <1>c, <1>r, <2>1, <3>1, <3>2
    <3> QED
      BY <1>b, <2>1, <3>1, <3>3 DEF OwnerInv, Finishing, Owned
  <2>4. CASE ~b_active /\ ~Finishing
    <3>1. b_issued = 0
      BY <2>4 DEF OwnerInv
    <3>2. ~(b_req' /\ b_accepted')
      <4>1. CASE b_done
        BY <2>1, <4>1 DEF OwnerMoves, OwnerInv, Owned
      <4>2. CASE ~b_done
        BY <2>1, <2>4, <4>2 DEF Finishing, Owned
      <4> QED
        BY <4>1, <4>2
    <3> QED
      BY <1>b, <2>1, <2>4, <3>1, <3>2 DEF OwnerInv, Finishing, Owned
  <2> QED
    BY <2>2, <2>3, <2>4
<1> QED
  BY <1>1, <1>2, <1>3

LEMMA OwnerWord ==
  ASSUME TypeInv, OwnerInv, OwnerMoves, BurstWord
  PROVE  OwnerInv'
<1>n. b_issued \in Nat /\ b_remain \in Nat
  BY SdramAssumption DEF TypeInv, TypeOK
<1>1. /\ b_active /\ state = "BREAD"
      /\ BurstRegs(b_active, (b_next + 1) % AddrSize, b_remain - 1, b_issued + 1, b_yield)
  BY DEF BurstWord, TypeInv, BurstInv
<1>2. Owned /\ ~b_done /\ b_is_we = b_cmd.we /\ b_issued + b_remain = b_cmd.len
  BY <1>1 DEF OwnerInv
<1>3. /\ b_active' /\ b_remain' = b_remain - 1 /\ b_issued' = b_issued + 1
      /\ b_is_we' = b_is_we /\ ~b_done' /\ b_accepted'
  BY <1>1, <1>2 DEF BurstRegs, AcceptBurst, BurstDone, Owned
<1>4. b_req' /\ b_cmd' = b_cmd
  BY <1>2 DEF OwnerMoves, Owned
<1>5. b_issued' + b_remain' = b_cmd'.len
  BY <1>n, <1>2, <1>3, <1>4
<1>6. ~booting' /\ b_cmd' \in Bursts
  BY <1>2, <1>4 DEF OwnerMoves, OwnerInv, Owned
<1> QED
  BY <1>2, <1>3, <1>4, <1>5, <1>6 DEF OwnerInv, Finishing, Owned

LEMMA OwnerEnd ==
  ASSUME TypeInv, OwnerInv, OwnerMoves, BurstEnd, wait_n = 0
  PROVE  OwnerInv'
<1>n. b_issued \in Nat /\ b_remain \in Nat
  BY SdramAssumption DEF TypeInv, TypeOK
<1>1. /\ b_active /\ state = "BEND"
      /\ BurstRegs(b_active /\ b_remain # 0, b_next, b_remain, b_issued, TRUE)
      /\ state' = ClosingWait
  BY DEF BurstEnd, TypeInv, BurstInv
<1>2. Owned /\ ~b_done /\ b_is_we = b_cmd.we /\ b_issued + b_remain = b_cmd.len
  BY <1>1 DEF OwnerInv
<1>3. /\ b_active' = (b_remain # 0) /\ b_remain' = b_remain /\ b_issued' = b_issued
      /\ b_is_we' = b_is_we /\ ~b_done' /\ b_accepted'
  BY <1>1, <1>2 DEF BurstRegs, AcceptBurst, BurstDone, Owned
<1>4. b_req' /\ b_cmd' = b_cmd
  BY <1>2 DEF OwnerMoves, Owned
<1>5. ~booting' /\ b_cmd' \in Bursts
  BY <1>2, <1>4 DEF OwnerMoves, OwnerInv, Owned
<1>6. b_remain = 0 => state' \in Waits /\ b_issued' = b_cmd'.len
  BY <1>n, <1>1, <1>2, <1>3, <1>4 DEF ClosingWait, Waits
<1>7. b_issued' + b_remain' = b_cmd'.len
  BY <1>n, <1>2, <1>3, <1>4
<1> QED
  BY <1>2, <1>3, <1>4, <1>5, <1>6, <1>7 DEF OwnerInv, Finishing, Owned

LEMMA OwnerStep ==
  ASSUME Resets = FALSE, Bench = FALSE
  PROVE  TypeInv /\ OwnerInv /\ [Next]_vars => OwnerInv'
<1> SUFFICES ASSUME TypeInv, OwnerInv, [Next]_vars PROVE OwnerInv'
  OBVIOUS
<1>b. ~booting
  BY DEF OwnerInv
<1>1. CASE BurstWord
  <2>1. OwnerMoves
    BY <1>1, <1>b, OwnerEdge DEF BurstWord
  <2> QED
    BY <1>1, <2>1, OwnerWord
<1>2. CASE BurstEnd /\ wait_n = 0
  <2>1. OwnerMoves
    BY <1>2, <1>b, OwnerEdge DEF BurstEnd
  <2> QED
    BY <1>2, <2>1, OwnerEnd
<1>3. CASE IdleGrant
  <2>1. OwnerMoves
    BY <1>3, <1>b, OwnerEdge DEF IdleGrant
  <2> QED
    BY <1>3, <2>1, OwnerKept DEF IdleGrant, Waits
<1>4. CASE /\ KeepBurst /\ OwnerMoves
           /\ state \in Waits \ {"WAIT1"} => state' \in Waits
           /\ state = "WAIT1" => state' = "IDLE"
  BY <1>4, OwnerKept DEF KeepBurst
<1>5. CASE UNCHANGED vars
  <2>1. UNCHANGED <<state, booting, b_req, b_cmd, b_active, b_accepted, b_done, b_is_we,
                    b_issued, b_remain>>
    BY <1>5 DEF vars, fsm, burst, ports
  <2> QED
    BY <2>1 DEF OwnerInv, Finishing, Owned
<1>6. CASE Wait
  <2>1. OwnerMoves /\ KeepBurst
    BY <1>6, <1>b, OwnerEdge DEF Wait
  <2>2. /\ state \in Waits \ {"WAIT1"} => state' \in Waits
        /\ state = "WAIT1" => state' = "IDLE"
    BY <1>6 DEF Wait, Following, Waits
  <2> QED
    BY <1>4, <2>1, <2>2
<1>7. ASSUME Startup \/ IdleRefresh \/ IdleOpenBurst \/ IdleNothing \/ Arb \/ Open2Write
             \/ Open2Read \/ RefreshWait \/ BurstGap \/ (BurstEnd /\ wait_n # 0)
      PROVE  OwnerInv'
  <2>1. OwnerMoves
    BY <1>7, <1>b, OwnerEdge DEF Startup, IdleRefresh, IdleOpenBurst, IdleNothing, Arb,
       Open2Write, Open2Read, RefreshWait, BurstGap, BurstEnd
  <2>2. KeepBurst /\ state \notin Waits
    BY <1>7 DEF Startup, IdleRefresh, IdleOpenBurst, IdleNothing, Arb,
       Open2Write, Open2Read, RefreshWait, BurstGap, BurstEnd, Waits
  <2> QED
    BY <1>4, <2>1, <2>2 DEF Waits
<1> QED
  BY <1>1, <1>2, <1>3, <1>5, <1>6, <1>7 DEF Next

-----------------------------------------------------------------------------
(* Chunks.  A chunk opened while somebody waits is followed by a grant, for *)
(* b_yield holds b_start down, unless a refresh comes in between and a new  *)
(* burst is accepted meanwhile; the next refresh is then too far off for    *)
(* another (RefreshesFarApart).                                             *)
InBurst == state \in {"BOPEN1", "BOPEN2", "BREAD", "BEND"}

ChunkInv ==
    /\ blocked \in 0 .. 2
    /\ blocked > 0 => any_req_q /\ (InBurst \/ state \in Waits \cup {"IDLE", "REF"})
    /\ blocked > 0 /\ state \in Waits => Finishing \/ (b_active /\ b_yield)
    /\ blocked > 0 /\ state = "IDLE" /\ b_start /\ b_active => blocked = 1 /\ refresh_count <= 7
    /\ state = "REF" => refresh_count <= 6 - wait_n
    /\ blocked = 2 => state # "REF" /\ ~refresh_due /\ refresh_count <= 7 + Away

(* A service only goes on.                                                  *)
LEMMA AwayStep ==
  ASSUME TypeInv, RefreshInv, Next, InBurst \/ state \in Waits
  PROVE  Away' \in Int /\ Away' >= Away + 1
<1> DEFINE L == LongestService
           B == (BURST_CHUNK - 1) * Gap
<1>l. /\ Gap \in {2, 5} /\ B \in Nat /\ L \in Nat /\ L >= 9 /\ L >= 11 + B
      /\ Gap' = Gap /\ L' = L
  <2>1. 0 \in Nat /\ 0 < BURST_CHUNK
    BY SdramAssumption
  <2>2. Gap' = Gap /\ L' = L
    BY DEF Gap, LongestService, Later
  <2> QED
    BY <2>1, <2>2, ServiceClocks
<1>t. b_gap \in 0 .. 4 /\ wait_n \in 0 .. 7 /\ b_chunk \in Nat
  BY SdramAssumption DEF TypeInv, TypeOK
<1>1. CASE state = "BREAD"
  <2>1. b_chunk \in Nat /\ b_chunk < BURST_CHUNK
    BY <1>1, <1>t DEF TypeInv, BurstInv
  <2>2. /\ b_chunk * Gap \in Nat /\ (b_chunk + 1) * Gap = b_chunk * Gap + Gap
        /\ b_chunk * Gap <= B
    BY <2>1, ServiceClocks
  <2>3. Away = 3 + b_chunk * Gap - b_gap
    BY <1>1 DEF Away
  <2>4. CASE BurstWord
    <3>1. /\ b_gap = 0 /\ b_chunk' = b_chunk + 1 /\ b_gap' = Gap - 1
          /\ (state' = "BEND" /\ wait_n' = 1) \/ state' = "BREAD"
      BY <1>1, <2>4 DEF BurstWord, Gap, fsm
    <3>2. CASE state' = "BREAD"
      <4>1. Away' = 3 + (b_chunk + 1) * Gap - (Gap - 1)
        BY <1>l, <3>1, <3>2 DEF Away
      <4> QED
        BY <1>l, <2>2, <2>3, <3>1, <4>1
    <3>3. CASE state' = "BEND"
      <4>1. Away' = 5 + B - 1
        BY <1>l, <3>1, <3>3 DEF Away
      <4> HIDE DEF B
      <4> QED
        BY <1>l, <2>2, <2>3, <3>1, <4>1
    <3> QED
      BY <3>1, <3>2, <3>3
  <2>5. CASE BurstGap
    <3>1. state' = "BREAD" /\ b_chunk' = b_chunk /\ b_gap' = b_gap - 1
      BY <1>1, <2>5 DEF BurstGap, fsm
    <3>2. Away' = 3 + b_chunk * Gap - (b_gap - 1)
      BY <1>l, <3>1 DEF Away
    <3> QED
      BY <1>t, <2>2, <2>3, <3>2
  <2> QED
    BY <1>1, <2>4, <2>5 DEF Next, Startup, IdleRefresh, IdleOpenBurst, IdleGrant, IdleNothing,
       Arb, Open2Write, Open2Read, Wait, Following, RefreshWait, BurstEnd
<1>2. CASE state = "BEND"
  <2>1. BurstEnd
    BY <1>2 DEF Next, Startup, IdleRefresh, IdleOpenBurst, IdleGrant, IdleNothing,
       Arb, Open2Write, Open2Read, Wait, Following, RefreshWait, BurstWord, BurstGap
  <2>2. /\ wait_n' = (wait_n - 1) % 8 /\ wait_n <= 1
        /\ wait_n = 0 => state' \in {"WAIT5", "WAIT2"}
        /\ wait_n # 0 => state' = "BEND"
    BY <1>2, <2>1 DEF BurstEnd, ClosingWait, RefreshInv
  <2>3. Away = 5 + B - wait_n
    BY <1>2 DEF Away
  <2>4. CASE wait_n = 0
    <3>1. Away' \in {L - 5, L - 2}
      BY <1>l, <2>2, <2>4 DEF Away
    <3> HIDE DEF B, L
    <3> QED
      BY <1>l, <2>3, <2>4, <3>1
  <2>5. CASE wait_n = 1
    <3>1. state' = "BEND" /\ wait_n' = 0
      BY <2>2, <2>5
    <3>2. Away' = 5 + B - 0
      BY <1>l, <3>1 DEF Away
    <3> HIDE DEF B
    <3> QED
      BY <1>l, <2>3, <2>5, <3>2
  <2> QED
    BY <1>t, <2>2, <2>4, <2>5
<1>3. CASE state \in {"BOPEN1", "BOPEN2"} \cup Waits
  <2>1. Wait
    BY <1>3 DEF Next, Startup, IdleRefresh, IdleOpenBurst, IdleGrant, IdleNothing,
       Arb, Open2Write, Open2Read, RefreshWait, BurstWord, BurstGap, BurstEnd, Waits
  <2>2. state' = Following[state] /\ b_gap' = b_gap /\ b_chunk' = b_chunk
    BY <2>1 DEF Wait, spacing
  <2>3. CASE state = "BOPEN1"
    <3>1. Away = 1 /\ Away' = 2
      BY <2>2, <2>3 DEF Following, Away
    <3> QED
      BY <3>1
  <2>4. CASE state = "BOPEN2"
    <3>1. state' = "BREAD" /\ Away = 2 /\ b_chunk' = 0 /\ b_gap' = 0
      BY <2>2, <2>4 DEF Following, Away, RefreshInv
    <3>2. Away' = 3 + 0 * Gap - 0
      BY <1>l, <3>1 DEF Away
    <3> QED
      BY <1>l, <3>1, <3>2
  <2>5. CASE state \in Waits
    <3>1. L' = LongestService' /\ L = LongestService
      BY DEF L
    <3> HIDE DEF L
    <3>2. Away' = Away + 1 /\ Away \in Int
      BY <1>l, <2>2, <2>5, <3>1 DEF Away, Following, Waits
    <3> QED
      BY <3>2
  <2> QED
    BY <1>3, <2>3, <2>4, <2>5
<1> QED
  BY <1>1, <1>2, <1>3 DEF InBurst

LEMMA DecisionsMade ==
  Next => Decisions
BY DEF Next, Startup, IdleRefresh, IdleOpenBurst, IdleGrant, IdleNothing, Arb, Open2Write,
   Open2Read, Wait, RefreshWait, BurstWord, BurstGap, BurstEnd, Edge

LEMMA ChunkInit ==
  WInit => ChunkInv
BY DEF WInit, Init, ChunkInv

(* In a service, the wait that follows a chunk stays one that blocks the    *)
(* next, and the refresh that was far off is not due yet.                   *)
LEMMA ChunkServed ==
  ASSUME RefreshesFarApart, TypeInv, TypeInv', RefreshInv, OwnerInv, OwnerInv', ChunkInv, Next,
         InBurst \/ state \in Waits, blocked' = IF any_req THEN blocked ELSE 0
  PROVE  ChunkInv'
<1>t. /\ refresh_count \in Nat /\ refresh_count' \in Nat /\ blocked \in 0 .. 2 /\ wait_n \in 0 .. 7
      /\ CYCLES_PER_REFRESH \in Nat
  BY SdramAssumption DEF TypeInv, TypeOK, ChunkInv
<1>l. LongestService \in Nat
  <2>1. 0 \in Nat /\ 0 < BURST_CHUNK
    BY SdramAssumption
  <2> QED
    BY <2>1, ServiceClocks
<1>a. ready /\ Away \in Int /\ Away <= LongestService
  <2>1. ready
    BY DEF ready, InBurst, Waits
  <2> QED
    BY <2>1, AwayBounded
<1>d. any_req_q' = any_req /\ b_start' = (b_active /\ ~(b_yield /\ any_req_q) /\ ~refresh_due)
  BY DecisionsMade DEF Decisions
<1>s. /\ CountRefresh /\ state' \in {"BOPEN2", "BREAD", "BEND", "IDLE"} \cup Waits
      /\ state' = "IDLE" => state = "WAIT1"
      /\ state = "WAIT1" => state' = "IDLE"
      /\ state' \in Waits /\ state \notin Waits => BurstEnd /\ wait_n = 0
      /\ state \in Waits => KeepBurst
  <2>1. CASE Wait
    BY <2>1 DEF Wait, Following, Waits, InBurst
  <2>2. CASE BurstWord
    BY <2>2 DEF BurstWord, Waits, fsm
  <2>3. CASE BurstGap
    BY <2>3 DEF BurstGap, Waits, fsm
  <2>4. CASE BurstEnd
    BY <2>4 DEF BurstEnd, Waits, ClosingWait
  <2> QED
    BY <2>1, <2>2, <2>3, <2>4 DEF InBurst, Waits, Next, Startup, IdleRefresh, IdleOpenBurst,
       IdleGrant, IdleNothing, Arb, Open2Write, Open2Read, RefreshWait
<1>r. refresh_count' <= refresh_count + 1 /\ refresh_due' = (refresh_count > CYCLES_PER_REFRESH)
  BY <1>s, Counted DEF CountRefresh, TypeInv
<1>1. blocked' \in 0 .. 2 /\ (blocked' > 0 => any_req /\ blocked > 0 /\ blocked' = blocked)
  BY <1>t
<1>2. blocked' > 0 => any_req_q' /\ (InBurst' \/ state' \in Waits \cup {"IDLE", "REF"})
  BY <1>1, <1>d, <1>s DEF InBurst, Waits
<1>3. blocked' > 0 /\ state' \in Waits => Finishing' \/ (b_active' /\ b_yield')
  <2> SUFFICES ASSUME blocked' > 0, state' \in Waits
               PROVE  Finishing' \/ (b_active' /\ b_yield')
    OBVIOUS
  <2>1. CASE state \in Waits
    <3>1. Finishing \/ (b_active /\ b_yield)
      BY <1>1, <2>1 DEF ChunkInv
    <3>2. KeepBurst /\ state # "WAIT1"
      BY <1>s, <2>1 DEF Waits
    <3>3. ~AcceptBurst /\ ~BurstDone
      BY <3>1, <3>2 DEF AcceptBurst, BurstDone, Finishing, Owned
    <3>4. b_active' = b_active /\ b_yield' = b_yield /\ b_issued' = b_issued
      BY <3>2, <3>3 DEF KeepBurst, BurstRegs
    <3>5. Finishing => b_issued' # 0
      BY <3>4, SdramAssumption DEF OwnerInv, Finishing, Owned, TypeInv, TypeOK, BurstCmd
    <3> QED
      BY <3>1, <3>4, <3>5 DEF OwnerInv, Finishing
  <2>2. CASE state \notin Waits
    <3>1. BurstRegs(b_active /\ b_remain # 0, b_next, b_remain, b_issued, TRUE) /\ b_active
      BY <1>s, <2>2 DEF BurstEnd, TypeInv, BurstInv
    <3>2. /\ b_active' = (b_remain # 0) /\ b_yield' /\ b_issued' = b_issued
      BY <1>s, <2>2, <3>1 DEF BurstRegs, AcceptBurst, BurstDone
    <3>3. b_remain = 0 => b_issued' # 0
      <4>1. b_active => b_issued + b_remain = b_cmd.len
        BY DEF OwnerInv
      <4> QED
        BY <3>1, <3>2, <4>1, SdramAssumption DEF TypeInv, TypeOK, BurstCmd
    <3> QED
      BY <3>2, <3>3 DEF OwnerInv
  <2> QED
    BY <2>1, <2>2
<1>4. blocked' > 0 /\ state' = "IDLE" => ~(b_start' /\ b_active')
  <2> SUFFICES ASSUME blocked' > 0, state' = "IDLE" PROVE ~b_start'
    OBVIOUS
  <2>1. state = "WAIT1" /\ any_req_q /\ (Finishing \/ b_yield)
    BY <1>1, <1>s DEF ChunkInv, Waits
  <2> QED
    BY <1>d, <2>1 DEF Finishing
<1>5. blocked' = 2 => ~refresh_due' /\ refresh_count' <= 7 + Away'
  <2> SUFFICES ASSUME blocked' = 2 PROVE ~refresh_due' /\ refresh_count' <= 7 + Away'
    OBVIOUS
  <2>1. refresh_count <= 7 + Away
    BY <1>1 DEF ChunkInv
  <2>2. Away' >= Away + 1 /\ Away' \in Int
    BY AwayStep
  <2>3. refresh_count <= CYCLES_PER_REFRESH
    BY <1>t, <1>l, <1>a, <2>1 DEF RefreshesFarApart
  <2>4. ~(refresh_count > CYCLES_PER_REFRESH)
    BY <1>t, <2>3
  <2>5. refresh_count' <= 7 + Away'
    <3>1. refresh_count' <= refresh_count + 1
      BY <1>r
    <3>2. \A c, d, a, b \in Int : d <= c + 1 /\ c <= 7 + a /\ b >= a + 1 => d <= 7 + b
      OBVIOUS
    <3>3. refresh_count \in Int /\ refresh_count' \in Int /\ Away \in Int
      BY <1>t, <1>a
    <3> QED
      BY <2>1, <2>2, <3>1, <3>2, <3>3
  <2> QED
    BY <1>r, <2>4, <2>5
<1>6. state' # "REF"
  BY <1>s DEF Waits
<1> QED
  BY <1>1, <1>2, <1>3, <1>4, <1>5, <1>6 DEF ChunkInv

LEMMA ChunkStep ==
  ASSUME RefreshesFarApart
  PROVE  /\ TypeInv /\ TypeInv' /\ RefreshInv /\ OwnerInv /\ OwnerInv' /\ ChunkInv
         /\ [WNext]_wvars
         => ChunkInv'
<1> SUFFICES ASSUME TypeInv, TypeInv', RefreshInv, OwnerInv, OwnerInv', ChunkInv, [WNext]_wvars
             PROVE  ChunkInv'
  OBVIOUS
<1>t. /\ refresh_count \in Nat /\ refresh_count' \in Nat /\ blocked \in 0 .. 2 /\ wait_n \in 0 .. 7
      /\ CYCLES_PER_REFRESH \in Nat /\ LongestService \in Nat
  <2>1. 0 \in Nat /\ 0 < BURST_CHUNK
    BY SdramAssumption
  <2> QED
    BY <2>1, ServiceClocks, SdramAssumption DEF TypeInv, TypeOK, ChunkInv
<1>k. CountRefresh => refresh_count' <= refresh_count + 1
  BY Counted DEF TypeInv
<1>1. CASE UNCHANGED wvars
  <2>1. UNCHANGED <<state, wait_n, refresh_count, refresh_due, any_req_q, b_start, b_active,
                    b_yield, b_req, b_accepted, b_done, blocked, b_chunk, b_gap>>
    BY <1>1 DEF wvars, vars, fsm, refresh, burst, ports, spacing
  <2> QED
    BY <2>1 DEF ChunkInv, InBurst, Finishing, Owned, Away, Gap, LongestService, Later
<1>2. CASE WNext
  <2>1. /\ Next
        /\ blocked' = IF ~any_req \/ Grants THEN 0 ELSE IF OpensChunk THEN blocked + 1 ELSE blocked
        /\ any_req_q' = any_req
    BY <1>2, DecisionsMade DEF WNext, History, Decisions
  <2>2. CASE InBurst \/ state \in Waits
    <3>1. blocked' = IF any_req THEN blocked ELSE 0
      BY <2>1, <2>2 DEF InBurst, Waits, Grants, OpensChunk
    <3> QED
      BY <2>1, <2>2, <3>1, ChunkServed
  <2>3. CASE state \in {"STARTUP", "ARB", "OPEN1", "OPEN2"}
    <3>1. blocked = 0
      BY <1>t, <2>3 DEF ChunkInv, InBurst, Waits
    <3>2. blocked' = 0
      BY <2>1, <2>3, <3>1 DEF Grants, OpensChunk
    <3>3. state' # "REF"
      <4>1. CASE Wait
        BY <2>3, <4>1 DEF Wait, Following
      <4> QED
        BY <2>1, <2>3, <4>1 DEF Next, Startup, IdleRefresh, IdleOpenBurst, IdleGrant, IdleNothing,
           Arb, Open2Write, Open2Read, RefreshWait, BurstWord, BurstGap, BurstEnd
    <3> QED
      BY <3>2, <3>3 DEF ChunkInv
  <2>4. CASE IdleRefresh
    <3>1. state' = "REF" /\ wait_n' = 6 /\ refresh_count' = 0 /\ state = "IDLE" /\ refresh_due
      BY <2>4 DEF IdleRefresh
    <3>2. blocked' = (IF ~any_req THEN 0 ELSE blocked) /\ blocked \in 0 .. 1
      BY <1>t, <2>1, <3>1 DEF ChunkInv, Grants, OpensChunk
    <3> QED
      BY <2>1, <3>1, <3>2 DEF ChunkInv, Waits
  <2>5. CASE IdleOpenBurst
    <3>1. /\ state' = "BOPEN1" /\ state = "IDLE" /\ ~refresh_due /\ CountRefresh
          /\ b_start /\ b_active
      BY <2>5 DEF IdleOpenBurst, OpensBurst
    <3>2. blocked' = IF ~any_req THEN 0 ELSE blocked + 1
      BY <2>1, <3>1 DEF Grants, OpensChunk
    <3>3. blocked' \in 0 .. 2 /\ (blocked' > 0 => any_req) /\ (blocked' = 2 => refresh_count <= 7)
      BY <1>t, <3>1, <3>2 DEF ChunkInv
    <3>4. Away' = 1
      BY <3>1 DEF Away
    <3>5. blocked' = 2 => ~refresh_due' /\ refresh_count' <= 7 + Away'
      <4>1. refresh_count <= 7 => ~(refresh_count > CYCLES_PER_REFRESH)
        <5> CYCLES_PER_REFRESH >= 7
          BY <1>t DEF RefreshesFarApart
        <5> QED
          BY <1>t
      <4>2. refresh_count <= 7 => refresh_count' <= 7 + Away'
        <5> refresh_count' <= refresh_count + 1
          BY <1>k, <3>1
        <5> QED
          BY <1>t, <3>4
      <4>3. refresh_due' = (refresh_count > CYCLES_PER_REFRESH)
        BY <3>1 DEF CountRefresh
      <4> QED
        BY <3>3, <4>1, <4>2, <4>3
    <3> QED
      BY <2>1, <3>1, <3>3, <3>5 DEF ChunkInv, InBurst, Waits
  <2>6. CASE IdleGrant \/ IdleNothing
    <3>1. blocked' = 0 /\ state' # "REF"
      BY <2>1, <2>6 DEF IdleGrant, IdleNothing, Grants, fsm
    <3> QED
      BY <3>1 DEF ChunkInv
  <2>7. CASE state = "REF"
    <3>1. /\ CountRefresh /\ wait_n' = (wait_n - 1) % 8 /\ wait_n <= 6
          /\ state' = IF wait_n = 0 THEN "IDLE" ELSE "REF"
      BY <2>1, <2>7 DEF Next, Startup, IdleRefresh, IdleOpenBurst, IdleGrant, IdleNothing, Arb,
         Open2Write, Open2Read, Wait, Following, RefreshWait, BurstWord, BurstGap, BurstEnd,
         RefreshInv
    <3>2. refresh_count <= 6 - wait_n /\ blocked \in 0 .. 1
      BY <1>t, <2>7 DEF ChunkInv
    <3>3. blocked' \in 0 .. 1 /\ (blocked' > 0 => any_req)
      BY <2>1, <2>7, <3>2 DEF Grants, OpensChunk
    <3>4. state' = "IDLE" => refresh_count' <= 7
      BY <1>t, <1>k, <3>1, <3>2
    <3>5. state' = "REF" => refresh_count' <= 6 - wait_n'
      <4>1. wait_n # 0 => wait_n' = wait_n - 1
        BY <1>t, <3>1
      <4> QED
        BY <1>t, <1>k, <3>1, <3>2, <4>1
    <3> QED
      BY <2>1, <3>1, <3>3, <3>4, <3>5 DEF ChunkInv, Waits
  <2> QED
    BY <2>1, <2>2, <2>3, <2>4, <2>5, <2>6, <2>7 DEF Next, Startup, Arb, Open2Write, Open2Read,
       Wait, Following, RefreshWait, BurstWord, BurstGap, BurstEnd, InBurst, Waits
<1> QED
  BY <1>1, <1>2

(* AtMostTwoChunks: a waiting client lets two chunks go first at most, when *)
(* a chunk and a refresh fit well into a refresh interval (166 clocks of    *)
(* 750 in the core), no machine reset strikes and the clients are the       *)
(* machine's.  One would be false: the refresh between two bursts is real.  *)
THEOREM TwoChunks ==
  ASSUME RefreshesFarApart, Resets = FALSE, Bench = FALSE
  PROVE  WSpec => []AtMostTwoChunks
<1> DEFINE IInv == TypeInv /\ RefreshInv /\ OwnerInv /\ ChunkInv
<1>1. WInit => IInv
  BY TypeInit, RefreshInit, OwnerInit, ChunkInit DEF WInit
<1>2. IInv /\ [WNext]_wvars => IInv'
  <2>1. [WNext]_wvars => [Next]_vars
    BY DEF WNext, wvars
  <2> QED
    BY <2>1, TypeStep, RefreshStep, OwnerStep, ChunkStep
<1>3. IInv => AtMostTwoChunks
  BY DEF ChunkInv, AtMostTwoChunks
<1> QED
  BY <1>1, <1>2, <1>3, PTL DEF WSpec

-----------------------------------------------------------------------------
(* The words of a burst.  Each word counted as issued is already where its  *)
(* client expects it, or on its way: in a stage of the capture pipeline, or *)
(* on the outputs.  Once the burst is not active any more the waits of the  *)
(* FSM leave less and less of the pipeline occupied.                        *)

Place(k)  == (b_cmd.addr + k) % AddrSize
WordOf(k) == mem[Place(k)]
Issued    == IF b_done THEN b_cmd.len ELSE b_issued

BurstTag(k) == [kind |-> "burst", id |-> k]

(* The last stage a word may be in.                                         *)
Landing == CASE state = "BEND" -> wait_n + 3
             [] state = "WAIT5" -> 2 [] state = "WAIT4" -> 1 [] state = "WAIT3" -> 0
             [] state \in {"WAIT2", "WAIT1", "IDLE"} -> -1
             [] OTHER -> 4

Closing == state = "BEND" \/ ~b_active

WordTypes ==
    /\ DOMAIN mem = Addr /\ DOMAIN buf = 0 .. MaxLen - 1
    /\ \A i \in Client : c_req[i] => c_cmd[i] \in Requests[i]
    /\ \A s \in Stage : s > TagStage => cap[s].kind # "burst"

NextWord ==
    /\ b_active => b_next = Place(b_issued)
    /\ state = "BREAD" /\ b_gap = 0 => b_wdata = RowData[b_issued]

InFlight ==
    \A s \in Stage : cap[s].kind = "burst" =>
        /\ Owned /\ ~b_cmd.we /\ cap[s].id < Issued /\ cap[s] = BurstTag(cap[s].id)
        /\ dq[s] = WordOf(cap[s].id)
        /\ Closing => s <= Landing

OnOutput ==
    b_wr => /\ Owned /\ ~b_cmd.we /\ b_idx \in 0 .. Issued - 1 /\ b_data = WordOf(b_idx)
            /\ ~b_active => state \in {"WAIT5", "WAIT4", "WAIT3", "WAIT2"}

Taken ==
    Owned => \A k \in 0 .. Issued - 1 :
        IF b_cmd.we THEN WordOf(k) = RowData[k]
        ELSE buf[k] = WordOf(k) \/ (b_wr /\ b_idx = k) \/ \E s \in Stage : cap[s] = BurstTag(k)

WordsInv == WordTypes /\ NextWord /\ InFlight /\ OnOutput /\ Taken

(* What a clock does to the words on their way and to where they go.        *)
WordMoves(cmd, tag) ==
    /\ \A k \in Stage : cap'[k] = IF k = TagStage /\ tag # NoTag THEN tag
                                  ELSE IF k = 4 THEN NoTag ELSE cap[k + 1]
    /\ \A k \in Stage : dq'[k] = IF k = TagStage /\ Reads(cmd) THEN mem[cmd.addr]
                                 ELSE IF k = 4 THEN NoData ELSE dq[k + 1]
    /\ b_wr' = (cap[0].kind = "burst")
    /\ cap[0].kind = "burst" => b_idx' = cap[0].id /\ b_data' = dq[0]
    /\ mem' = IF Drives(cmd) THEN [mem EXCEPT ![cmd.addr] = cmd.data] ELSE mem
    /\ b_wdata' = RowData[b_issued]
    /\ \A i \in Client : /\ c_req[i] => c_cmd'[i] = c_cmd[i]
                         /\ ~c_req[i] /\ c_req'[i] => c_cmd'[i] \in Requests[i]
    /\ OwnerMoves

LEMMA WordEdge ==
  ASSUME Resets = FALSE, Bench = FALSE, ~booting,
         NEW cmd, NEW tag, NEW wack, Edge(cmd, tag, wack)
  PROVE  WordMoves(cmd, tag)
<1>1. PortMoves(cmd, tag, wack) /\ OwnerMoves
  BY EdgePorts, OwnerEdge
<1>2. /\ b_wr' = (cap[0].kind = "burst")
      /\ cap[0].kind = "burst" => b_idx' = cap[0].id /\ b_data' = dq[0]
  BY DEF Edge, Capture
<1>3. mem' = IF Drives(cmd) THEN [mem EXCEPT ![cmd.addr] = cmd.data] ELSE mem
  <2>1. Pins(cmd)
    BY DEF Edge
  <2> QED
    BY <2>1 DEF Pins, Drives
<1>4. b_wdata' = RowData[b_issued]
  BY DEF Edge, Ports, MachinePorts, BurstPort
<1>5. \A i \in Client : /\ c_req[i] => c_cmd'[i] = c_cmd[i]
                        /\ ~c_req[i] /\ c_req'[i] => c_cmd'[i] \in Requests[i]
  BY <1>1 DEF PortMoves, AccessMoves
<1>6. /\ \A k \in Stage : cap'[k] = IF k = TagStage /\ tag # NoTag THEN tag
                                    ELSE IF k = 4 THEN NoTag ELSE cap[k + 1]
      /\ \A k \in Stage : dq'[k] = IF k = TagStage /\ Reads(cmd) THEN mem[cmd.addr]
                                   ELSE IF k = 4 THEN NoData ELSE dq[k + 1]
  BY <1>1 DEF PortMoves
<1> QED
  BY <1>1, <1>2, <1>3, <1>4, <1>5, <1>6 DEF WordMoves

LEMMA WordTypesStep ==
  ASSUME WordTypes, NEW cmd, NEW tag, WordMoves(cmd, tag)
  PROVE  WordTypes'
<1>1. DOMAIN mem' = Addr /\ DOMAIN buf' = 0 .. MaxLen - 1
  BY DEF WordTypes, WordMoves, OwnerMoves, EmptyBuf
<1>2. \A i \in Client : c_req'[i] => c_cmd'[i] \in Requests[i]
  BY DEF WordTypes, WordMoves
<1>3. \A s \in Stage : s > TagStage => cap'[s].kind # "burst"
  BY DEF WordTypes, WordMoves, Stage, TagStage, NoTag
<1> QED
  BY <1>1, <1>2, <1>3 DEF WordTypes, TagStage

(* Addresses of a burst that does not run over its own start.               *)
LEMMA Wrapped ==
  ASSUME NEW a \in Addr, NEW k \in 0 .. AddrSize
  PROVE  (a + k) % AddrSize = IF a + k < AddrSize THEN a + k ELSE a + k - AddrSize
<1>1. AddrSize \in Nat \ {0} /\ a \in 0 .. AddrSize - 1
  BY SdramAssumption DEF Addr
<1>2. CASE a + k < AddrSize
  BY <1>1, <1>2
<1>3. CASE ~(a + k < AddrSize)
  BY <1>1, <1>3
<1> QED
  BY <1>2, <1>3

LEMMA PlacesApart ==
  ASSUME MaxLen <= AddrSize, TypeOK, NEW j \in 0 .. b_cmd.len - 1, NEW k \in 0 .. j - 1
  PROVE  Place(j) # Place(k)
<1>1. /\ b_cmd.addr \in Addr /\ AddrSize \in Nat \ {0} /\ j \in 0 .. AddrSize /\ k \in 0 .. AddrSize
      /\ j < AddrSize /\ k < j
  BY SdramAssumption DEF TypeOK, BurstCmd
<1>2. /\ Place(j) = IF b_cmd.addr + j < AddrSize THEN b_cmd.addr + j ELSE b_cmd.addr + j - AddrSize
      /\ Place(k) = IF b_cmd.addr + k < AddrSize THEN b_cmd.addr + k ELSE b_cmd.addr + k - AddrSize
  BY <1>1, Wrapped DEF Place
<1> QED
  BY <1>1, <1>2 DEF Addr

LEMMA PlaceAfter ==
  ASSUME MaxLen <= AddrSize, TypeOK, NEW k \in 0 .. b_cmd.len - 1
  PROVE  Place(k) \in Addr /\ (Place(k) + 1) % AddrSize = Place(k + 1)
<1>1. /\ b_cmd.addr \in Addr /\ AddrSize \in Nat \ {0} /\ k \in 0 .. AddrSize /\ k + 1 \in 0 .. AddrSize
  BY SdramAssumption DEF TypeOK, BurstCmd
<1>2. /\ Place(k) = IF b_cmd.addr + k < AddrSize THEN b_cmd.addr + k ELSE b_cmd.addr + k - AddrSize
      /\ Place(k + 1) = IF b_cmd.addr + (k + 1) < AddrSize THEN b_cmd.addr + (k + 1)
                        ELSE b_cmd.addr + (k + 1) - AddrSize
  BY <1>1, Wrapped DEF Place
<1>3. Place(k) \in Addr
  BY <1>1, <1>2 DEF Addr
<1>4. 1 \in 0 .. AddrSize
  BY <1>1
<1>5. (Place(k) + 1) % AddrSize = IF Place(k) + 1 < AddrSize THEN Place(k) + 1
                                  ELSE Place(k) + 1 - AddrSize
  BY <1>3, <1>4, Wrapped
<1> QED
  BY <1>1, <1>2, <1>3, <1>5 DEF Addr

(* A clock of a burst that goes on: the words issued so far keep their      *)
(* places, a word issued now gets its tag or is written, and the pipeline   *)
(* empties as Landing says.                                                 *)
BurstGoesOn(cmd, tag) ==
    /\ Owned /\ ~b_done /\ Owned' /\ b_cmd' = b_cmd
    /\ Issued' \in {Issued, Issued + 1}
    /\ \A k \in 0 .. Issued - 1 : mem'[Place(k)] = mem[Place(k)]
    /\ Reads(cmd) => tag # NoTag
    /\ Issued' = Issued => tag.kind # "burst"
    /\ Issued' # Issued /\ b_cmd.we => tag.kind # "burst" /\ mem'[Place(Issued)] = RowData[Issued]
    /\ Issued' # Issued /\ ~b_cmd.we =>
          tag = BurstTag(Issued) /\ Reads(cmd) /\ mem[cmd.addr] = mem'[Place(Issued)]
    /\ Closing' => Landing' = 4 \/ (tag.kind # "burst" /\ Closing /\ Landing' >= Landing - 1)
    /\ ~b_active' => \/ state' \in {"WAIT5", "WAIT4", "WAIT3", "WAIT2"}
                     \/ Closing /\ Landing < 0

LEMMA BurstMoves ==
  ASSUME TypeOK, WordTypes, InFlight, OnOutput, Taken, Issued \in 0 .. MaxLen,
         Landing \in Int, Landing' \in Int,
         NEW cmd, NEW tag, WordMoves(cmd, tag), BurstGoesOn(cmd, tag)
  PROVE  InFlight' /\ OnOutput' /\ Taken'
<1> DEFINE After(k) == mem'[(b_cmd'.addr + k) % AddrSize]
<1>g. /\ Owned /\ ~b_done /\ Owned' /\ b_cmd' = b_cmd
      /\ Issued' \in {Issued, Issued + 1} /\ Issued \in Nat /\ Issued' \in Nat
  BY SdramAssumption DEF BurstGoesOn
<1>p. \A k : After(k) = mem'[Place(k)]
  BY <1>g DEF Place
<1>w. \A k \in 0 .. Issued - 1 : After(k) = WordOf(k)
  BY <1>p DEF BurstGoesOn, WordOf
<1>c. \A k \in Stage : cap'[k] = IF k = TagStage /\ tag # NoTag THEN tag
                                 ELSE IF k = 4 THEN NoTag ELSE cap[k + 1]
  BY DEF WordMoves
<1>s. /\ \A k \in Stage : k # 4 => k + 1 \in Stage
      /\ 0 \in Stage /\ TagStage \in Stage /\ Stage \subseteq Int
      /\ \A k \in Stage : k <= 4
      /\ NoTag.kind # "burst"
  BY DEF Stage, TagStage, NoTag
<1>1. ASSUME NEW s \in Stage, cap'[s].kind = "burst"
      PROVE  /\ Owned' /\ ~b_cmd'.we /\ cap'[s].id < Issued' /\ cap'[s] = BurstTag(cap'[s].id)
             /\ dq'[s] = After(cap'[s].id)
             /\ Closing' => s <= Landing'
  <2>1. CASE s = TagStage /\ tag # NoTag
    <3>1. cap'[s] = tag /\ tag.kind = "burst"
      BY <1>1, <1>c, <2>1
    <3>2. /\ Issued' = Issued + 1 /\ ~b_cmd.we /\ tag = BurstTag(Issued)
          /\ Reads(cmd) /\ mem[cmd.addr] = mem'[Place(Issued)]
      BY <1>g, <3>1 DEF BurstGoesOn
    <3>3. dq'[s] = mem[cmd.addr]
      BY <2>1, <3>2 DEF WordMoves
    <3>4. cap'[s].id = Issued
      BY <3>1, <3>2 DEF BurstTag
    <3>5. dq'[s] = After(cap'[s].id)
      BY <1>p, <3>2, <3>3, <3>4
    <3>6. Closing' => s <= Landing'
      BY <1>s, <3>1 DEF BurstGoesOn
    <3> QED
      BY <1>g, <3>1, <3>2, <3>4, <3>5, <3>6
  <2>2. CASE ~(s = TagStage /\ tag # NoTag)
    <3>1. s # 4 /\ s + 1 \in Stage /\ cap'[s] = cap[s + 1]
      BY <1>1, <1>c, <1>s, <2>2
    <3>2. /\ ~b_cmd.we /\ cap'[s].id < Issued /\ cap'[s] = BurstTag(cap'[s].id)
          /\ dq[s + 1] = WordOf(cap'[s].id) /\ (Closing => s + 1 <= Landing)
      BY <1>1, <3>1 DEF InFlight
    <3>3. dq'[s] = dq[s + 1]
      BY <2>2, <3>1 DEF WordMoves, BurstGoesOn
    <3>4. cap'[s].id \in 0 .. Issued - 1
      <4>1. cap[s + 1].id \in Nat
        BY <3>1 DEF TypeOK, Tag
      <4> QED
        BY <1>g, <3>1, <3>2, <4>1
    <3>5. Closing' => s <= Landing'
      <4>1. s \in Int /\ s <= 4
        BY <1>s
      <4> QED
        BY <3>2, <4>1 DEF BurstGoesOn
    <3>6. dq'[s] = After(cap'[s].id)
      BY <1>w, <3>2, <3>3, <3>4
    <3> QED
      BY <1>g, <3>2, <3>4, <3>5, <3>6
  <2> QED
    BY <2>1, <2>2
<1>2. OnOutput'
  <2> SUFFICES ASSUME b_wr'
               PROVE  /\ Owned' /\ ~b_cmd'.we /\ b_idx' \in 0 .. Issued' - 1
                      /\ b_data' = After(b_idx')
                      /\ ~b_active' => state' \in {"WAIT5", "WAIT4", "WAIT3", "WAIT2"}
    BY DEF OnOutput, WordOf, Place
  <2>1. cap[0].kind = "burst" /\ b_idx' = cap[0].id /\ b_data' = dq[0]
    BY DEF WordMoves
  <2>2. /\ ~b_cmd.we /\ cap[0].id < Issued /\ dq[0] = WordOf(cap[0].id)
        /\ Closing => 0 <= Landing
    BY <1>s, <2>1 DEF InFlight
  <2>3. cap[0].id \in 0 .. Issued - 1
    <3>1. cap[0].id \in Nat
      BY <1>s DEF TypeOK, Tag
    <3> QED
      BY <1>g, <2>2, <3>1
  <2>4. ~b_active' => state' \in {"WAIT5", "WAIT4", "WAIT3", "WAIT2"}
    BY <2>2 DEF BurstGoesOn
  <2>5. b_data' = After(b_idx')
    BY <1>w, <2>1, <2>2, <2>3
  <2> QED
    BY <1>g, <2>1, <2>2, <2>3, <2>4, <2>5
<1>3. ASSUME NEW k \in 0 .. Issued' - 1
      PROVE  IF b_cmd'.we THEN After(k) = RowData[k]
             ELSE \/ buf'[k] = After(k) \/ (b_wr' /\ b_idx' = k)
                  \/ \E s \in Stage : cap'[s] = BurstTag(k)
  <2>1. CASE k \in 0 .. Issued - 1
    <3>1. After(k) = WordOf(k)
      BY <1>w, <2>1
    <3>2. CASE b_cmd.we
      BY <1>g, <2>1, <3>1, <3>2 DEF Taken
    <3>3. CASE ~b_cmd.we /\ ((b_wr /\ b_idx = k) \/ buf[k] = WordOf(k))
      <4>1. buf' = IF b_wr THEN [buf EXCEPT ![b_idx] = b_data] ELSE buf
        BY <1>g DEF WordMoves, OwnerMoves, Owned
      <4>2. k \in DOMAIN buf
        BY <1>g, <2>1, SdramAssumption DEF WordTypes
      <4>3. b_wr => b_data = WordOf(b_idx)
        BY DEF OnOutput
      <4>4. buf'[k] = WordOf(k)
        BY <3>3, <4>1, <4>2, <4>3
      <4> QED
        BY <1>g, <3>1, <3>3, <4>4
    <3>4. CASE ~b_cmd.we /\ \E s \in Stage : cap[s] = BurstTag(k)
      <4>1. PICK s \in Stage : cap[s] = BurstTag(k)
        BY <3>4
      <4>2. CASE s = 0
        <5>1. cap[0].kind = "burst" /\ cap[0].id = k
          BY <4>1, <4>2 DEF BurstTag
        <5>2. b_wr' /\ b_idx' = k
          BY <5>1 DEF WordMoves
        <5> QED
          BY <1>g, <3>4, <5>2
      <4>3. CASE s # 0
        <5>1. s - 1 \in Stage /\ s - 1 # 4 /\ (s - 1) + 1 = s
          BY <4>3 DEF Stage
        <5>2. s <= TagStage
          BY <4>1 DEF WordTypes, BurstTag, Stage, TagStage
        <5>3. cap'[s - 1] = BurstTag(k)
          BY <1>c, <1>s, <4>1, <5>1, <5>2 DEF TagStage
        <5> QED
          BY <1>g, <3>4, <5>1, <5>3
      <4> QED
        BY <4>2, <4>3
    <3> QED
      BY <1>g, <2>1, <3>2, <3>3, <3>4 DEF Taken
  <2>2. CASE k = Issued /\ Issued' # Issued
    <3>1. CASE b_cmd.we
      BY <1>g, <1>p, <2>2, <3>1 DEF BurstGoesOn
    <3>2. CASE ~b_cmd.we
      <4>1. tag = BurstTag(k) /\ tag # NoTag
        BY <2>2, <3>2 DEF BurstGoesOn
      <4>2. cap'[TagStage] = BurstTag(k)
        BY <1>c, <1>s, <4>1
      <4> QED
        BY <1>g, <1>s, <3>2, <4>2
    <3> QED
      BY <3>1, <3>2
  <2>3. k \in 0 .. Issued - 1 \/ (k = Issued /\ Issued' # Issued)
    <3>1. \A a \in Nat, b \in Nat : b \in {a, a + 1} /\ k \in 0 .. b - 1
             => k \in 0 .. a - 1 \/ (k = a /\ b # a)
      OBVIOUS
    <3> QED
      BY <1>g, <1>3, <3>1
  <2> QED
    BY <2>1, <2>2, <2>3
<1> QED
  BY <1>1, <1>2, <1>3 DEF InFlight, Taken, WordOf, Place

(* A clock on which nobody owns a burst, or b_done is up: nothing is on its *)
(* way, and no word of the next burst has been issued yet.                  *)
LEMMA WordsUnowned ==
  ASSUME TypeInv, OwnerInv, InFlight, OnOutput, ~Owned \/ b_done,
         NEW cmd, NEW tag, WordMoves(cmd, tag), tag.kind # "burst",
         NEW y, BurstRegs(b_active, b_next, b_remain, b_issued, y)
  PROVE  InFlight' /\ OnOutput' /\ Taken'
<1>1. ~b_active /\ ~Finishing /\ b_issued = 0 /\ (b_done => state = "IDLE")
  BY DEF OwnerInv, Finishing
<1>2. \A s \in Stage : cap[s].kind # "burst"
  BY <1>1 DEF InFlight, Closing, Landing, Stage
<1>3. ~b_wr
  BY <1>1 DEF OnOutput
<1>4. \A s \in Stage : cap'[s].kind # "burst"
  BY <1>2 DEF WordMoves, NoTag, Stage
<1>5. ~b_wr'
  <2>1. cap[0].kind # "burst"
    BY <1>2 DEF Stage
  <2> QED
    BY <2>1 DEF WordMoves
<1>6. ~b_done' /\ b_issued' = 0
  BY <1>1 DEF BurstRegs, BurstDone
<1>7. Issued' = 0
  BY <1>6 DEF Issued
<1> QED
  BY <1>4, <1>5, <1>7 DEF InFlight, OnOutput, Taken

(* A clock that issues no word of a burst.                                  *)
Passing(cmd, tag) ==
    /\ tag.kind # "burst"
    /\ Reads(cmd) => tag # NoTag
    /\ Drives(cmd) /\ Owned => \A k \in 0 .. b_cmd.len - 1 : cmd.addr # Place(k)
    /\ state \in Waits => state' = Following[state]
    /\ state' = "BEND" => state = "BEND" /\ wait_n = 1 /\ wait_n' = 0
    /\ state' = "BREAD" => b_active

LEMMA WordsPass ==
  ASSUME MaxLen <= AddrSize, TypeInv, TypeInv', OwnerInv, WordsInv,
         NEW cmd, NEW tag, WordMoves(cmd, tag), Passing(cmd, tag),
         NEW y, BurstRegs(b_active, b_next, b_remain, b_issued, y)
  PROVE  WordsInv'
<1>t. /\ TypeOK /\ b_issued \in 0 .. MaxLen /\ b_remain \in Nat /\ b_cmd \in BurstCmd
      /\ b_cmd.len \in 0 .. MaxLen /\ b_cmd.addr \in Addr /\ MaxLen \in Nat
      /\ wait_n \in Int /\ wait_n' \in Int
  BY SdramAssumption DEF TypeInv, TypeOK, BurstCmd
<1>1. WordTypes'
  BY WordTypesStep DEF WordsInv
<1>2. NextWord'
  <2>1. CASE AcceptBurst
    <3>1. b_req /\ ~b_active /\ ~b_done
      BY <2>1 DEF AcceptBurst
    <3>2. b_next' = b_cmd.addr /\ b_issued' = 0 /\ b_cmd' = b_cmd
      BY <2>1, <3>1 DEF BurstRegs, WordMoves, OwnerMoves
    <3>3. (b_cmd.addr + 0) % AddrSize = b_cmd.addr
      <4>1. /\ 0 \in 0 .. AddrSize /\ b_cmd.addr \in Addr
            /\ b_cmd.addr + 0 = b_cmd.addr /\ b_cmd.addr < AddrSize
        BY <1>t, SdramAssumption DEF Addr
      <4>2. (b_cmd.addr + 0) % AddrSize = IF b_cmd.addr + 0 < AddrSize THEN b_cmd.addr + 0
                                          ELSE b_cmd.addr + 0 - AddrSize
        BY <4>1, Wrapped
      <4> QED
        BY <4>1, <4>2
    <3>4. state' # "BREAD"
      BY <3>1 DEF Passing
    <3> QED
      BY <3>2, <3>3, <3>4 DEF NextWord, Place
  <2>2. CASE ~AcceptBurst
    <3>1. b_active' = b_active /\ b_next' = b_next
      BY <2>2 DEF BurstRegs
    <3>2. b_active => b_issued' = b_issued /\ b_cmd' = b_cmd
      BY <2>2 DEF BurstRegs, BurstDone, WordMoves, OwnerMoves, OwnerInv, Owned
    <3>3. b_wdata' = RowData[b_issued] /\ (state' = "BREAD" => b_active)
      BY DEF WordMoves, Passing
    <3> QED
      BY <3>1, <3>2, <3>3 DEF NextWord, Place, WordsInv
  <2> QED
    BY <2>1, <2>2
<1>3. CASE ~Owned \/ b_done
  <2>1. InFlight' /\ OnOutput' /\ Taken'
    BY <1>3, WordsUnowned DEF WordsInv, Passing
  <2> QED
    BY <1>1, <1>2, <2>1 DEF WordsInv
<1>4. CASE Owned /\ ~b_done
  <2>1. b_req' /\ b_cmd' = b_cmd /\ b_accepted' /\ ~AcceptBurst
    BY <1>4 DEF Owned, WordMoves, OwnerMoves, BurstRegs, AcceptBurst
  <2>2. b_active' = b_active /\ b_done' = BurstDone /\ b_issued' = IF BurstDone THEN 0 ELSE b_issued
    BY <2>1 DEF BurstRegs
  <2>3. Issued' = Issued /\ Issued = b_issued
    <3>1. BurstDone => b_issued = b_cmd.len
      BY <1>4 DEF BurstDone, OwnerInv, Finishing
    <3>2. Issued = b_issued
      BY <1>4 DEF Issued
    <3>3. CASE BurstDone
      <4>1. Issued' = b_cmd.len
        BY <2>1, <2>2, <3>3 DEF Issued
      <4> QED
        BY <3>1, <3>2, <3>3, <4>1
    <3>4. CASE ~BurstDone
      BY <2>2, <3>2, <3>4 DEF Issued
    <3> QED
      BY <3>2, <3>3, <3>4
  <2>4. b_issued <= b_cmd.len
    BY <1>t, <1>4 DEF OwnerInv, Finishing
  <2>5. \A k \in 0 .. Issued - 1 : mem'[Place(k)] = mem[Place(k)]
    <3>1. \A k \in 0 .. Issued - 1 : k \in 0 .. b_cmd.len - 1
      BY <1>t, <2>3, <2>4
    <3>2. Drives(cmd) => \A k \in 0 .. Issued - 1 : cmd.addr # Place(k)
      BY <1>4, <3>1 DEF Passing
    <3> QED
      BY <3>2 DEF WordMoves
  <2>6. ~b_active => state \in Waits /\ state' = Following[state]
    BY <1>4 DEF OwnerInv, Finishing, Passing
  <2>7. Closing' => Closing /\ Landing' >= Landing - 1
    <3>1. CASE state' = "BEND"
      BY <3>1 DEF Closing, Landing, Passing
    <3>2. CASE ~b_active /\ state' # "BEND"
      BY <2>6, <3>2 DEF Closing, Landing, Waits, Following
    <3> QED
      BY <2>2, <3>1, <3>2 DEF Closing
  <2>8. ~b_active' => \/ state' \in {"WAIT5", "WAIT4", "WAIT3", "WAIT2"}
                      \/ Closing /\ Landing < 0
    BY <2>2, <2>6 DEF Closing, Landing, Waits, Following
  <2>9. BurstGoesOn(cmd, tag)
    BY <1>4, <2>1, <2>3, <2>5, <2>7, <2>8 DEF BurstGoesOn, Owned, Passing
  <2>10. Landing \in Int /\ Landing' \in Int
    BY <1>t DEF Landing
  <2>11. InFlight' /\ OnOutput' /\ Taken'
    BY <1>t, <2>3, <2>9, <2>10, BurstMoves DEF WordsInv
  <2> QED
    BY <1>1, <1>2, <2>11 DEF WordsInv
<1> QED
  BY <1>3, <1>4

(* A clock that issues a word: it is the next one of its burst.             *)
LEMMA WordsIssue ==
  ASSUME MaxLen <= AddrSize, TypeInv, TypeInv', OwnerInv, WordsInv,
         BurstWord, NEW cmd, NEW tag, WordMoves(cmd, tag), cmd.addr = b_next,
         b_is_we => Drives(cmd) /\ ~Reads(cmd) /\ cmd.data = b_wdata /\ tag = NoTag,
         ~b_is_we => ~Drives(cmd) /\ Reads(cmd) /\ tag = BurstTag(b_issued)
  PROVE  WordsInv'
<1>t. /\ TypeOK /\ b_issued \in 0 .. MaxLen /\ b_remain \in Nat /\ b_cmd \in BurstCmd
      /\ b_cmd.len \in 0 .. MaxLen /\ MaxLen \in Nat /\ wait_n \in Int /\ wait_n' \in Int
      /\ b_is_we \in BOOLEAN
  BY SdramAssumption DEF TypeInv, TypeOK, BurstCmd
<1>b. /\ b_active /\ state = "BREAD" /\ b_gap = 0 /\ b_gap' # 0
      /\ (state' = "BEND" /\ wait_n' = 1) \/ state' = "BREAD"
  BY DEF BurstWord, TypeInv, BurstInv, fsm
<1>r. BurstRegs(b_active, (b_next + 1) % AddrSize, b_remain - 1, b_issued + 1, b_yield)
  BY DEF BurstWord
<1>o. /\ Owned /\ ~b_done /\ b_is_we = b_cmd.we /\ b_issued + b_remain = b_cmd.len
      /\ b_remain >= 1
  BY <1>b DEF OwnerInv, TypeInv, BurstInv
<1>i. b_issued \in 0 .. b_cmd.len - 1
  BY <1>t, <1>o
<1>n. b_next = Place(b_issued) /\ b_wdata = RowData[b_issued]
  BY <1>b DEF WordsInv, NextWord
<1>1. WordTypes'
  BY WordTypesStep DEF WordsInv
<1>2. /\ b_active' /\ ~b_done' /\ b_issued' = b_issued + 1 /\ b_next' = (b_next + 1) % AddrSize
      /\ b_accepted' /\ b_req' /\ b_cmd' = b_cmd
  BY <1>b, <1>o, <1>r DEF BurstRegs, AcceptBurst, BurstDone, Owned, WordMoves, OwnerMoves
<1>3. NextWord'
  <2>1. b_next' = Place(b_issued + 1)
    BY <1>t, <1>i, <1>n, <1>2, PlaceAfter
  <2> QED
    BY <1>b, <1>2, <2>1 DEF NextWord, Place
<1>4. Issued = b_issued /\ Issued' = b_issued + 1
  BY <1>o, <1>2 DEF Issued
<1>5. \A k \in 0 .. b_issued - 1 : Place(k) # b_next
  BY <1>t, <1>i, <1>n, PlacesApart
<1>6. \A k \in 0 .. Issued - 1 : mem'[Place(k)] = mem[Place(k)]
  BY <1>4, <1>5 DEF WordMoves
<1>7. b_cmd.we => mem'[Place(Issued)] = RowData[Issued]
  <2>1. Place(b_issued) \in Addr /\ DOMAIN mem = Addr
    BY <1>t, <1>i, PlaceAfter DEF WordsInv, WordTypes
  <2> QED
    BY <1>n, <1>o, <1>4, <2>1 DEF WordMoves
<1>8. ~b_cmd.we => tag = BurstTag(Issued) /\ Reads(cmd) /\ mem[cmd.addr] = mem'[Place(Issued)]
  BY <1>n, <1>o, <1>4 DEF WordMoves
<1>9. Closing' => Landing' = 4
  BY <1>b, <1>2 DEF Closing, Landing
<1>10. Issued' = Issued + 1 /\ Issued' # Issued /\ Issued \in 0 .. MaxLen
  BY <1>t, <1>4
<1>11. NoTag.kind # "burst" /\ \A k : BurstTag(k) # NoTag
  BY DEF NoTag, BurstTag
<1>12. BurstGoesOn(cmd, tag)
  BY <1>o, <1>2, <1>6, <1>7, <1>8, <1>9, <1>10, <1>11 DEF BurstGoesOn, Owned
<1>13. Landing \in Int /\ Landing' \in Int
  BY <1>t DEF Landing
<1>14. InFlight' /\ OnOutput' /\ Taken'
  BY <1>t, <1>10, <1>12, <1>13, BurstMoves DEF WordsInv
<1> QED
  BY <1>1, <1>3, <1>14 DEF WordsInv

(* The clock that closes a chunk, and perhaps the burst.                    *)
LEMMA WordsClose ==
  ASSUME TypeInv, TypeInv', OwnerInv, WordsInv, BurstEnd, wait_n = 0,
         NEW cmd, WordMoves(cmd, NoTag), ~Drives(cmd), ~Reads(cmd)
  PROVE  WordsInv'
<1>t. /\ TypeOK /\ b_issued \in 0 .. MaxLen /\ b_remain \in Nat /\ wait_n \in Int /\ wait_n' \in Int
  BY SdramAssumption DEF TypeInv, TypeOK
<1>b. /\ b_active /\ state = "BEND" /\ state' = ClosingWait
      /\ BurstRegs(b_active /\ b_remain # 0, b_next, b_remain, b_issued, TRUE)
  BY DEF BurstEnd, TypeInv, BurstInv
<1>o. Owned /\ ~b_done
  BY <1>b DEF OwnerInv
<1>1. WordTypes'
  BY WordTypesStep DEF WordsInv
<1>2. /\ b_active' = (b_remain # 0) /\ ~b_done' /\ b_issued' = b_issued /\ b_next' = b_next
      /\ b_accepted' /\ b_req' /\ b_cmd' = b_cmd
  BY <1>b, <1>o DEF BurstRegs, AcceptBurst, BurstDone, Owned, WordMoves, OwnerMoves
<1>3. NextWord'
  BY <1>b, <1>2 DEF NextWord, Place, WordsInv, ClosingWait
<1>4. Issued' = Issued /\ Issued = b_issued
  BY <1>o, <1>2 DEF Issued
<1>5. \A k \in 0 .. Issued - 1 : mem'[Place(k)] = mem[Place(k)]
  BY DEF WordMoves
<1>6. /\ Closing' => Closing /\ Landing' >= Landing - 1
      /\ ~b_active' => state' = "WAIT5"
  <2>1. CASE b_remain = 0
    <3>1. state' = "WAIT5"
      BY <1>b, <2>1 DEF ClosingWait
    <3>2. Landing = 3 /\ Landing' = 2 /\ Closing
      BY <1>b, <3>1 DEF Landing, Closing
    <3> QED
      BY <3>1, <3>2
  <2>2. CASE b_remain # 0
    BY <1>b, <1>2, <2>2 DEF Closing, ClosingWait
  <2> QED
    BY <2>1, <2>2
<1>7. NoTag.kind # "burst"
  BY DEF NoTag
<1>8. BurstGoesOn(cmd, NoTag)
  BY <1>o, <1>2, <1>4, <1>5, <1>6, <1>7 DEF BurstGoesOn, Owned
<1>9. Landing \in Int /\ Landing' \in Int
  BY <1>t DEF Landing
<1>10. InFlight' /\ OnOutput' /\ Taken'
  BY <1>t, <1>4, <1>8, <1>9, BurstMoves DEF WordsInv
<1> QED
  BY <1>1, <1>3, <1>10 DEF WordsInv

LEMMA WordsInit ==
  Init => WordsInv
<1> SUFFICES ASSUME Init PROVE WordsInv
  OBVIOUS
<1>1. \A s \in Stage : cap[s].kind # "burst"
  BY DEF Init, NoTag
<1>2. DOMAIN mem = Addr /\ DOMAIN buf = 0 .. MaxLen - 1
  BY SdramAssumption DEF Init, EmptyBuf
<1>3. ~b_active /\ ~b_req /\ ~b_wr /\ state = "STARTUP" /\ \A i \in Client : ~c_req[i]
  BY DEF Init
<1> QED
  BY <1>1, <1>2, <1>3
  DEF WordsInv, WordTypes, NextWord, InFlight, OnOutput, Taken, Owned

LEMMA WordsStep ==
  ASSUME Resets = FALSE, Bench = FALSE, WordsApart
  PROVE  TypeInv /\ TypeInv' /\ RefreshInv /\ AccessInv /\ OwnerInv /\ WordsInv /\ [Next]_vars => WordsInv'
<1> SUFFICES ASSUME TypeInv, TypeInv', RefreshInv, AccessInv, OwnerInv, WordsInv, [Next]_vars
             PROVE  WordsInv'
  OBVIOUS
<1>b. ~booting /\ MaxLen <= AddrSize
  BY DEF OwnerInv, WordsApart
<1>n. NoTag.kind # "burst"
  BY DEF NoTag
<1>q. ASSUME NEW cmd, Edge(cmd, NoTag, {}), cmd.op \notin {"READ", "READ_AP", "WRITE", "WRITE_AP"},
             NEW y, BurstRegs(b_active, b_next, b_remain, b_issued, y),
             state \in Waits => state' = Following[state],
             state' = "BEND" => state = "BEND" /\ wait_n = 1 /\ wait_n' = 0,
             state' = "BREAD" => b_active
      PROVE  WordsInv'
  <2>1. WordMoves(cmd, NoTag)
    BY <1>b, <1>q, WordEdge
  <2>2. Passing(cmd, NoTag)
    BY <1>n, <1>q DEF Passing, Drives, Reads
  <2> QED
    BY <1>b, <1>q, <2>1, <2>2, WordsPass
<1>1. CASE Startup
  <2>1. /\ COMMAND(StartupCommand).op = StartupCommand
        /\ StartupCommand \in {"PRECHARGE", "AUTO_REFRESH", "LOAD_MODE", "NOP"}
    BY CommandFacts DEF StartupCommand
  <2> QED
    BY <1>1, <1>q, <2>1 DEF Startup, KeepBurst, Waits
<1>2. CASE IdleRefresh
  BY <1>2, <1>q, CommandFacts DEF IdleRefresh, KeepBurst, Waits
<1>3. CASE IdleOpenBurst
  BY <1>3, <1>q, CommandFacts DEF IdleOpenBurst, KeepBurst, Waits
<1>4. CASE IdleGrant
  BY <1>4, <1>q, CommandFacts DEF IdleGrant, Waits
<1>5. CASE IdleNothing
  BY <1>5, <1>q, CommandFacts DEF IdleNothing, KeepBurst, Waits, fsm
<1>6. CASE Arb
  BY <1>6, <1>q, CommandFacts DEF Arb, KeepBurst, Waits
<1>7. CASE Wait
  <2>1. /\ state \in DOMAIN Following /\ state' = Following[state] /\ KeepBurst
        /\ Edge(NoCmd, NoTag, {}) /\ state' # "BEND" /\ (state' = "BREAD" => state = "BOPEN2")
    BY <1>7 DEF Wait, Following
  <2> QED
    BY <1>q, <2>1, CommandFacts DEF KeepBurst, TypeInv, BurstInv
<1>8. CASE RefreshWait
  BY <1>8, <1>q, CommandFacts DEF RefreshWait, KeepBurst, Waits
<1>9. CASE BurstGap
  BY <1>9, <1>q, CommandFacts DEF BurstGap, KeepBurst, Waits, fsm, TypeInv, BurstInv
<1>10. CASE BurstEnd /\ wait_n # 0
  <2>1. wait_n = 1 /\ wait_n' = 0
    BY <1>10 DEF BurstEnd, RefreshInv, TypeInv, TypeOK
  <2> QED
    BY <1>10, <1>q, <2>1, CommandFacts DEF BurstEnd, KeepBurst, Waits
<1>11. CASE BurstEnd /\ wait_n = 0
  <2>1. Edge(COMMAND("PRECHARGE"), NoTag, {})
    BY <1>11 DEF BurstEnd
  <2>2. WordMoves(COMMAND("PRECHARGE"), NoTag)
    BY <1>b, <2>1, WordEdge
  <2>3. ~Drives(COMMAND("PRECHARGE")) /\ ~Reads(COMMAND("PRECHARGE"))
    BY CommandFacts DEF Drives, Reads
  <2> QED
    BY <1>11, <2>2, <2>3, WordsClose
<1>12. CASE BurstWord
  <2>1. CASE b_is_we
    <3>1. PICK cmd : cmd = [op |-> "WRITE", addr |-> b_next, data |-> b_wdata]
      OBVIOUS
    <3>2. Edge(cmd, NoTag, {})
      BY <1>12, <2>1, <3>1 DEF BurstWord
    <3>3. WordMoves(cmd, NoTag)
      BY <1>b, <3>2, WordEdge
    <3>4. cmd.addr = b_next /\ cmd.data = b_wdata /\ Drives(cmd) /\ ~Reads(cmd)
      BY <3>1 DEF Drives, Reads
    <3> QED
      BY <1>b, <1>12, <2>1, <3>3, <3>4, WordsIssue
  <2>2. CASE ~b_is_we
    <3>1. PICK cmd : cmd = [op |-> "READ", addr |-> b_next, data |-> NoData]
      OBVIOUS
    <3>2. Edge(cmd, BurstTag(b_issued), {})
      BY <1>12, <2>2, <3>1 DEF BurstWord, BurstTag
    <3>3. WordMoves(cmd, BurstTag(b_issued))
      BY <1>b, <3>2, WordEdge
    <3>4. cmd.addr = b_next /\ ~Drives(cmd) /\ Reads(cmd)
      BY <3>1 DEF Drives, Reads
    <3> QED
      BY <1>b, <1>12, <2>2, <3>3, <3>4, WordsIssue
  <2> QED
    BY <2>1, <2>2
<1>13. CASE Open2Read
  <2>1. PICK cmd : cmd = [op |-> "READ_AP", addr |-> cur_cmd.addr, data |-> NoData]
    OBVIOUS
  <2>2. PICK tag : tag = [kind |-> "random", id |-> cur]
    OBVIOUS
  <2>3. Edge(cmd, tag, {}) /\ KeepBurst /\ state = "OPEN2" /\ state' = "WAIT5"
    BY <1>13, <2>1, <2>2 DEF Open2Read
  <2>4. WordMoves(cmd, tag)
    BY <1>b, <2>3, WordEdge
  <2>5. ~Drives(cmd) /\ tag.kind # "burst" /\ tag # NoTag
    BY <2>1, <2>2 DEF Drives, NoTag
  <2>6. Passing(cmd, tag)
    BY <2>3, <2>5 DEF Passing, Waits
  <2> QED
    BY <1>b, <2>3, <2>4, <2>6, WordsPass DEF KeepBurst
<1>14. CASE Open2Write
  <2>1. PICK cmd : cmd = [op |-> "WRITE_AP", addr |-> cur_cmd.addr, data |-> cur_cmd.data]
    OBVIOUS
  <2>2. /\ Edge(cmd, NoTag, {cur}) /\ KeepBurst /\ state = "OPEN2" /\ state' = "WAIT3"
        /\ cur_cmd.we
    BY <1>14, <2>1 DEF Open2Write
  <2>3. WordMoves(cmd, NoTag)
    BY <1>b, <2>2, WordEdge
  <2>4. cur \in Client /\ cur_cmd \in Requests[cur]
    BY <2>2 DEF AccessInv, TypeInv, TypeOK, WordsInv, WordTypes
  <2>5. Owned => \A k \in 0 .. b_cmd.len - 1 : cur_cmd.addr # Place(k)
    <3> SUFFICES ASSUME Owned, NEW k \in 0 .. b_cmd.len - 1
                 PROVE  cur_cmd.addr # Place(k)
      OBVIOUS
    <3>1. b_cmd \in Bursts
      BY DEF Owned, OwnerInv
    <3> QED
      BY <2>2, <2>4, <3>1 DEF WordsApart, Place
  <2>6. ~Reads(cmd) /\ cmd.addr = cur_cmd.addr
    BY <2>1 DEF Reads
  <2>7. Passing(cmd, NoTag)
    BY <1>n, <2>2, <2>5, <2>6 DEF Passing, Waits
  <2> QED
    BY <1>b, <2>2, <2>3, <2>7, WordsPass DEF KeepBurst
<1>15. CASE UNCHANGED vars
  <2>1. UNCHANGED <<state, wait_n, b_active, b_next, b_issued, b_done, b_accepted, b_gap, cap, c_req,
                    c_cmd, b_wr, b_idx, b_data, b_req, b_cmd, b_wdata, buf, mem, dq>>
    BY <1>15 DEF vars, fsm, burst, spacing, outputs, ports
  <2> QED
    BY <2>1 DEF WordsInv, WordTypes, NextWord, InFlight, OnOutput, Taken, Owned, Issued, WordOf,
       Place, Closing, Landing, TagStage
<1> QED
  BY <1>1, <1>2, <1>3, <1>4, <1>5, <1>6, <1>7, <1>8, <1>9, <1>10, <1>11, <1>12, <1>13, <1>14, <1>15
  DEF Next

(* BurstComplete: whatever is interleaved with it, a burst of any length    *)
(* has all its words where they belong when b_done is up, for both settings *)
(* of rd_late and burst_slow.  It supposes that no machine reset cuts a     *)
(* burst off (with one it is false, as the run burst_after_reset shows) and *)
(* that no random client writes into the words of a burst.                  *)
THEOREM WholeBursts ==
  ASSUME Resets = FALSE, Bench = FALSE, WordsApart
  PROVE  Spec => []BurstComplete
<1> DEFINE IInv == TypeInv /\ RefreshInv /\ AccessInv /\ OwnerInv /\ WordsInv
<1>1. Init => IInv
  BY TypeInit, RefreshInit, AccessInit, OwnerInit, WordsInit
<1>2. IInv /\ [Next]_vars => IInv'
  BY TypeStep, RefreshStep, AccessStep, OwnerStep, WordsStep
<1>3. IInv => BurstComplete
  <2> SUFFICES ASSUME TypeInv, OwnerInv, WordsInv, b_done, b_req, NEW k \in 0 .. b_cmd.len - 1
               PROVE  LET word == mem[(b_cmd.addr + k) % AddrSize]
                      IN IF b_cmd.we THEN word = RowData[k] ELSE buf[k] = word
    BY DEF BurstComplete
  <2>1. Owned /\ ~b_active /\ state = "IDLE" /\ Issued = b_cmd.len
    BY DEF OwnerInv, Issued
  <2>2. ~b_wr /\ \A s \in Stage : cap[s].kind # "burst"
    BY <2>1 DEF WordsInv, OnOutput, InFlight, Closing, Landing, Stage
  <2>3. \A s \in Stage : cap[s] # BurstTag(k)
    BY <2>2 DEF BurstTag
  <2>4. IF b_cmd.we THEN WordOf(k) = RowData[k] ELSE buf[k] = WordOf(k)
    BY <2>1, <2>2, <2>3 DEF WordsInv, Taken
  <2> QED
    BY <2>4 DEF WordOf, Place
<1> QED
  BY <1>1, <1>2, <1>3, PTL DEF Spec

-----------------------------------------------------------------------------
(* The scoreboard of the bench.                                             *)

(* The clients of the bench (Bench = TRUE) ask anew on the very clock of an *)
(* acknowledge, so a request may be up while the acknowledge of the one     *)
(* before it is: what holds is that an access is its client's latest        *)
(* request until the clock that acknowledges it.                            *)
BenchTypes ==
    /\ TypeInv /\ CommandsTyped
    /\ mem \in [Addr -> Word] /\ ~b_cmd.we /\ ~b_is_we

AccessDue ==
    /\ state \in {"ARB", "OPEN1", "OPEN2"} => c_req[cur]
    /\ state \in {"OPEN1", "OPEN2"} => cur_cmd = c_cmd[cur]
    /\ \A k \in Stage : cap[k].kind = "random" =>
          /\ k = Flight(state) /\ cap[k] = OwnTag(cur) /\ c_req[cur]
          /\ cur_cmd = c_cmd[cur] /\ ~cur_cmd.we /\ dq[k] = mem[cur_cmd.addr]

BurstDue ==
    /\ b_active \/ b_issued # 0 =>
          b_req /\ b_accepted /\ b_issued + b_remain = b_cmd.len
    /\ b_active => b_next = (b_cmd.addr + b_issued) % AddrSize
    /\ ~b_active => b_remain = 0
    /\ state = "BEND" => wait_n <= 1

(* The last stage in which a word of the burst may still be.                *)
LastWord == CASE state = "BREAD" -> 4
              [] state = "BEND" -> wait_n + 3
              [] b_remain = 0 /\ state = "WAIT5" -> 2
              [] b_remain = 0 /\ state = "WAIT4" -> 1
              [] b_remain = 0 /\ state = "WAIT3" -> 0
              [] b_remain # 0 /\ state = "WAIT2" -> 2
              [] b_remain # 0 /\ state = "WAIT1" -> 1
              [] b_remain # 0 /\ state = "IDLE" -> 0
              [] OTHER -> -1

WordsDue ==
    /\ \A k \in Stage : cap[k].kind = "burst" =>
          /\ k <= LastWord /\ k <= TagStage /\ cap[k].id \in 0 .. b_issued - 1
          /\ cap[k] = BurstTag(cap[k].id)
          /\ dq[k] = mem[(b_cmd.addr + cap[k].id) % AddrSize]
    /\ \A n \in 0 .. b_issued - 1 : n \in bgot \/ \E k \in Stage : cap[k] = BurstTag(n)

BenchInv ==
    BenchTypes /\ AccessDue /\ BurstDue /\ WordsDue /\ ShadowIsChip /\ NoComplaint

(* What a clock does to the ports of the bench's clients and to the words.  *)
BenchMoves(cmd, tag, wack) ==
    /\ \A k \in Stage : cap'[k] = IF k = TagStage /\ tag # NoTag THEN tag
                                  ELSE IF k = 4 THEN NoTag ELSE cap[k + 1]
    /\ \A k \in Stage : dq'[k] = IF k = TagStage /\ Reads(cmd) THEN mem[cmd.addr]
                                 ELSE IF k = 4 THEN NoData ELSE dq[k + 1]
    /\ mem' = IF Drives(cmd) THEN [mem EXCEPT ![cmd.addr] = cmd.data] ELSE mem
    /\ \A i \in Client : c_ack'[i] = (i \in wack \/ cap[0] = OwnTag(i))
    /\ cap[0] # NoTag => rdata' = dq[0]
    /\ b_wr' = (cap[0].kind = "burst")
    /\ cap[0].kind = "burst" => b_idx' = cap[0].id /\ b_data' = dq[0]
    /\ \A i \in Client : c_req[i] /\ ~c_ack'[i] => c_req'[i] /\ c_cmd'[i] = c_cmd[i]
    /\ b_req /\ ~b_done' => b_req' /\ b_cmd' = b_cmd

LEMMA BenchEdge ==
  ASSUME Bench = TRUE, NEW cmd, NEW tag, NEW wack, Edge(cmd, tag, wack)
  PROVE  BenchMoves(cmd, tag, wack)
<1>1. Capture(tag, wack) /\ Pins(cmd) /\ BenchRandom /\ BenchBurst
  BY DEF Edge, Ports, BenchPorts
<1>2. \A i \in Client : c_ack'[i] = (i \in wack \/ cap[0] = OwnTag(i))
  BY <1>1 DEF Capture, OwnTag
<1>3. mem' = IF Drives(cmd) THEN [mem EXCEPT ![cmd.addr] = cmd.data] ELSE mem
  BY <1>1 DEF Pins, Drives
<1>4. \A k \in Stage : cap'[k] = IF k = TagStage /\ tag # NoTag THEN tag
                                 ELSE IF k = 4 THEN NoTag ELSE cap[k + 1]
  BY <1>1 DEF Capture, Shifted
<1>5. /\ cap[0] # NoTag => rdata' = dq[0]
      /\ b_wr' = (cap[0].kind = "burst")
      /\ cap[0].kind = "burst" => b_idx' = cap[0].id /\ b_data' = dq[0]
  BY <1>1 DEF Capture
<1>6. \A k \in Stage : dq'[k] = IF k = TagStage /\ Reads(cmd) THEN mem[cmd.addr]
                                ELSE IF k = 4 THEN NoData ELSE dq[k + 1]
  BY <1>1 DEF Pins, ChipLatency, TagStage, Reads
<1>7. \A i \in Client : c_req[i] /\ ~c_ack'[i] => c_req'[i] /\ c_cmd'[i] = c_cmd[i]
  BY <1>1 DEF BenchRandom
<1>8. b_req /\ ~b_done' => b_req' /\ b_cmd' = b_cmd
  BY <1>1 DEF BenchBurst
<1> QED
  BY <1>2, <1>3, <1>4, <1>5, <1>6, <1>7, <1>8 DEF BenchMoves

LEMMA BenchInit ==
  ASSUME Bench = TRUE
  PROVE  BInit => BenchInv
<1> SUFFICES ASSUME BInit PROVE BenchInv
  OBVIOUS
<1>1. Init /\ shadow = InitMem /\ bgot = {} /\ complaints = {}
  BY DEF BInit, WInit
<1>2. TypeInv
  BY <1>1, TypeInit
<1>3. CommandsTyped
  BY <1>1 DEF Init, CommandsTyped
<1>4. mem \in [Addr -> Word] /\ ~b_cmd.we /\ ~b_is_we
  BY <1>1, SdramAssumption DEF Init, Word
<1>5. AccessDue /\ BurstDue /\ WordsDue
  BY <1>1 DEF Init, NoTag, AccessDue, BurstDue, WordsDue
<1>6. ShadowIsChip /\ NoComplaint
  BY <1>1 DEF Init, ShadowIsChip, NoComplaint
<1> QED
  BY <1>2, <1>3, <1>4, <1>5, <1>6 DEF BenchInv, BenchTypes

(* Where no read is in flight and none is issued, none is afterwards, and   *)
(* only the access that is carried out is acknowledged.                     *)
LEMMA NoReadInFlight ==
  ASSUME AccessDue, state \in State \ Waits,
         NEW cmd, NEW tag, tag.kind # "random", NEW wack, BenchMoves(cmd, tag, wack)
  PROVE  /\ \A k \in Stage : cap'[k].kind # "random"
         /\ \A i \in Client : c_ack'[i] = (i \in wack)
<1>1. \A k \in Stage : cap[k].kind # "random"
  BY DEF AccessDue, Flight, Waits, Stage
<1>2. 0 \in Stage /\ \A i : OwnTag(i).kind = "random"
  BY DEF Stage, OwnTag
<1>3. \A k \in Stage : k # 4 => k + 1 \in Stage
  BY DEF Stage
<1>4. \A k \in Stage : cap'[k].kind # "random"
  BY <1>1, <1>3 DEF BenchMoves, NoTag
<1>5. \A i \in Client : c_ack'[i] = (i \in wack)
  BY <1>1, <1>2 DEF BenchMoves
<1> QED
  BY <1>4, <1>5

(* The read in flight keeps step with the waits of the FSM.                 *)
LEMMA ReadMovesOn ==
  ASSUME TypeOK, AccessDue, state \in Waits, state' = Following[state],
         cur' = cur, cur_cmd' = cur_cmd,
         NEW cmd, ~Drives(cmd), ~Reads(cmd), BenchMoves(cmd, NoTag, {})
  PROVE  AccessDue'
<1>1. /\ state' \in (Waits \cup {"IDLE"}) \ {"WAIT5"}
      /\ \A k \in Stage : k = Flight(state) /\ k # 0 => k - 1 = Flight(state')
  BY DEF Following, Waits, Flight, TagStage, Stage
<1>2. mem' = mem /\ cur \in Client
  BY DEF BenchMoves, TypeOK
<1>3. ASSUME NEW k \in Stage, cap'[k].kind = "random"
      PROVE  /\ k = Flight(state') /\ cap'[k] = OwnTag(cur') /\ c_req'[cur']
             /\ cur_cmd' = c_cmd'[cur'] /\ ~cur_cmd'.we /\ dq'[k] = mem'[cur_cmd'.addr]
  <2>1. k # 4 /\ k + 1 \in Stage /\ cap'[k] = cap[k + 1] /\ dq'[k] = dq[k + 1]
    BY <1>3 DEF BenchMoves, Stage, NoTag
  <2>2. /\ k + 1 = Flight(state) /\ cap[k + 1] = OwnTag(cur) /\ c_req[cur]
        /\ cur_cmd = c_cmd[cur] /\ ~cur_cmd.we /\ dq[k + 1] = mem[cur_cmd.addr]
    BY <1>3, <2>1 DEF AccessDue
  <2>3. k = Flight(state')
    BY <1>1, <2>1, <2>2 DEF Stage
  <2>4. 0 \in Stage /\ cap[0].kind # "random"
    BY <2>2 DEF AccessDue, Stage
  <2>5. ~c_ack'[cur]
    <3>1. cap[0] # OwnTag(cur)
      BY <2>4 DEF OwnTag
    <3>2. c_ack'[cur] = (cur \in {} \/ cap[0] = OwnTag(cur))
      BY <1>2 DEF BenchMoves
    <3> QED
      BY <3>1, <3>2
  <2>6. c_req'[cur] /\ c_cmd'[cur] = c_cmd[cur]
    BY <1>2, <2>2, <2>5 DEF BenchMoves
  <2> QED
    BY <1>2, <2>1, <2>2, <2>3, <2>6
<1>4. state' \notin {"ARB", "OPEN1", "OPEN2"}
  BY <1>1 DEF Waits
<1> QED
  BY <1>3, <1>4 DEF AccessDue

LEMMA AccessDueStep ==
  ASSUME Bench = TRUE, TypeInv, AccessDue, Next
  PROVE  AccessDue'
<1>t. TypeOK
  BY DEF TypeInv
<1>n. NoTag.kind # "random"
  BY DEF NoTag
<1>q. ASSUME state \in State \ Waits, state' \notin {"ARB", "OPEN1", "OPEN2"},
             NEW cmd, NEW tag, tag.kind # "random", NEW wack, Edge(cmd, tag, wack)
      PROVE  AccessDue'
  <2>1. BenchMoves(cmd, tag, wack)
    BY <1>q, BenchEdge
  <2>2. \A k \in Stage : cap'[k].kind # "random"
    BY <1>q, <2>1, NoReadInFlight
  <2> QED
    BY <1>q, <2>2 DEF AccessDue
<1>1. CASE Startup
  BY <1>1, <1>n, <1>q DEF Startup, State, Waits
<1>2. CASE IdleRefresh
  BY <1>2, <1>n, <1>q DEF IdleRefresh, State, Waits
<1>3. CASE IdleOpenBurst
  BY <1>3, <1>n, <1>q DEF IdleOpenBurst, State, Waits
<1>4. CASE IdleGrant
  <2>1. /\ state \in State \ Waits /\ Edge(NoCmd, NoTag, {}) /\ any_req
        /\ state' = "ARB" /\ cur' = pick
    BY <1>4 DEF IdleGrant, State, Waits
  <2>2. pick \in Client /\ c_req[pick]
    BY <1>t, <2>1, PickPending DEF TypeOK, Pending
  <2>3. BenchMoves(NoCmd, NoTag, {})
    BY <2>1, BenchEdge
  <2>4. /\ \A k \in Stage : cap'[k].kind # "random"
        /\ \A i \in Client : c_ack'[i] = (i \in {})
    BY <1>n, <2>1, <2>3, NoReadInFlight
  <2>5. c_req'[pick]
    BY <2>2, <2>3, <2>4 DEF BenchMoves
  <2> QED
    BY <2>1, <2>4, <2>5 DEF AccessDue
<1>5. CASE IdleNothing
  BY <1>5, <1>n, <1>q DEF IdleNothing, State, Waits, fsm
<1>6. CASE Arb
  <2>1. /\ state = "ARB" /\ state \in State \ Waits /\ state' = "OPEN1"
        /\ Edge(ACTIVE(c_cmd[cur].addr), NoTag, {})
        /\ cur' = cur /\ cur_cmd' = c_cmd[cur]
    BY <1>6 DEF Arb, State, Waits
  <2>2. cur \in Client /\ c_req[cur]
    BY <1>t, <2>1 DEF AccessDue, TypeOK
  <2>3. BenchMoves(ACTIVE(c_cmd[cur].addr), NoTag, {})
    BY <2>1, BenchEdge
  <2>4. /\ \A k \in Stage : cap'[k].kind # "random"
        /\ \A i \in Client : c_ack'[i] = (i \in {})
    BY <1>n, <2>1, <2>3, NoReadInFlight
  <2>5. c_req'[cur] /\ c_cmd'[cur] = c_cmd[cur]
    BY <2>2, <2>3, <2>4 DEF BenchMoves
  <2> QED
    BY <2>1, <2>4, <2>5 DEF AccessDue
<1>7. CASE Open2Write
  <2>1. /\ state = "OPEN2" /\ state' = "WAIT3"
        /\ \E cmd : Edge(cmd, NoTag, {cur})
    BY <1>7 DEF Open2Write
  <2> QED
    BY <1>n, <1>q, <2>1 DEF State, Waits
<1>8. CASE Open2Read
  <2> DEFINE cmd == [op |-> "READ_AP", addr |-> cur_cmd.addr, data |-> NoData]
  <2>1. /\ state = "OPEN2" /\ state' = "WAIT5" /\ cur' = cur /\ cur_cmd' = cur_cmd /\ ~cur_cmd.we
        /\ Edge(cmd, OwnTag(cur), {})
    BY <1>8 DEF Open2Read, grant, OwnTag
  <2>c. Reads(cmd) /\ ~Drives(cmd) /\ cmd.addr = cur_cmd.addr
    BY DEF Reads, Drives
  <2> HIDE DEF cmd
  <2>2. cur \in Client /\ c_req[cur] /\ cur_cmd = c_cmd[cur]
    BY <1>t, <2>1 DEF AccessDue, TypeOK
  <2>3. BenchMoves(cmd, OwnTag(cur), {}) /\ mem' = mem
    BY <2>1, <2>c, BenchEdge DEF BenchMoves
  <2>4. \A k \in Stage : cap[k].kind # "random"
    BY <2>1 DEF AccessDue, Flight, Stage
  <2>5. \A k \in Stage : cap'[k].kind = "random" => k = TagStage /\ cap'[k] = OwnTag(cur)
    <3>1. \A k \in Stage : k # 4 => k + 1 \in Stage
      BY DEF Stage
    <3> QED
      BY <1>n, <2>3, <2>4, <3>1 DEF BenchMoves
  <2>6. dq'[TagStage] = mem[cur_cmd.addr]
    <3>1. TagStage \in Stage
      BY DEF TagStage, Stage
    <3> QED
      BY <2>3, <2>c, <3>1 DEF BenchMoves
  <2>7. ~c_ack'[cur]
    <3>1. cap[0] # OwnTag(cur)
      BY <2>4 DEF Stage, OwnTag
    <3>2. c_ack'[cur] = (cur \in {} \/ cap[0] = OwnTag(cur))
      BY <2>2, <2>3 DEF BenchMoves
    <3> QED
      BY <3>1, <3>2
  <2>8. c_req'[cur] /\ c_cmd'[cur] = c_cmd[cur]
    BY <2>2, <2>3, <2>7 DEF BenchMoves
  <2>9. Flight(state') = TagStage
    BY <2>1 DEF Flight
  <2> QED
    BY <2>1, <2>2, <2>3, <2>5, <2>6, <2>8, <2>9 DEF AccessDue
<1>9. CASE Wait
  <2>1. /\ state' = Following[state] /\ state \in {"OPEN1", "BOPEN1", "BOPEN2"} \cup Waits
        /\ Edge(NoCmd, NoTag, {}) /\ cur' = cur /\ cur_cmd' = cur_cmd
    BY <1>9 DEF Wait, Following, Waits, grant
  <2>m. BenchMoves(NoCmd, NoTag, {}) /\ ~Reads(NoCmd) /\ ~Drives(NoCmd)
    BY <2>1, BenchEdge DEF NoCmd, Reads, Drives
  <2>2. CASE state = "OPEN1"
    <3>1. state' = "OPEN2" /\ state \in State \ Waits
      BY <2>1, <2>2 DEF Following, State, Waits
    <3>2. cur \in Client /\ c_req[cur] /\ cur_cmd = c_cmd[cur]
      BY <1>t, <2>2 DEF AccessDue, TypeOK
    <3>3. /\ \A k \in Stage : cap'[k].kind # "random"
          /\ \A i \in Client : c_ack'[i] = (i \in {})
      BY <1>n, <2>m, <3>1, NoReadInFlight
    <3>4. c_req'[cur] /\ c_cmd'[cur] = c_cmd[cur]
      BY <2>m, <3>2, <3>3 DEF BenchMoves
    <3> QED
      BY <2>1, <3>1, <3>2, <3>3, <3>4 DEF AccessDue
  <2>3. CASE state \in {"BOPEN1", "BOPEN2"}
    <3>1. state' \in {"BOPEN2", "BREAD"} /\ state \in State \ Waits
      BY <2>1, <2>3 DEF Following, State, Waits
    <3> QED
      BY <1>n, <1>q, <2>1, <3>1
  <2>4. CASE state \in Waits
    BY <1>t, <2>1, <2>m, <2>4, ReadMovesOn
  <2> QED
    BY <2>1, <2>2, <2>3, <2>4
<1>10. CASE RefreshWait
  BY <1>10, <1>n, <1>q DEF RefreshWait, State, Waits
<1>11. CASE BurstWord
  <2>1. /\ state \in State \ Waits /\ state' \in {"BREAD", "BEND"}
        /\ \E cmd, tag : tag.kind # "random" /\ Edge(cmd, tag, {})
    BY <1>11, <1>n DEF BurstWord, State, Waits, fsm
  <2> QED
    BY <1>q, <2>1
<1>12. CASE BurstGap
  BY <1>12, <1>n, <1>q DEF BurstGap, State, Waits, fsm
<1>13. CASE BurstEnd
  <2>1. /\ state \in State \ Waits /\ state' \in {"BEND", "WAIT5", "WAIT2"}
        /\ \E cmd : Edge(cmd, NoTag, {})
    BY <1>13 DEF BurstEnd, State, Waits, ClosingWait
  <2> QED
    BY <1>n, <1>q, <2>1
<1> QED
  BY <1>1, <1>2, <1>3, <1>4, <1>5, <1>6, <1>7, <1>8, <1>9, <1>10, <1>11, <1>12, <1>13
  DEF Next

(* Sums modulo the chip's size.                                             *)
LEMMA NextModulo ==
  ASSUME NEW a \in Nat, NEW n \in Nat \ {0}
  PROVE  ((a % n) + 1) % n = (a + 1) % n
<1> DEFINE q == a \div n
           r == a % n
<1>1. q \in Nat /\ r \in 0 .. n - 1 /\ a = n * q + r
  OBVIOUS
<1> HIDE DEF q, r
<1>2. CASE r + 1 < n
  <2>1. a + 1 = n * q + (r + 1)
    BY <1>1
  <2>2. (a + 1) % n = r + 1
    BY <1>1, <1>2, <2>1
  <2>3. (r + 1) % n = r + 1
    BY <1>1, <1>2
  <2> QED
    BY <2>2, <2>3 DEF r
<1>3. CASE r + 1 = n
  <2>1. a + 1 = n * (q + 1)
    BY <1>1, <1>3
  <2>2. (a + 1) % n = 0
    BY <1>1, <1>3, <2>1
  <2>3. (r + 1) % n = 0
    BY <1>1, <1>3
  <2> QED
    BY <2>2, <2>3 DEF r
<1> QED
  BY <1>1, <1>2, <1>3

(* The burst's registers where the branch leaves them alone: a burst may be *)
(* accepted, or its end seen.                                               *)
LEMMA BurstDueKept ==
  ASSUME TypeInv, BurstDue, state' = "BEND" => wait_n' <= 1,
         NEW cmd, NEW tag, NEW wack, BenchMoves(cmd, tag, wack),
         NEW yield, BurstRegs(b_active, b_next, b_remain, b_issued, yield)
  PROVE  /\ BurstDue'
         /\ b_issued # 0 /\ ~BurstDone =>
               b_issued' = b_issued /\ b_remain' = b_remain /\ b_req' /\ b_cmd' = b_cmd
         /\ b_issued = 0 \/ BurstDone => b_issued' = 0
<1>t. /\ b_issued \in Nat /\ b_remain \in Nat /\ b_cmd.addr \in Addr /\ b_cmd.len \in 1 .. MaxLen
      /\ b_done' = BurstDone
  BY DEF TypeInv, TypeOK, BurstCmd, BurstRegs
<1>1. CASE AcceptBurst
  <2>1. b_req /\ ~b_active /\ ~b_accepted
    BY <1>1 DEF AcceptBurst
  <2>2. b_issued = 0 /\ ~BurstDone
    BY <2>1 DEF BurstDue, BurstDone
  <2>3. b_req' /\ b_cmd' = b_cmd
    BY <1>t, <2>1, <2>2 DEF BenchMoves
  <2>4. /\ b_active' /\ b_next' = b_cmd.addr /\ b_remain' = b_cmd.len /\ b_issued' = 0 /\ b_accepted'
    BY <1>1, <2>1 DEF BurstRegs
  <2>5. (b_cmd.addr + 0) % AddrSize = b_cmd.addr
    <3>1. /\ b_cmd.addr \in 0 .. AddrSize - 1 /\ AddrSize \in Nat \ {0}
          /\ 0 \in 0 .. AddrSize
      BY <1>t, SdramAssumption DEF Addr
    <3>2. (b_cmd.addr + 0) % AddrSize
          = IF b_cmd.addr + 0 < AddrSize THEN b_cmd.addr + 0 ELSE b_cmd.addr + 0 - AddrSize
      BY <1>t, <3>1, Wrapped
    <3> QED
      BY <3>1, <3>2
  <2> QED
    BY <1>t, <2>2, <2>3, <2>4, <2>5 DEF BurstDue
<1>2. CASE ~AcceptBurst
  <2>1. /\ b_active' = b_active /\ b_next' = b_next /\ b_remain' = b_remain
        /\ b_issued' = IF BurstDone THEN 0 ELSE b_issued
        /\ b_req /\ b_accepted => b_accepted'
    BY <1>2 DEF BurstRegs
  <2>2. CASE BurstDone
    BY <2>1, <2>2 DEF BurstDone, BurstDue
  <2>3. CASE ~BurstDone
    <3>1. b_req => b_req' /\ b_cmd' = b_cmd
      BY <1>t, <2>3 DEF BenchMoves
    <3> QED
      BY <2>1, <2>3, <3>1 DEF BurstDue
  <2> QED
    BY <2>2, <2>3
<1> QED
  BY <1>1, <1>2

(* Where the branch drives them, in S_BREAD and S_BEND.                     *)
LEMMA BurstDueDriven ==
  ASSUME TypeInv, BurstDue, b_active, state # "WAIT1",
         NEW cmd, NEW tag, NEW wack, BenchMoves(cmd, tag, wack),
         NEW active, NEW next, NEW remain, NEW issued, NEW yield,
         BurstRegs(active, next, remain, issued, yield)
  PROVE  /\ b_active' = active /\ b_next' = next /\ b_remain' = remain /\ b_issued' = issued
         /\ b_req' /\ b_accepted' /\ b_cmd' = b_cmd /\ ~b_done'
<1>1. ~AcceptBurst /\ ~BurstDone /\ b_req /\ b_accepted
  BY DEF AcceptBurst, BurstDone, BurstDue
<1>2. /\ b_active' = active /\ b_next' = next /\ b_remain' = remain /\ b_issued' = issued
      /\ b_accepted' /\ ~b_done'
  BY <1>1 DEF BurstRegs
<1> QED
  BY <1>1, <1>2 DEF BenchMoves

(* A burst that goes on: the words on their way move up, the one landing is *)
(* taken, and one may be issued.                                            *)
LEMMA WordsMoveOn ==
  ASSUME TypeOK, WordsDue, Scoreboard, b_issued \in Nat, LastWord \in Int, LastWord' \in Int,
         NEW cmd, NEW tag, NEW wack, BenchMoves(cmd, tag, wack),
         b_req, b_cmd' = b_cmd, ~b_done', mem' = mem,
         \/ b_issued' = b_issued /\ tag.kind # "burst" /\ LastWord' >= LastWord - 1
         \/ /\ b_issued' = b_issued + 1 /\ tag = BurstTag(b_issued) /\ LastWord' = 4
            /\ Reads(cmd) /\ cmd.addr = (b_cmd.addr + b_issued) % AddrSize
  PROVE  WordsDue'
<1> DEFINE At(n) == mem[(b_cmd.addr + n) % AddrSize]
<1>t. TagStage \in {3, 4} /\ \A n : BurstTag(n).kind = "burst" /\ BurstTag(n).id = n /\ BurstTag(n) # NoTag
  BY DEF TagStage, BurstTag, NoTag
<1>1. ASSUME NEW k \in Stage, cap'[k].kind = "burst"
      PROVE  /\ k <= LastWord' /\ k <= TagStage /\ cap'[k].id \in 0 .. b_issued' - 1
             /\ cap'[k] = BurstTag(cap'[k].id)
             /\ dq'[k] = At(cap'[k].id)
  <2>1. CASE k = TagStage /\ tag # NoTag
    <3>1. cap'[k] = tag
      BY <2>1 DEF BenchMoves
    <3>2. /\ b_issued' = b_issued + 1 /\ tag = BurstTag(b_issued) /\ LastWord' = 4
          /\ Reads(cmd) /\ cmd.addr = (b_cmd.addr + b_issued) % AddrSize
      BY <1>1, <3>1
    <3>3. dq'[k] = mem[cmd.addr]
      BY <2>1, <3>2 DEF BenchMoves
    <3> QED
      BY <1>t, <2>1, <3>1, <3>2, <3>3
  <2>2. CASE ~(k = TagStage /\ tag # NoTag)
    <3>1. k # 4 /\ k + 1 \in Stage /\ cap'[k] = cap[k + 1]
      BY <1>1, <2>2 DEF BenchMoves, Stage, NoTag
    <3>2. /\ k + 1 <= LastWord /\ k + 1 <= TagStage /\ cap[k + 1].id \in 0 .. b_issued - 1
          /\ cap[k + 1] = BurstTag(cap[k + 1].id) /\ dq[k + 1] = At(cap[k + 1].id)
      BY <1>1, <3>1 DEF WordsDue
    <3>3. dq'[k] = dq[k + 1]
      BY <1>t, <3>1, <3>2 DEF BenchMoves, Stage
    <3>4. k <= LastWord' /\ k <= TagStage /\ cap[k + 1].id \in 0 .. b_issued' - 1
      BY <1>t, <3>1, <3>2 DEF Stage
    <3> QED
      BY <3>1, <3>2, <3>3, <3>4
  <2> QED
    BY <2>1, <2>2
<1>2. bgot' = IF b_wr' THEN bgot \cup {b_idx'} ELSE bgot
  BY DEF Scoreboard, Got
<1>3. ASSUME NEW n \in 0 .. b_issued' - 1
      PROVE  n \in bgot' \/ \E k \in Stage : cap'[k] = BurstTag(n)
  <2>1. CASE n \in 0 .. b_issued - 1
    <3>1. CASE n \in bgot
      BY <1>2, <3>1
    <3>2. CASE \E k \in Stage : cap[k] = BurstTag(n)
      <4> PICK k \in Stage : cap[k] = BurstTag(n)
        BY <3>2
      <4>1. CASE k = 0
        <5>1. b_wr' /\ b_idx' = n
          <6>1. cap[0].kind = "burst" /\ cap[0].id = n
            BY <1>t, <4>1
          <6>2. b_wr' = (cap[0].kind = "burst")
            BY DEF BenchMoves
          <6> QED
            BY <6>1, <6>2 DEF BenchMoves
        <5> QED
          BY <1>2, <5>1
      <4>2. CASE k # 0
        <5>1. k - 1 \in Stage /\ k - 1 # 4 /\ (k - 1) + 1 = k
          BY <4>2 DEF Stage
        <5>2. k <= TagStage
          <6>1. cap[k].kind = "burst"
            BY <1>t
          <6> QED
            BY <6>1 DEF WordsDue
        <5>3. k - 1 # TagStage
          BY <1>t, <5>1, <5>2 DEF Stage
        <5>4. cap'[k - 1] = cap[k]
          BY <5>1, <5>3 DEF BenchMoves
        <5> QED
          BY <5>1, <5>4
      <4> QED
        BY <4>1, <4>2
    <3> QED
      BY <2>1, <3>1, <3>2 DEF WordsDue
  <2>2. CASE n \notin 0 .. b_issued - 1
    <3>1. n = b_issued /\ tag = BurstTag(n)
      BY <2>2
    <3>2. TagStage \in Stage /\ cap'[TagStage] = tag
      BY <1>t, <3>1 DEF BenchMoves, Stage
    <3> QED
      BY <3>1, <3>2
  <2> QED
    BY <2>1, <2>2
<1> QED
  BY <1>1, <1>3 DEF WordsDue, TagStage, BurstTag

(* No word is on its way: none has been issued, or the last one has landed. *)
LEMMA WordsOver ==
  ASSUME TypeOK, b_issued' = 0, \A k \in Stage : cap[k].kind # "burst",
         NEW cmd, NEW tag, NEW wack, BenchMoves(cmd, tag, wack), tag.kind # "burst"
  PROVE  WordsDue'
<1>1. \A k \in Stage : k # 4 => k + 1 \in Stage
  BY DEF Stage
<1>2. \A k \in Stage : cap'[k].kind # "burst"
  BY <1>1 DEF BenchMoves, NoTag
<1>3. 0 .. b_issued' - 1 = {}
  OBVIOUS
<1> QED
  BY <1>2, <1>3 DEF WordsDue

(* A clock on which the branch leaves the burst alone.                      *)
LEMMA BurstLeftAlone ==
  ASSUME TypeInv, AccessDue, BurstDue, WordsDue, Scoreboard,
         state' = "BEND" => wait_n' <= 1,
         LastWord \in Int, LastWord' \in Int, b_remain' = b_remain => LastWord' >= LastWord - 1,
         NEW cmd, NEW tag, NEW wack, BenchMoves(cmd, tag, wack), tag.kind # "burst",
         state = "OPEN2" \/ mem' = mem,
         NEW yield, BurstRegs(b_active, b_next, b_remain, b_issued, yield)
  PROVE  BurstDue' /\ WordsDue'
<1>t. TypeOK /\ b_issued \in Nat /\ b_done' = BurstDone
  BY DEF TypeInv, TypeOK, BurstRegs
<1>1. /\ BurstDue'
      /\ b_issued # 0 /\ ~BurstDone =>
            b_issued' = b_issued /\ b_remain' = b_remain /\ b_req' /\ b_cmd' = b_cmd
      /\ b_issued = 0 \/ BurstDone => b_issued' = 0
  BY BurstDueKept
<1>2. CASE b_issued = 0 \/ BurstDone
  <2>1. \A k \in Stage : cap[k].kind # "burst"
    <3>1. BurstDone => LastWord = -1
      BY DEF BurstDone, LastWord
    <3> QED
      BY <1>2, <3>1 DEF WordsDue, Stage
  <2> QED
    BY <1>t, <1>1, <1>2, <2>1, WordsOver
<1>3. CASE b_issued # 0 /\ ~BurstDone
  <2>1. b_req /\ b_issued' = b_issued /\ b_remain' = b_remain /\ b_cmd' = b_cmd /\ ~b_done'
    BY <1>t, <1>1, <1>3 DEF BurstDue
  <2>2. CASE mem' = mem
    BY <1>t, <1>1, <2>1, <2>2, WordsMoveOn
  <2>3. CASE state = "OPEN2"
    <3>1. \A k \in Stage : cap[k].kind # "burst"
      BY <2>3 DEF WordsDue, LastWord, Stage
    <3>2. \A k \in Stage : cap'[k].kind # "burst"
      <4>1. \A k \in Stage : k # 4 => k + 1 \in Stage
        BY DEF Stage
      <4> QED
        BY <3>1, <4>1 DEF BenchMoves, NoTag
    <3>3. bgot' = IF b_wr' THEN bgot \cup {b_idx'} ELSE bgot
      BY <2>1 DEF Scoreboard, Got
    <3>4. \A n : BurstTag(n).kind = "burst"
      BY DEF BurstTag
    <3>5. \A n \in 0 .. b_issued - 1 : n \in bgot
      BY <3>1, <3>4 DEF WordsDue
    <3>6. \A n \in 0 .. b_issued' - 1 : n \in bgot'
      BY <2>1, <3>3, <3>5
    <3> QED
      BY <1>1, <3>2, <3>6 DEF WordsDue
  <2> QED
    BY <2>2, <2>3
<1> QED
  BY <1>1, <1>2, <1>3

(* What the scoreboard prints on a clock: nothing, when a write is          *)
(* acknowledged on the clock it is carried out and nothing else is written. *)
LEMMA ScoreStep ==
  ASSUME BenchInv, Scoreboard, b_done' = BurstDone,
         NEW cmd, NEW tag, NEW wack, BenchMoves(cmd, tag, wack),
         \/ ~Drives(cmd) /\ wack = {}
         \/ /\ state = "OPEN2" /\ cur_cmd.we /\ wack = {cur}
            /\ Drives(cmd) /\ cmd.addr = cur_cmd.addr /\ cmd.data = cur_cmd.data
  PROVE  (ShadowIsChip /\ NoComplaint)'
<1>t. /\ shadow = mem /\ complaints = {} /\ mem \in [Addr -> Word] /\ cur \in Client
      /\ b_issued \in Nat /\ b_cmd.len \in 1 .. MaxLen
      /\ AccessDue /\ BurstDue /\ WordsDue
  BY DEF BenchInv, BenchTypes, TypeInv, TypeOK, BurstCmd, ShadowIsChip, NoComplaint
<1>a. ASSUME NEW i \in Client, cap[0] = OwnTag(i)
      PROVE  /\ i = cur /\ c_req[i] /\ ~c_cmd[i].we /\ state # "OPEN2"
             /\ dq[0] = mem[c_cmd[i].addr] /\ cap[0] # NoTag
  <2>1. 0 \in Stage /\ cap[0].kind = "random" /\ cap[0].id = i
    BY <1>a DEF Stage, OwnTag
  <2>2. /\ 0 = Flight(state) /\ cap[0] = OwnTag(cur) /\ c_req[cur] /\ cur_cmd = c_cmd[cur]
        /\ ~cur_cmd.we /\ dq[0] = mem[cur_cmd.addr]
    BY <1>t, <2>1 DEF AccessDue
  <2>3. cur = i
    BY <1>a, <2>2 DEF OwnTag
  <2> QED
    BY <2>1, <2>2, <2>3 DEF Flight, NoTag
<1>b. ASSUME cap[0].kind = "burst"
      PROVE  /\ cap[0].id \in 0 .. b_issued - 1 /\ b_req /\ b_issued <= b_cmd.len
             /\ dq[0] = mem[(b_cmd.addr + cap[0].id) % AddrSize]
             /\ state # "OPEN2" /\ ~BurstDone
  <2>1. /\ 0 <= LastWord /\ cap[0].id \in 0 .. b_issued - 1
        /\ dq[0] = mem[(b_cmd.addr + cap[0].id) % AddrSize]
    BY <1>b, <1>t DEF WordsDue, Stage
  <2>2. state # "OPEN2" /\ ~BurstDone
    BY <2>1 DEF LastWord, BurstDone
  <2>3. b_req /\ b_issued + b_remain = b_cmd.len /\ b_remain \in Nat
    BY <1>t, <2>1 DEF BurstDue, BenchInv, BenchTypes, TypeInv, TypeOK
  <2> QED
    BY <1>t, <2>1, <2>2, <2>3
<1>c. Acked = {i \in Client : i \in wack \/ cap[0] = OwnTag(i)}
  BY DEF Acked, BenchMoves
<1>1. ShadowAfter = mem' /\ RandomChecks = {}
  <2>1. CASE ~Drives(cmd) /\ wack = {}
    <3>1. \A i \in Acked : i \in Client /\ cap[0] = OwnTag(i)
      BY <1>c, <2>1
    <3>2. Writers = {}
      BY <1>a, <3>1 DEF Writers
    <3>3. ShadowAfter = [a \in Addr |-> shadow[a]]
      BY <3>2 DEF ShadowAfter
    <3>4. mem' = mem
      BY <2>1 DEF BenchMoves
    <3>5. \A i \in Acked : c_req[i]
      BY <1>a, <3>1
    <3>6. \A i \in Readers : rdata' = shadow[c_cmd[i].addr]
      BY <1>a, <1>t, <3>1 DEF Readers, BenchMoves
    <3> QED
      BY <1>t, <3>3, <3>4, <3>5, <3>6 DEF RandomChecks
  <2>2. CASE /\ state = "OPEN2" /\ cur_cmd.we /\ wack = {cur}
             /\ Drives(cmd) /\ cmd.addr = cur_cmd.addr /\ cmd.data = cur_cmd.data
    <3>1. Acked = {cur}
      BY <1>a, <1>c, <1>t, <2>2
    <3>2. c_req[cur] /\ c_cmd[cur] = cur_cmd
      BY <1>t, <2>2 DEF AccessDue
    <3>3. Writers = {cur} /\ Readers = {}
      BY <2>2, <3>1, <3>2 DEF Writers, Readers
    <3>4. \A a \in Addr : ShadowAfter[a] = IF cur_cmd.addr = a THEN cur_cmd.data ELSE mem[a]
      <4>1. (CHOOSE i \in Writers : c_cmd[i].addr = cur_cmd.addr) = cur
        BY <3>2, <3>3
      <4>2. (\E i \in Writers : c_cmd[i].addr = cur_cmd.addr)
            /\ \A a : (\E i \in Writers : c_cmd[i].addr = a) => a = cur_cmd.addr
        BY <3>2, <3>3
      <4> QED
        BY <1>t, <3>2, <4>1, <4>2 DEF ShadowAfter
    <3>5. mem' = [mem EXCEPT ![cur_cmd.addr] = cur_cmd.data]
      BY <2>2 DEF BenchMoves
    <3>6. ShadowAfter = [a \in Addr |-> ShadowAfter[a]]
      BY DEF ShadowAfter
    <3>7. ShadowAfter = mem'
      BY <1>t, <3>4, <3>5, <3>6
    <3>8. RandomChecks = {}
      BY <3>1, <3>2, <3>3 DEF RandomChecks
    <3> QED
      BY <3>7, <3>8
  <2> QED
    BY <2>1, <2>2
<1>2. BurstChecks = {}
  <2>1. CASE ~b_wr'
    BY <2>1 DEF BurstChecks
  <2>2. CASE b_wr'
    <3>1. cap[0].kind = "burst"
      BY <2>2 DEF BenchMoves
    <3>2. b_idx' = cap[0].id /\ b_data' = dq[0]
      BY <3>1 DEF BenchMoves
    <3>3. mem' = mem
      BY <1>b, <3>1 DEF BenchMoves
    <3>4. b_req /\ ~(b_idx' >= b_cmd.len)
      BY <1>b, <1>t, <3>1, <3>2
    <3>5. b_data' = ShadowAfter[(b_cmd.addr + b_idx') % AddrSize]
      BY <1>1, <1>b, <3>1, <3>2, <3>3
    <3> QED
      BY <2>2, <3>4, <3>5 DEF BurstChecks
  <2> QED
    BY <2>1, <2>2
<1>3. DoneChecks = {}
  <2>1. CASE ~b_done'
    BY <2>1 DEF DoneChecks
  <2>2. CASE b_done'
    <3>1. BurstDone
      BY <2>2
    <3>2. b_req /\ b_issued # 0 /\ b_remain = 0 /\ b_issued = b_cmd.len /\ LastWord = -1
      BY <1>t, <3>1 DEF BurstDone, BurstDue, LastWord
    <3>3. \A k \in Stage : cap[k].kind # "burst"
      BY <1>t, <3>2 DEF WordsDue, Stage
    <3>4. \A n : BurstTag(n).kind = "burst"
      BY DEF BurstTag
    <3>5. 0 .. b_cmd.len - 1 \subseteq bgot
      BY <1>t, <3>2, <3>3, <3>4 DEF WordsDue
    <3>6. bgot \subseteq Got
      BY DEF Got
    <3>7. 0 .. b_cmd.len - 1 \subseteq Got
      BY <3>5, <3>6
    <3> QED
      BY <2>2, <3>2, <3>7 DEF DoneChecks
  <2> QED
    BY <2>1, <2>2
<1> QED
  BY <1>1, <1>2, <1>3, <1>t DEF Scoreboard, ShadowIsChip, NoComplaint

(* The bench asks for read bursts only.                                     *)
LEMMA BenchTypesStep ==
  ASSUME Bench = TRUE, \A b \in Bursts : ~b.we, BenchTypes, TypeInv',
         NEW cmd, NEW tag, NEW wack, Edge(cmd, tag, wack), BenchMoves(cmd, tag, wack),
         cur_cmd' = cur_cmd \/ cur_cmd' = c_cmd[cur],
         Drives(cmd) => cmd.addr = cur_cmd.addr /\ cmd.data = cur_cmd.data,
         b_is_we' \in {b_is_we, b_cmd.we}
  PROVE  BenchTypes'
<1>1. CommandsTyped'
  BY RequestsTyped DEF BenchTypes, TypeInv, Edge
<1>2. cur_cmd.addr \in Addr /\ cur_cmd.data \in Word
  BY SdramAssumption DEF BenchTypes, CommandsTyped, Access, NoAccess, Addr, Word
<1>3. mem' \in [Addr -> Word]
  BY <1>2 DEF BenchMoves, BenchTypes
<1>4. ~b_cmd'.we
  BY DEF Edge, Ports, BenchPorts, BenchBurst, BenchTypes
<1>5. ~b_is_we'
  BY DEF BenchTypes
<1> QED
  BY <1>1, <1>3, <1>4, <1>5 DEF BenchTypes

LEMMA BenchStep ==
  ASSUME Bench = TRUE, \A b \in Bursts : ~b.we
  PROVE  BenchInv /\ Next /\ Scoreboard => BenchInv'
<1> SUFFICES ASSUME BenchInv, Next, Scoreboard PROVE BenchInv'
  OBVIOUS
<1>t. /\ TypeInv /\ TypeOK /\ BurstInv /\ BenchTypes /\ AccessDue /\ BurstDue /\ WordsDue
      /\ wait_n \in 0 .. 7 /\ b_issued \in Nat /\ b_remain \in Nat
  BY DEF BenchInv, BenchTypes, TypeInv, TypeOK
<1>u. TypeInv' /\ AccessDue'
  BY <1>t, TypeStep, AccessDueStep
<1>w. LastWord \in Int /\ LastWord' \in Int
  <2>1. wait_n' \in 0 .. 7
    BY <1>u DEF TypeInv, TypeOK
  <2> QED
    BY <1>t, <2>1 DEF LastWord
<1>n. NoTag.kind # "burst"
  BY DEF NoTag
<1>q. ASSUME NEW cmd, Edge(cmd, NoTag, {}), ~Drives(cmd),
             NEW y, BurstRegs(b_active, b_next, b_remain, b_issued, y),
             cur_cmd' = cur_cmd \/ cur_cmd' = c_cmd[cur],
             state' = "BEND" => wait_n' <= 1,
             b_remain' = b_remain => LastWord' >= LastWord - 1
      PROVE  BenchInv'
  <2>1. BenchMoves(cmd, NoTag, {})
    BY <1>q, BenchEdge
  <2>2. mem' = mem /\ b_done' = BurstDone /\ b_is_we' \in {b_is_we, b_cmd.we}
    BY <1>q, <2>1 DEF BenchMoves, BurstRegs
  <2>3. BurstDue' /\ WordsDue'
    BY <1>n, <1>q, <1>t, <1>w, <2>1, <2>2, BurstLeftAlone
  <2>4. (ShadowIsChip /\ NoComplaint)'
    BY <1>q, <2>1, <2>2, ScoreStep
  <2>5. BenchTypes'
    BY <1>q, <1>t, <1>u, <2>1, <2>2, BenchTypesStep
  <2> QED
    BY <1>u, <2>3, <2>4, <2>5 DEF BenchInv
<1>c. ~Drives(NoCmd) /\ (\A a : ~Drives(ACTIVE(a))) /\ ~Drives(COMMAND("AUTO_REFRESH"))
      /\ ~Drives(COMMAND("PRECHARGE")) /\ ~Drives(COMMAND(StartupCommand))
  BY CommandFacts DEF Drives, StartupCommand
<1>1. CASE Startup
  <2>1. state = "STARTUP" /\ state' \in {"IDLE", "STARTUP"} /\ cur_cmd' = cur_cmd
    BY <1>1 DEF Startup, grant
  <2>2. LastWord = -1 /\ LastWord' >= -1 /\ state' # "BEND"
    BY <2>1 DEF LastWord
  <2>3. Edge(COMMAND(StartupCommand), NoTag, {}) /\ BurstRegs(b_active, b_next, b_remain, b_issued, b_yield)
    BY <1>1 DEF Startup, KeepBurst
  <2> QED
    BY <1>c, <1>q, <1>w, <2>1, <2>2, <2>3
<1>2. CASE IdleRefresh
  <2>1. state = "IDLE" /\ state' = "REF" /\ cur_cmd' = cur_cmd
    BY <1>2 DEF IdleRefresh, grant
  <2>2. LastWord <= 0 /\ LastWord' = -1
    BY <2>1 DEF LastWord
  <2>3. Edge(COMMAND("AUTO_REFRESH"), NoTag, {}) /\ BurstRegs(b_active, b_next, b_remain, b_issued, b_yield)
    BY <1>2 DEF IdleRefresh, KeepBurst
  <2> QED
    BY <1>c, <1>q, <1>w, <2>1, <2>2, <2>3
<1>3. CASE IdleOpenBurst
  <2>1. state = "IDLE" /\ state' = "BOPEN1" /\ cur_cmd' = cur_cmd
    BY <1>3 DEF IdleOpenBurst, grant
  <2>2. LastWord <= 0 /\ LastWord' = -1
    BY <2>1 DEF LastWord
  <2>3. Edge(ACTIVE(b_next), NoTag, {}) /\ BurstRegs(b_active, b_next, b_remain, b_issued, b_yield)
    BY <1>3 DEF IdleOpenBurst, KeepBurst
  <2> QED
    BY <1>c, <1>q, <1>w, <2>1, <2>2, <2>3
<1>4. CASE IdleGrant
  <2>1. state = "IDLE" /\ state' = "ARB" /\ cur_cmd' = cur_cmd
    BY <1>4 DEF IdleGrant
  <2>2. LastWord <= 0 /\ LastWord' = -1
    BY <2>1 DEF LastWord
  <2>3. Edge(NoCmd, NoTag, {}) /\ \E y : BurstRegs(b_active, b_next, b_remain, b_issued, y)
    BY <1>4 DEF IdleGrant
  <2> QED
    BY <1>c, <1>q, <1>w, <2>1, <2>2, <2>3
<1>5. CASE IdleNothing
  <2>1. state = "IDLE" /\ state' = "IDLE" /\ cur_cmd' = cur_cmd
    BY <1>5 DEF IdleNothing, grant, fsm
  <2>2. LastWord <= 0 /\ LastWord' >= -1
    BY <2>1 DEF LastWord
  <2>3. Edge(NoCmd, NoTag, {}) /\ BurstRegs(b_active, b_next, b_remain, b_issued, b_yield)
    BY <1>5 DEF IdleNothing, KeepBurst
  <2> QED
    BY <1>c, <1>q, <1>w, <2>1, <2>2, <2>3
<1>6. CASE Arb
  <2>1. state = "ARB" /\ state' = "OPEN1" /\ cur_cmd' = c_cmd[cur]
    BY <1>6 DEF Arb
  <2>2. LastWord = -1 /\ LastWord' = -1
    BY <2>1 DEF LastWord
  <2>3. Edge(ACTIVE(c_cmd[cur].addr), NoTag, {}) /\ BurstRegs(b_active, b_next, b_remain, b_issued, b_yield)
    BY <1>6 DEF Arb, KeepBurst
  <2> QED
    BY <1>c, <1>q, <1>w, <2>1, <2>2, <2>3
<1>7. CASE Open2Write
  <2> DEFINE cmd == [op |-> "WRITE_AP", addr |-> cur_cmd.addr, data |-> cur_cmd.data]
  <2>1. /\ state = "OPEN2" /\ state' = "WAIT3" /\ cur_cmd' = cur_cmd /\ cur_cmd.we
        /\ Edge(cmd, NoTag, {cur}) /\ BurstRegs(b_active, b_next, b_remain, b_issued, b_yield)
    BY <1>7 DEF Open2Write, grant, KeepBurst
  <2>c. Drives(cmd) /\ cmd.addr = cur_cmd.addr /\ cmd.data = cur_cmd.data
    BY DEF Drives
  <2> HIDE DEF cmd
  <2>2. LastWord = -1 /\ LastWord' >= -1
    BY <2>1 DEF LastWord
  <2>3. BenchMoves(cmd, NoTag, {cur})
    BY <2>1, BenchEdge
  <2>4. b_done' = BurstDone /\ b_is_we' \in {b_is_we, b_cmd.we}
    BY <2>1 DEF BurstRegs
  <2>5. BurstDue' /\ WordsDue'
    <3>1. b_remain' = b_remain => LastWord' >= LastWord - 1
      BY <1>w, <2>2
    <3>2. state' = "BEND" => wait_n' <= 1
      BY <2>1
    <3> QED
      BY <1>n, <1>t, <1>w, <2>1, <2>3, <3>1, <3>2, BurstLeftAlone
  <2>6. (ShadowIsChip /\ NoComplaint)'
    BY <2>1, <2>3, <2>4, <2>c, ScoreStep
  <2>7. BenchTypes'
    BY <1>t, <1>u, <2>1, <2>3, <2>4, <2>c, BenchTypesStep
  <2> QED
    BY <1>u, <2>5, <2>6, <2>7 DEF BenchInv
<1>8. CASE Open2Read
  <2> DEFINE cmd == [op |-> "READ_AP", addr |-> cur_cmd.addr, data |-> NoData]
  <2>1. /\ state = "OPEN2" /\ state' = "WAIT5" /\ cur_cmd' = cur_cmd
        /\ Edge(cmd, OwnTag(cur), {}) /\ BurstRegs(b_active, b_next, b_remain, b_issued, b_yield)
    BY <1>8 DEF Open2Read, grant, KeepBurst, OwnTag
  <2>c. ~Drives(cmd)
    BY DEF Drives
  <2> HIDE DEF cmd
  <2>2. LastWord = -1 /\ LastWord' >= -1
    BY <2>1 DEF LastWord
  <2>3. BenchMoves(cmd, OwnTag(cur), {}) /\ OwnTag(cur).kind # "burst"
    BY <2>1, BenchEdge DEF OwnTag
  <2>4. b_done' = BurstDone /\ b_is_we' \in {b_is_we, b_cmd.we}
    BY <2>1 DEF BurstRegs
  <2>5. BurstDue' /\ WordsDue'
    <3>1. b_remain' = b_remain => LastWord' >= LastWord - 1
      BY <1>w, <2>2
    <3>2. state' = "BEND" => wait_n' <= 1
      BY <2>1
    <3> QED
      BY <1>t, <1>w, <2>1, <2>3, <3>1, <3>2, BurstLeftAlone
  <2>6. (ShadowIsChip /\ NoComplaint)'
    BY <2>3, <2>4, <2>c, ScoreStep
  <2>7. BenchTypes'
    BY <1>t, <1>u, <2>1, <2>3, <2>4, <2>c, BenchTypesStep
  <2> QED
    BY <1>u, <2>5, <2>6, <2>7 DEF BenchInv
<1>9. CASE Wait
  <2>1. state \in DOMAIN Following /\ state' = Following[state] /\ cur_cmd' = cur_cmd
    BY <1>9 DEF Wait, grant
  <2>2. /\ state' # "BEND"
        /\ b_remain' = b_remain => LastWord' >= LastWord - 1
    BY <2>1 DEF LastWord, Following
  <2>3. Edge(NoCmd, NoTag, {}) /\ BurstRegs(b_active, b_next, b_remain, b_issued, b_yield)
    BY <1>9 DEF Wait, KeepBurst
  <2> QED
    BY <1>c, <1>q, <2>1, <2>2, <2>3
<1>10. CASE RefreshWait
  <2>1. state = "REF" /\ state' \in {"IDLE", "REF"} /\ cur_cmd' = cur_cmd
    BY <1>10 DEF RefreshWait, grant
  <2>2. LastWord = -1 /\ LastWord' >= -1 /\ state' # "BEND"
    BY <2>1 DEF LastWord
  <2>3. Edge(NoCmd, NoTag, {}) /\ BurstRegs(b_active, b_next, b_remain, b_issued, b_yield)
    BY <1>10 DEF RefreshWait, KeepBurst
  <2> QED
    BY <1>c, <1>q, <1>w, <2>1, <2>2, <2>3
<1>11. CASE BurstWord
  <2> DEFINE cmd == [op |-> "READ", addr |-> b_next, data |-> NoData]
  <2>1. /\ state = "BREAD" /\ b_active /\ state' \in {"BREAD", "BEND"}
        /\ state' = "BEND" => wait_n' = 1
        /\ cur_cmd' = cur_cmd
        /\ BurstRegs(b_active, (b_next + 1) % AddrSize, b_remain - 1, b_issued + 1, b_yield)
    BY <1>11, <1>t DEF BurstWord, BurstInv, fsm, grant
  <2>2. Edge(cmd, BurstTag(b_issued), {})
    BY <1>11, <1>t DEF BurstWord, BenchTypes, BurstTag
  <2>c. ~Drives(cmd) /\ Reads(cmd) /\ cmd.addr = b_next
    BY DEF Drives, Reads
  <2> HIDE DEF cmd
  <2>3. BenchMoves(cmd, BurstTag(b_issued), {})
    BY <2>2, BenchEdge
  <2>4. mem' = mem /\ b_done' = BurstDone /\ b_is_we' \in {b_is_we, b_cmd.we}
    BY <2>1, <2>3, <2>c DEF BenchMoves, BurstRegs
  <2>5. /\ b_active' = b_active /\ b_next' = (b_next + 1) % AddrSize /\ b_remain' = b_remain - 1
        /\ b_issued' = b_issued + 1 /\ b_req' /\ b_accepted' /\ b_cmd' = b_cmd /\ ~b_done'
    BY <1>t, <2>1, <2>3, BurstDueDriven
  <2>6. /\ b_req /\ b_issued + b_remain = b_cmd.len /\ b_remain >= 1
        /\ b_next = (b_cmd.addr + b_issued) % AddrSize
    BY <1>t, <2>1 DEF BurstDue, BurstInv
  <2>7. b_next' = (b_cmd.addr + (b_issued + 1)) % AddrSize
    <3>1. /\ b_cmd.addr + b_issued \in Nat /\ AddrSize \in Nat \ {0}
          /\ (b_cmd.addr + b_issued) + 1 = b_cmd.addr + (b_issued + 1)
      BY <1>t, SdramAssumption DEF TypeOK, BurstCmd, Addr
    <3>2. (((b_cmd.addr + b_issued) % AddrSize) + 1) % AddrSize = ((b_cmd.addr + b_issued) + 1) % AddrSize
      BY <3>1, NextModulo
    <3> QED
      BY <2>5, <2>6, <3>1, <3>2
  <2>8. BurstDue'
    <3>1. b_issued' + b_remain' = b_cmd'.len
      BY <1>t, <2>5, <2>6 DEF TypeOK, BurstCmd
    <3> QED
      BY <2>1, <2>5, <2>7, <3>1 DEF BurstDue
  <2>9. WordsDue'
    <3>1. LastWord' = 4
      BY <2>1 DEF LastWord
    <3> QED
      BY <1>t, <1>w, <2>3, <2>4, <2>5, <2>6, <2>c, <3>1, WordsMoveOn
  <2>10. (ShadowIsChip /\ NoComplaint)'
    BY <2>3, <2>4, <2>c, ScoreStep
  <2>11. BenchTypes'
    BY <1>t, <1>u, <2>1, <2>2, <2>3, <2>4, <2>c, BenchTypesStep
  <2> QED
    BY <1>u, <2>8, <2>9, <2>10, <2>11 DEF BenchInv
<1>12. CASE BurstGap
  <2>1. state = "BREAD" /\ state' = "BREAD" /\ cur_cmd' = cur_cmd
    BY <1>12 DEF BurstGap, fsm, grant
  <2>2. LastWord = 4 /\ LastWord' = 4
    BY <2>1 DEF LastWord
  <2>3. Edge(NoCmd, NoTag, {}) /\ BurstRegs(b_active, b_next, b_remain, b_issued, b_yield)
    BY <1>12 DEF BurstGap, KeepBurst
  <2> QED
    BY <1>c, <1>q, <2>1, <2>2, <2>3
<1>13. CASE BurstEnd
  <2>1. /\ state = "BEND" /\ b_active /\ cur_cmd' = cur_cmd /\ wait_n' = (wait_n - 1) % 8
        /\ wait_n \in {0, 1}
    BY <1>13, <1>t DEF BurstEnd, BurstInv, BurstDue, grant
  <2>2. CASE wait_n # 0
    <3>1. state' = "BEND" /\ wait_n' = 0 /\ wait_n = 1
      BY <1>13, <2>1, <2>2 DEF BurstEnd
    <3>2. LastWord = 4 /\ LastWord' = 3
      BY <2>1, <3>1 DEF LastWord
    <3>3. Edge(NoCmd, NoTag, {}) /\ BurstRegs(b_active, b_next, b_remain, b_issued, b_yield)
      BY <1>13, <2>2 DEF BurstEnd, KeepBurst
    <3>4. wait_n' <= 1 /\ LastWord' >= LastWord - 1 /\ cur_cmd' = cur_cmd
      BY <2>1, <3>1, <3>2
    <3> QED
      BY <1>c, <1>q, <3>3, <3>4
  <2>3. CASE wait_n = 0
    <3> DEFINE cmd == COMMAND("PRECHARGE")
    <3>1. /\ state' = ClosingWait /\ Edge(cmd, NoTag, {})
          /\ BurstRegs(b_active /\ b_remain # 0, b_next, b_remain, b_issued, TRUE)
      BY <1>13, <2>3 DEF BurstEnd
    <3>c. ~Drives(cmd)
      BY <1>c
    <3> HIDE DEF cmd
    <3>2. BenchMoves(cmd, NoTag, {})
      BY <3>1, BenchEdge
    <3>3. mem' = mem /\ b_done' = BurstDone /\ b_is_we' \in {b_is_we, b_cmd.we}
      BY <3>1, <3>2, <3>c DEF BenchMoves, BurstRegs
    <3>4. /\ b_active' = (b_active /\ b_remain # 0) /\ b_next' = b_next /\ b_remain' = b_remain
          /\ b_issued' = b_issued /\ b_req' /\ b_accepted' /\ b_cmd' = b_cmd /\ ~b_done'
      BY <1>t, <2>1, <3>1, <3>2, BurstDueDriven
    <3>5. LastWord = 3 /\ LastWord' = 2 /\ state' # "BEND"
      BY <2>1, <2>3, <3>1, <3>4 DEF LastWord, ClosingWait
    <3>6. BurstDue'
      BY <1>t, <2>1, <3>4, <3>5 DEF BurstDue
    <3>7. WordsDue'
      <4>1. b_req
        BY <1>t, <2>1 DEF BurstDue
      <4> QED
        BY <1>n, <1>t, <1>w, <3>2, <3>3, <3>4, <3>5, <4>1, WordsMoveOn
    <3>8. (ShadowIsChip /\ NoComplaint)'
      BY <3>2, <3>3, <3>c, ScoreStep
    <3>9. BenchTypes'
      BY <1>t, <1>u, <2>1, <3>1, <3>2, <3>3, <3>c, BenchTypesStep
    <3> QED
      BY <1>u, <3>6, <3>7, <3>8, <3>9 DEF BenchInv
  <2> QED
    BY <2>2, <2>3
<1> QED
  BY <1>1, <1>2, <1>3, <1>4, <1>5, <1>6, <1>7, <1>8, <1>9, <1>10, <1>11, <1>12, <1>13
  DEF Next

LEMMA BenchKept ==
  ASSUME Bench = TRUE, \A b \in Bursts : ~b.we
  PROVE  BenchInv /\ [BNext]_bvars => BenchInv'
<1>1. CASE UNCHANGED bvars
  BY <1>1 DEF bvars, wvars, vars, fsm, refresh, grant, burst, spacing, outputs, ports,
     BenchInv, BenchTypes, TypeInv, TypeOK, BurstInv, CommandsTyped, AccessDue, BurstDue, WordsDue,
     ShadowIsChip, NoComplaint, LastWord, Flight, TagStage, OwnTag, BurstTag
<1>2. BNext /\ BenchInv => BenchInv'
  BY BenchStep DEF BNext, WNext
<1> QED
  BY <1>1, <1>2

(* ShadowIsChip: the memory of tb_sdram.cpp, written on the acknowledges,   *)
(* is the chip's on every clock, for any clients, requests, read bursts and *)
(* switches: the clock of the acknowledge is the clock of the write.        *)
THEOREM BenchShadow ==
  ASSUME Bench = TRUE, \A b \in Bursts : ~b.we
  PROVE  BSpec => []ShadowIsChip
<1>1. BInit => BenchInv
  BY BenchInit
<1>2. BenchInv /\ [BNext]_bvars => BenchInv'
  BY BenchKept
<1>3. BenchInv => ShadowIsChip
  BY DEF BenchInv
<1> QED
  BY <1>1, <1>2, <1>3, PTL DEF BSpec

(* NoComplaint: tb_sdram.cpp never prints, however its clients ask: no      *)
(* acknowledge, word or b_done without its request, no word that is not the *)
(* one last written, no burst done before all its words have come.          *)
THEOREM BenchSilent ==
  ASSUME Bench = TRUE, \A b \in Bursts : ~b.we
  PROVE  BSpec => []NoComplaint
<1>1. BInit => BenchInv
  BY BenchInit
<1>2. BenchInv /\ [BNext]_bvars => BenchInv'
  BY BenchKept
<1>3. BenchInv => NoComplaint
  BY DEF BenchInv
<1> QED
  BY <1>1, <1>2, <1>3, PTL DEF BSpec
=============================================================================
