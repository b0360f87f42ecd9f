----------------------------- MODULE SdramChip -----------------------------
(***************************************************************************)
(* The SDR SDRAM chip on the other side of rtl/sdram_ctrl.sv's pins, as    *)
(* far as the controller relies on it: which command may follow which, and *)
(* how many clocks later.  The rows and commands are those of the chip     *)
(* model of the benches, sim/sdram_model.sv, which complains of an ACTIVE  *)
(* with a row open and of a column command with none.  This one asks more: *)
(* the timings, which sim/sdram_model.sv does not check, are those the     *)
(* waits and comments of the controller name (tRCD, tRP, tRC, tRFC), and   *)
(* all banks count as one, as the controller never keeps two rows open.    *)
(***************************************************************************)
EXTENDS Integers

CONSTANTS tRCD,   \* ACTIVE to READ or WRITE, in clocks
          tRP,    \* PRECHARGE to ACTIVE or AUTO REFRESH
          tRAS,   \* ACTIVE to PRECHARGE
          tRC,    \* ACTIVE to the next ACTIVE or AUTO REFRESH
          tRFC,   \* AUTO REFRESH to ACTIVE or AUTO REFRESH
          tWR     \* last written word to PRECHARGE

ASSUME TimingAssumption ==
    /\ tRCD \in Nat \ {0} /\ tRP \in Nat \ {0} /\ tRAS \in Nat \ {0}
    /\ tRC \in Nat \ {0} /\ tRFC \in Nat \ {0} /\ tWR \in Nat \ {0}

Op == {"NOP", "ACTIVE", "READ", "READ_AP", "WRITE", "WRITE_AP",
       "PRECHARGE", "AUTO_REFRESH", "LOAD_MODE"}

NoRow == -1

(* A timer holds the clocks that must still pass; a timing of n clocks is   *)
(* armed with n - 1, so that the n-th clock after it finds the timer at 0.  *)
Tick(t) == IF t > 0 THEN t - 1 ELSE 0
Later(s, t) == IF s > t THEN s ELSE t

PowerUp == [row |-> NoRow, rcd |-> 0, ras |-> 0, rc |-> 0, idle |-> 0,
            refs |-> 0, mode |-> FALSE, ok |-> TRUE]

Precharged(c) == c.row = NoRow /\ c.idle = 0 /\ c.rc = 0

(* May the chip take this command now?  Column commands need their own row  *)
(* open; the mode register is loaded once, after two refreshes, and before  *)
(* the first row is opened.                                                 *)
Legal(c, op, row) ==
    \/ op = "NOP"
    \/ op = "ACTIVE" /\ c.mode /\ Precharged(c)
    \/ op \in {"READ", "READ_AP", "WRITE", "WRITE_AP"} /\ c.row = row /\ c.rcd = 0
    \/ op = "PRECHARGE" /\ c.ras = 0
    \/ op = "AUTO_REFRESH" /\ Precharged(c)
    \/ op = "LOAD_MODE" /\ Precharged(c) /\ c.refs >= 2

(* The chip after the command; ok stays false once a command was illegal.   *)
(* A command with auto-precharge closes the row by itself, tWR after a      *)
(* write; that it also waits for tRAS is what tRC says.                     *)
ChipNext(c, op, row) ==
    LET t == [c EXCEPT !.rcd = Tick(@), !.ras = Tick(@), !.rc = Tick(@),
                       !.idle = Tick(@), !.ok = @ /\ Legal(c, op, row)]
    IN CASE op = "ACTIVE"       -> [t EXCEPT !.row = row, !.rcd = tRCD - 1,
                                             !.ras = tRAS - 1, !.rc = tRC - 1]
         [] op = "READ_AP"      -> [t EXCEPT !.row = NoRow, !.idle = tRP]
         [] op = "WRITE"        -> [t EXCEPT !.ras = Later(@, tWR - 1)]
         [] op = "WRITE_AP"     -> [t EXCEPT !.row = NoRow,
                                             !.idle = tWR - 1 + tRP]
         [] op = "PRECHARGE"    -> [t EXCEPT !.row = NoRow, !.idle = tRP - 1]
         [] op = "AUTO_REFRESH" -> [t EXCEPT !.idle = tRFC - 1,
                                             !.refs = IF @ < 2 THEN @ + 1 ELSE @]
         [] op = "LOAD_MODE"    -> [t EXCEPT !.mode = TRUE]
         [] OTHER               -> t
=============================================================================
