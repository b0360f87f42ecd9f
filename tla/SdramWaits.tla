----------------------------- MODULE SdramWaits -----------------------------
(***************************************************************************)
(* How long a client of rtl/sdram_ctrl.sv waits, in turns rather than in   *)
(* clocks: the controller with two history variables that count who went   *)
(* first.                                                                  *)
(***************************************************************************)
EXTENDS SdramCtrl

VARIABLES passed,    \* passed[i][j]: grants to j since client i has been pending
          blocked    \* burst chunks opened since the last grant, while someone waited

wvars == <<vars, passed, blocked>>

Grants == state = "IDLE" /\ state' = "ARB"
OpensChunk == state = "IDLE" /\ state' = "BOPEN1"

NotPassed == [j \in Client |-> 0]

History ==
    /\ passed' = [i \in Client |->
                    IF i \notin Pending \/ (Grants /\ pick = i) THEN NotPassed
                    ELSE IF Grants THEN [passed[i] EXCEPT ![pick] = @ + 1] ELSE passed[i]]
    /\ blocked' = IF ~any_req \/ Grants THEN 0
                  ELSE IF OpensChunk THEN blocked + 1 ELSE blocked

WInit == Init /\ passed = [i \in Client |-> NotPassed] /\ blocked = 0
WNext == Next /\ History
WSpec == WInit /\ [][WNext]_wvars

-----------------------------------------------------------------------------
(* Round-robin: "a saturating client cannot starve the others" -- while one *)
(* waits, every other client is granted at most once.                       *)
NobodyPassedTwice == \A i, j \in Client : passed[i][j] <= 1

(* A pending client sees at most two burst chunks go first: one opened      *)
(* before it was noticed, and one more when a refresh lands between two     *)
(* bursts.  One is not a bound, whatever the header of the controller says.  *)
AtMostTwoChunks == blocked <= 2
=============================================================================
