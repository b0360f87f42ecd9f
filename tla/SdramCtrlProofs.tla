-------------------------- MODULE SdramCtrlProofs --------------------------
(***************************************************************************)
(* Theorems about SdramCtrl, for every number of clients, refresh          *)
(* interval, chunk, burst length, row length and setting of the switches.  *)
(***************************************************************************)
EXTENDS SdramCtrl, WellFoundedInduction, TLAPS

-----------------------------------------------------------------------------
(* Arithmetic and choice.                                                   *)

(* A non-empty set of naturals has a least element. *)
LEMMA LeastNatural ==
  ASSUME NEW T \in SUBSET Nat, T # {}
  PROVE  \E x \in T : \A y \in T : x <= y
<1> DEFINE R == {ss \in Nat \X Nat : ss[1] < ss[2]}
<1>1. IsWellFoundedOn(R, Nat)
  BY NatLessThanWellFounded DEF OpToRel
<1>2. \E x \in T : \A y \in T : ~(<<y, x>> \in R)
  <2> HIDE DEF R
  <2> QED BY <1>1, WFMin
<1>3. \A x, y \in Nat : ~(<<y, x>> \in R) => x <= y
  OBVIOUS
<1> HIDE DEF R
<1> QED
  BY <1>2, <1>3

(* A remainder stays below the modulus. *)
LEMMA ModRange ==
  ASSUME NEW a \in Int, NEW n \in Nat \ {0}
  PROVE  a % n \in 0 .. n - 1
OBVIOUS

(* The arbiter grants a client that is pending. *)
LEMMA PickPending ==
  ASSUME last \in Client, any_req
  PROVE  pick \in Pending
<1> DEFINE D == {Distance(i) : i \in Pending}
<1>1. \A i \in Pending : Distance(i) \in Nat
  BY ModRange, SdramAssumption DEF Pending, Client, Distance
<1>2. D \in SUBSET Nat /\ D # {}
  BY <1>1 DEF any_req
<1>3. \E x \in D : \A y \in D : x <= y
  <2> HIDE DEF D
  <2> QED BY <1>2, LeastNatural
<1>4. \E i \in Pending : \A j \in Pending : Distance(i) <= Distance(j)
  BY <1>3
<1> QED
  BY <1>4 DEF pick

-----------------------------------------------------------------------------
(* Types.  A burst is at work in the burst states, an active burst has      *)
(* words left until its last chunk closes, and a chunk that goes on is not  *)
(* full: what keeps the burst counters within their widths.                 *)
BurstInv ==
  /\ state \in {"BOPEN1", "BOPEN2", "BREAD", "BEND"} => b_active
  /\ b_active /\ state # "BEND" => b_remain >= 1
  /\ b_issued + b_remain <= MaxLen
  /\ state \in {"BOPEN1", "BOPEN2", "BREAD"} => b_chunk < BURST_CHUNK

TypeInv == TypeOK /\ BurstInv

(* What the assignments outside the case statement leave well typed.        *)
EdgeTyped ==
  /\ cap \in [Stage -> Tag]
  /\ c_req \in [Client -> BOOLEAN] /\ c_ack \in [Client -> BOOLEAN]
  /\ any_req_q \in BOOLEAN /\ b_start \in BOOLEAN
  /\ b_wr \in BOOLEAN /\ b_req \in BOOLEAN /\ b_cmd \in BurstCmd

LEMMA EdgeTypes ==
  ASSUME TypeOK, NEW cmd, NEW tag \in Tag, NEW wack, Edge(cmd, tag, wack)
  PROVE  EdgeTyped'
<1>1. cap' \in [Stage -> Tag]
  <2>1. NoTag \in Tag
    BY DEF NoTag, Tag
  <2>2. \A k \in Stage : k # 4 => k + 1 \in Stage
    BY DEF Stage
  <2> QED
    BY <2>1, <2>2 DEF Edge, Capture, Shifted, TypeOK
<1>2. c_ack' \in [Client -> BOOLEAN] /\ b_wr' \in BOOLEAN
  BY DEF Edge, Capture
<1>3. any_req_q' \in BOOLEAN /\ b_start' \in BOOLEAN
  BY DEF Edge, Decisions, any_req
<1>4. c_req' \in [Client -> BOOLEAN]
  BY DEF Edge, Ports, MachinePorts, RandomPorts, BenchPorts, BenchRandom
<1>5. b_req' \in BOOLEAN /\ b_cmd' \in BurstCmd
  BY SdramAssumption DEF Edge, Ports, MachinePorts, BurstPort, BenchPorts, BenchBurst, TypeOK
<1> QED
  BY <1>1, <1>2, <1>3, <1>4, <1>5 DEF EdgeTyped

(* The burst registers stay typed when the branch assigns them legal        *)
(* values; acceptance loads a whole burst.                                  *)
BurstTyped ==
  /\ b_active \in BOOLEAN /\ b_yield \in BOOLEAN /\ b_accepted \in BOOLEAN
  /\ b_is_we \in BOOLEAN /\ b_done \in BOOLEAN
  /\ b_next \in Addr /\ b_remain \in 0 .. MaxLen /\ b_issued \in 0 .. MaxLen
  /\ b_issued + b_remain <= MaxLen

LEMMA BurstRegsTypes ==
  ASSUME TypeOK,
         NEW active \in BOOLEAN, NEW next \in Addr, NEW yield \in BOOLEAN,
         NEW remain \in 0 .. MaxLen, NEW issued \in 0 .. MaxLen,
         issued + remain <= MaxLen,
         BurstRegs(active, next, remain, issued, yield)
  PROVE  /\ BurstTyped'
         /\ b_active' => (b_active' = active /\ b_remain' = remain) \/ b_remain' >= 1
         /\ active => b_active'
         /\ active /\ b_active => b_remain' = remain
<1>1. b_done' \in BOOLEAN /\ b_accepted' \in BOOLEAN
  BY DEF BurstRegs, BurstDone
<1>2. CASE AcceptBurst
  <2>1. /\ b_active' = TRUE /\ b_is_we' = b_cmd.we /\ b_next' = b_cmd.addr
        /\ b_remain' = b_cmd.len /\ b_issued' = 0 /\ b_yield' = FALSE
    BY <1>2 DEF BurstRegs
  <2>2. b_cmd.we \in BOOLEAN /\ b_cmd.addr \in Addr /\ b_cmd.len \in 1 .. MaxLen
    BY DEF TypeOK, BurstCmd
  <2>3. ~b_active
    BY <1>2 DEF AcceptBurst
  <2>4. b_remain' \in 1 .. MaxLen /\ b_next' \in Addr /\ b_issued' + b_remain' <= MaxLen
    BY <2>1, <2>2, SdramAssumption
  <2>5. b_active' \in BOOLEAN /\ b_yield' \in BOOLEAN /\ b_is_we' \in BOOLEAN
    BY <2>1, <2>2
  <2>6. b_remain' \in 0 .. MaxLen /\ b_issued' \in 0 .. MaxLen /\ b_remain' >= 1
    BY <2>1, <2>4, SdramAssumption
  <2>7. BurstTyped'
    BY <1>1, <2>4, <2>5, <2>6 DEF BurstTyped
  <2> QED
    BY <2>1, <2>3, <2>6, <2>7
<1>3. CASE ~AcceptBurst
  <2>1. /\ b_active' = active /\ b_next' = next /\ b_remain' = remain
        /\ b_issued' = (IF BurstDone THEN 0 ELSE issued)
        /\ b_yield' = yield /\ b_is_we' = b_is_we
    BY <1>3 DEF BurstRegs
  <2> QED
    BY <1>1, <2>1, SdramAssumption DEF BurstTyped, TypeOK
<1> QED
  BY <1>2, <1>3

LEMMA KeepBurstTypes ==
  ASSUME TypeInv, KeepBurst
  PROVE  /\ BurstTyped'
         /\ b_active => b_active'
         /\ b_active' /\ state # "BEND" => b_remain' >= 1
<1>1. /\ b_active \in BOOLEAN /\ b_next \in Addr /\ b_yield \in BOOLEAN
      /\ b_remain \in 0 .. MaxLen /\ b_issued \in 0 .. MaxLen /\ TypeOK
      /\ b_issued + b_remain <= MaxLen
  BY DEF TypeInv, TypeOK, BurstInv
<1>2. /\ BurstTyped'
      /\ b_active' => (b_active' = b_active /\ b_remain' = b_remain) \/ b_remain' >= 1
      /\ b_active => b_active'
  BY <1>1, BurstRegsTypes DEF KeepBurst
<1> QED
  BY <1>2 DEF TypeInv, BurstInv

(* The registers of the FSM itself. *)
FsmTyped ==
  /\ state \in State /\ wait_n \in 0 .. 7
  /\ refresh_count \in 0 .. REFRESH_MAX /\ refresh_due \in BOOLEAN
  /\ cur \in Client /\ last \in Client
  /\ b_chunk \in 0 .. BURST_CHUNK /\ b_gap \in 0 .. 4
  /\ state \in {"BOPEN1", "BOPEN2", "BREAD", "BEND"} => b_active
  /\ b_active /\ state # "BEND" => b_remain >= 1
  /\ state \in {"BOPEN1", "BOPEN2", "BREAD"} => b_chunk < BURST_CHUNK

LEMMA CountRefreshTypes ==
  ASSUME refresh_count \in 0 .. REFRESH_MAX, CountRefresh
  PROVE  refresh_count' \in 0 .. REFRESH_MAX /\ refresh_due' \in BOOLEAN
<1>1. REFRESH_MAX + 1 \in Nat \ {0} /\ refresh_count + 1 \in Int
  BY SdramAssumption
<1>2. (refresh_count + 1) % (REFRESH_MAX + 1) \in 0 .. (REFRESH_MAX + 1) - 1
  BY <1>1, ModRange
<1> QED
  BY <1>2, SdramAssumption DEF CountRefresh

LEMMA TypeInvSplit ==
  ASSUME EdgeTyped', BurstTyped', FsmTyped'
  PROVE  TypeInv'
BY DEF EdgeTyped, BurstTyped, FsmTyped, TypeInv, TypeOK, BurstInv

LEMMA TypeInit ==
  Init => TypeInv
<1> SUFFICES ASSUME Init PROVE TypeInv
  OBVIOUS
<1>1. EdgeTyped
  <2>1. NoTag \in Tag
    BY DEF NoTag, Tag
  <2>2. [we |-> FALSE, addr |-> 0, len |-> 1] \in BurstCmd
    BY SdramAssumption DEF BurstCmd, Addr
  <2> QED
    BY <2>1, <2>2 DEF Init, EdgeTyped
<1>2. BurstTyped
  <2>1. 0 \in Addr /\ 0 \in 0 .. MaxLen /\ 0 + 0 <= MaxLen
    BY SdramAssumption DEF Addr
  <2> QED
    BY <2>1 DEF Init, BurstTyped
<1>3. FsmTyped
  <2>1. 0 \in Client /\ 0 \in 0 .. BURST_CHUNK /\ REFRESH_MAX - STARTUP_CYCLES \in 0 .. REFRESH_MAX
    BY SdramAssumption DEF Client
  <2>2. refresh_count \in 0 .. REFRESH_MAX /\ refresh_due \in BOOLEAN
    BY <2>1 DEF Init
  <2>3. state = "STARTUP" /\ wait_n \in 0 .. 7 /\ b_gap \in 0 .. 4 /\ ~b_active
    BY DEF Init
  <2>4. cur \in Client /\ last \in Client /\ b_chunk \in 0 .. BURST_CHUNK
    BY <2>1 DEF Init
  <2> QED
    BY <2>2, <2>3, <2>4 DEF FsmTyped, State
<1> QED
  BY <1>1, <1>2, <1>3 DEF EdgeTyped, BurstTyped, FsmTyped, TypeInv, TypeOK, BurstInv

LEMMA TypeStep ==
  TypeInv /\ [Next]_vars => TypeInv'
<1> SUFFICES ASSUME TypeInv, [Next]_vars PROVE TypeInv'
  OBVIOUS
<1>t. TypeOK /\ BurstInv
  BY DEF TypeInv
<1>n. NoTag \in Tag
  BY DEF NoTag, Tag
<1>z. \A w : w \in Int => (w - 1) % 8 \in 0 .. 7
  BY ModRange
<1>1. CASE Startup
  <2>1. EdgeTyped'
    BY <1>1, <1>t, <1>n, EdgeTypes DEF Startup
  <2>2. KeepBurst /\ CountRefresh
    BY <1>1 DEF Startup
  <2>3. FsmTyped'
    BY <1>1, <1>t, <2>2, KeepBurstTypes, CountRefreshTypes
    DEF Startup, FsmTyped, TypeOK, State, grant, spacing
  <2> QED
    BY <2>1, <2>2, <2>3, KeepBurstTypes, TypeInvSplit
<1>2. CASE IdleRefresh
  <2>1. EdgeTyped'
    BY <1>2, <1>t, <1>n, EdgeTypes DEF IdleRefresh
  <2>2. KeepBurst
    BY <1>2 DEF IdleRefresh
  <2>3. FsmTyped'
    <3>1. refresh_count' \in 0 .. REFRESH_MAX /\ refresh_due' \in BOOLEAN /\ wait_n' \in 0 .. 7
      <4>1. refresh_count' = 0 /\ refresh_due' = FALSE /\ wait_n' = 6
        BY <1>2 DEF IdleRefresh
      <4>2. 0 \in 0 .. REFRESH_MAX
        BY SdramAssumption
      <4>3. wait_n' \in 0 .. 7
        BY <4>1
      <4>4. refresh_count' \in 0 .. REFRESH_MAX
        BY <4>1, <4>2
      <4>5. refresh_due' \in BOOLEAN
        BY <4>1
      <4> QED
        BY <4>3, <4>4, <4>5
    <3> QED
      BY <1>2, <1>t, <2>2, <3>1, KeepBurstTypes
      DEF IdleRefresh, FsmTyped, TypeOK, State, grant, spacing
  <2> QED
    BY <2>1, <2>2, <2>3, KeepBurstTypes, TypeInvSplit
<1>3. CASE IdleOpenBurst
  <2>1. EdgeTyped'
    BY <1>3, <1>t, <1>n, EdgeTypes DEF IdleOpenBurst
  <2>2. KeepBurst /\ CountRefresh /\ b_active
    BY <1>3 DEF IdleOpenBurst, OpensBurst
  <2>3. FsmTyped'
    BY <1>3, <1>t, <2>2, KeepBurstTypes, CountRefreshTypes, SdramAssumption
    DEF IdleOpenBurst, FsmTyped, TypeOK, State, grant
  <2> QED
    BY <2>1, <2>2, <2>3, KeepBurstTypes, TypeInvSplit
<1>4. CASE IdleGrant
  <2>1. EdgeTyped'
    BY <1>4, <1>t, <1>n, EdgeTypes DEF IdleGrant
  <2>2. BurstRegs(b_active, b_next, b_remain, b_issued, FALSE) /\ CountRefresh /\ any_req
    BY <1>4 DEF IdleGrant
  <2>3. /\ BurstTyped'
        /\ b_active' => (b_active' = b_active /\ b_remain' = b_remain) \/ b_remain' >= 1
    BY <1>t, <2>2, BurstRegsTypes DEF TypeOK, BurstInv
  <2>4. pick \in Client
    BY <1>t, <2>2, PickPending DEF TypeOK, Pending
  <2>5. b_active' => b_remain' >= 1
    BY <1>4, <1>t, <2>3 DEF IdleGrant, BurstInv
  <2>6. FsmTyped'
    BY <1>4, <1>t, <2>2, <2>4, <2>5, CountRefreshTypes
    DEF IdleGrant, FsmTyped, TypeOK, State, spacing
  <2> QED
    BY <2>1, <2>3, <2>6, TypeInvSplit
<1>5. CASE IdleNothing
  <2>1. EdgeTyped'
    BY <1>5, <1>t, <1>n, EdgeTypes DEF IdleNothing
  <2>2. KeepBurst /\ CountRefresh
    BY <1>5 DEF IdleNothing
  <2>3. FsmTyped'
    BY <1>5, <1>t, <2>2, KeepBurstTypes, CountRefreshTypes
    DEF IdleNothing, FsmTyped, TypeOK, State, fsm, grant, spacing
  <2> QED
    BY <2>1, <2>2, <2>3, KeepBurstTypes, TypeInvSplit
<1>6. CASE Arb
  <2>1. EdgeTyped'
    BY <1>6, <1>t, <1>n, EdgeTypes DEF Arb
  <2>2. KeepBurst /\ CountRefresh
    BY <1>6 DEF Arb
  <2>3. FsmTyped'
    BY <1>6, <1>t, <2>2, KeepBurstTypes, CountRefreshTypes
    DEF Arb, FsmTyped, TypeOK, State, spacing
  <2> QED
    BY <2>1, <2>2, <2>3, KeepBurstTypes, TypeInvSplit
<1>7. CASE Open2Write
  <2>1. EdgeTyped'
    BY <1>7, <1>t, <1>n, EdgeTypes DEF Open2Write
  <2>2. KeepBurst /\ CountRefresh
    BY <1>7 DEF Open2Write
  <2>3. FsmTyped'
    BY <1>7, <1>t, <2>2, KeepBurstTypes, CountRefreshTypes
    DEF Open2Write, FsmTyped, TypeOK, State, grant, spacing
  <2> QED
    BY <2>1, <2>2, <2>3, KeepBurstTypes, TypeInvSplit
<1>8. CASE Open2Read
  <2>1. [kind |-> "random", id |-> cur] \in Tag
    BY <1>t, SdramAssumption DEF TypeOK, Tag, Client
  <2>2. EdgeTyped'
    BY <1>8, <1>t, <2>1, EdgeTypes DEF Open2Read
  <2>3. KeepBurst /\ CountRefresh
    BY <1>8 DEF Open2Read
  <2>4. FsmTyped'
    BY <1>8, <1>t, <2>3, KeepBurstTypes, CountRefreshTypes
    DEF Open2Read, FsmTyped, TypeOK, State, grant, spacing
  <2> QED
    BY <2>2, <2>3, <2>4, KeepBurstTypes, TypeInvSplit
<1>9. CASE Wait
  <2>1. EdgeTyped'
    BY <1>9, <1>t, <1>n, EdgeTypes DEF Wait
  <2>2. KeepBurst /\ CountRefresh
    BY <1>9 DEF Wait
  <2>3. /\ state' \in State \ {"BEND"} /\ state # "BEND"
        /\ state' \in {"BOPEN1", "BOPEN2", "BREAD"} => state \in {"BOPEN1", "BOPEN2"}
    BY <1>9 DEF Wait, Following, State
  <2>4. FsmTyped'
    BY <1>9, <1>t, <2>2, <2>3, KeepBurstTypes, CountRefreshTypes
    DEF Wait, FsmTyped, TypeOK, BurstInv, grant, spacing
  <2> QED
    BY <2>1, <2>2, <2>4, KeepBurstTypes, TypeInvSplit
<1>10. CASE RefreshWait
  <2>1. EdgeTyped'
    BY <1>10, <1>t, <1>n, EdgeTypes DEF RefreshWait
  <2>2. KeepBurst /\ CountRefresh
    BY <1>10 DEF RefreshWait
  <2>3. wait_n' \in 0 .. 7
    BY <1>10, <1>t, <1>z DEF RefreshWait, TypeOK
  <2>4. FsmTyped'
    BY <1>10, <1>t, <2>2, <2>3, KeepBurstTypes, CountRefreshTypes
    DEF RefreshWait, FsmTyped, TypeOK, State, grant, spacing
  <2> QED
    BY <2>1, <2>2, <2>4, KeepBurstTypes, TypeInvSplit
<1>11. CASE BurstWord
  <2>1. EdgeTyped'
    <3>1. [kind |-> "burst", id |-> b_issued] \in Tag
      BY <1>t DEF TypeOK, Tag
    <3> QED
      BY <1>11, <1>t, <1>n, <3>1, EdgeTypes DEF BurstWord
  <2>2. /\ b_active = TRUE /\ b_remain >= 1 /\ b_remain \in 0 .. MaxLen
        /\ b_issued \in 0 .. MaxLen /\ b_issued + b_remain <= MaxLen
        /\ b_chunk \in 0 .. BURST_CHUNK - 1 /\ b_next \in Addr /\ b_yield \in BOOLEAN
    BY <1>11, <1>t, SdramAssumption DEF BurstWord, BurstInv, TypeOK
  <2>3. (b_next + 1) % AddrSize \in Addr
    <3>1. b_next + 1 \in Int /\ AddrSize \in Nat \ {0}
      BY <2>2, SdramAssumption DEF Addr
    <3> QED
      BY <3>1, ModRange DEF Addr
  <2>4. b_remain - 1 \in 0 .. MaxLen /\ b_issued + 1 \in 0 .. MaxLen
    BY <2>2, SdramAssumption
  <2>5. BurstTyped' /\ b_active' /\ b_remain' = b_remain - 1
    <3>1. BurstRegs(b_active, (b_next + 1) % AddrSize, b_remain - 1, b_issued + 1, b_yield)
      BY <1>11 DEF BurstWord
    <3>2. (b_issued + 1) + (b_remain - 1) <= MaxLen /\ b_active \in BOOLEAN
      BY <2>2, SdramAssumption
    <3> QED
      BY <1>t, <2>2, <2>3, <2>4, <3>1, <3>2, BurstRegsTypes
  <2>6. CountRefresh
    BY <1>11 DEF BurstWord
  <2>7. FsmTyped'
    <3>1. CASE EndOfChunk
      BY <1>11, <1>t, <2>2, <2>5, <2>6, <3>1, CountRefreshTypes, SdramAssumption
      DEF BurstWord, FsmTyped, TypeOK, State, grant
    <3>2. CASE ~EndOfChunk
      <4>1. b_remain # 1 /\ b_chunk # BURST_CHUNK - 1
        BY <3>2 DEF EndOfChunk
      <4>2. b_remain' >= 1 /\ b_chunk' < BURST_CHUNK /\ b_chunk' \in 0 .. BURST_CHUNK
        BY <1>11, <2>2, <2>5, <4>1, SdramAssumption DEF BurstWord
      <4> QED
        BY <1>11, <1>t, <2>5, <2>6, <3>2, <4>2, CountRefreshTypes
        DEF BurstWord, FsmTyped, TypeOK, fsm, grant
    <3> QED
      BY <3>1, <3>2
  <2> QED
    BY <2>1, <2>5, <2>7, TypeInvSplit
<1>12. CASE BurstGap
  <2>1. EdgeTyped'
    BY <1>12, <1>t, <1>n, EdgeTypes DEF BurstGap
  <2>2. KeepBurst /\ CountRefresh
    BY <1>12 DEF BurstGap
  <2>3. FsmTyped'
    BY <1>12, <1>t, <2>2, KeepBurstTypes, CountRefreshTypes
    DEF BurstGap, FsmTyped, TypeOK, BurstInv, fsm, grant
  <2> QED
    BY <2>1, <2>2, <2>3, KeepBurstTypes, TypeInvSplit
<1>13. CASE BurstEnd
  <2>1. wait_n' \in 0 .. 7 /\ CountRefresh
    BY <1>13, <1>t, <1>z DEF BurstEnd, TypeOK
  <2>2. CASE wait_n = 0
    <3>1. EdgeTyped'
      BY <1>13, <1>t, <1>n, <2>2, EdgeTypes DEF BurstEnd
    <3>2. /\ b_active /\ b_active \in BOOLEAN /\ (b_active /\ b_remain # 0) \in BOOLEAN
          /\ BurstRegs(b_active /\ b_remain # 0, b_next, b_remain, b_issued, TRUE)
      BY <1>13, <1>t, <2>2 DEF BurstEnd, BurstInv, TypeOK
    <3>3. ~AcceptBurst
      BY <3>2 DEF AcceptBurst
    <3>4. b_active' = (b_active /\ b_remain # 0) /\ b_remain' = b_remain
      BY <3>2, <3>3 DEF BurstRegs
    <3>5. BurstTyped'
      BY <1>t, <3>2, BurstRegsTypes DEF TypeOK, BurstInv
    <3>6. b_active' => b_remain' >= 1
      <4>1. b_remain = 0 => ~b_active'
        BY <3>4
      <4>2. b_remain # 0 => b_remain' >= 1
        BY <1>t, <3>4, SdramAssumption DEF TypeOK
      <4> QED
        BY <4>1, <4>2
    <3>7. FsmTyped'
      BY <1>13, <1>t, <2>1, <2>2, <3>6, CountRefreshTypes
      DEF BurstEnd, FsmTyped, TypeOK, State, ClosingWait, grant, spacing
    <3> QED
      BY <3>1, <3>5, <3>7, TypeInvSplit
  <2>3. CASE wait_n # 0
    <3>1. EdgeTyped'
      BY <1>13, <1>t, <1>n, <2>3, EdgeTypes DEF BurstEnd
    <3>2. KeepBurst /\ state' = "BEND" /\ state = "BEND" /\ b_active
      BY <1>13, <1>t, <2>3 DEF BurstEnd, BurstInv
    <3>3. FsmTyped'
      BY <1>13, <1>t, <2>1, <3>2, KeepBurstTypes, CountRefreshTypes
      DEF BurstEnd, FsmTyped, TypeOK, State, grant, spacing
    <3> QED
      BY <3>1, <3>2, <3>3, KeepBurstTypes, TypeInvSplit
  <2> QED
    BY <2>2, <2>3
<1>14. CASE UNCHANGED vars
  BY <1>14, <1>t DEF vars, fsm, refresh, grant, burst, spacing, outputs, ports,
     TypeInv, TypeOK, BurstInv
<1> QED
  BY <1>1, <1>2, <1>3, <1>4, <1>5, <1>6, <1>7, <1>8, <1>9, <1>10, <1>11, <1>12, <1>13, <1>14
  DEF Next

(* Every register keeps to its width, whatever the clients and bursts do:   *)
(* in particular a burst never fetches more words than it was asked for.    *)
THEOREM TypeCorrect == Spec => []TypeOK
<1>1. TypeInv => TypeOK
  BY DEF TypeInv
<1> QED
  BY <1>1, TypeInit, TypeStep, PTL DEF Spec

-----------------------------------------------------------------------------
(* One access per request.  While no reset cuts requests off, a read in     *)
(* flight is the access of cur, its tag advances in step with the waits of  *)
(* the FSM (Flight), and an acknowledge can only be up in the states that   *)
(* follow: the grant of S_IDLE may meet one, and masks it.                  *)
Waits == {"WAIT5", "WAIT4", "WAIT3", "WAIT2", "WAIT1"}

(* The stage a random read's tag is in while the FSM is in state s.         *)
Flight(s) == CASE s = "WAIT5" -> TagStage
               [] s = "WAIT4" -> TagStage - 1
               [] s = "WAIT3" -> TagStage - 2
               [] s = "WAIT2" -> TagStage - 3
               [] s = "WAIT1" -> TagStage - 4
               [] OTHER -> -1

AccessInv ==
  /\ state \in {"ARB", "OPEN1", "OPEN2"} => c_req[cur] /\ ~c_ack[cur]
  /\ state \in {"OPEN1", "OPEN2"} => cur_cmd = c_cmd[cur]
  /\ \A k \in Stage : cap[k].kind = "random" =>
        k = Flight(state) /\ cap[k].id = cur /\ c_req[cur] /\ ~c_ack[cur]
  /\ \A i \in Client : c_ack[i] => i = cur /\ c_req[i] /\ state \in {"IDLE", "WAIT1", "WAIT3"}

OwnTag(i) == [kind |-> "random", id |-> i]

(* What an edge does to the tags, the acknowledges and the requests: a read *)
(* in flight was issued on this edge or was one stage further before it.    *)
AccessMoves(tag, wack) ==
  /\ \A k \in Stage : cap'[k].kind = "random" =>
        \/ k = TagStage /\ cap'[k] = tag
        \/ k # 4 /\ k + 1 \in Stage /\ cap'[k] = cap[k + 1]
  /\ \A i \in Client : c_ack'[i] => (i \in wack \/ cap[0] = OwnTag(i))
  /\ \A i \in Client : c_req[i] /\ ~c_ack[i] => c_req'[i]
  /\ \A i \in Client : c_req[i] => c_cmd'[i] = c_cmd[i]

LEMMA EdgeAccess ==
  ASSUME Resets = FALSE, Bench = FALSE, NEW cmd, NEW tag, NEW wack, Edge(cmd, tag, wack)
  PROVE  AccessMoves(tag, wack)
<1>1. Capture(tag, wack) /\ RandomPorts(FALSE)
  BY DEF Edge, Ports, MachinePorts
<1>2. \A k \in Stage : cap'[k] = IF k = TagStage /\ tag # NoTag THEN tag
                                 ELSE IF k = 4 THEN NoTag ELSE cap[k + 1]
  BY <1>1 DEF Capture, Shifted
<1>3. \A k \in Stage : cap'[k].kind = "random" =>
        \/ k = TagStage /\ cap'[k] = tag
        \/ k # 4 /\ k + 1 \in Stage /\ cap'[k] = cap[k + 1]
  BY <1>2 DEF NoTag, Stage
<1>4. \A i \in Client : c_ack'[i] = (i \in wack \/ cap[0] = OwnTag(i))
  BY <1>1 DEF Capture, OwnTag
<1>5. \A i \in Client : c_ack'[i] => (i \in wack \/ cap[0] = OwnTag(i))
  BY <1>4
<1>6. /\ \A i \in Client : c_req[i] /\ ~c_ack[i] => c_req'[i]
      /\ \A i \in Client : c_req[i] => c_cmd'[i] = c_cmd[i]
  BY <1>1 DEF RandomPorts
<1> QED
  BY <1>3, <1>5, <1>6 DEF AccessMoves

(* Where no read is in flight and none is issued, none is afterwards.       *)
QuietAfter(wack) ==
  /\ \A k \in Stage : cap'[k].kind # "random"
  /\ \A i \in Client : c_ack'[i] => i \in wack

LEMMA EdgeQuiet ==
  ASSUME Resets = FALSE, Bench = FALSE, AccessInv, state \in State \ Waits,
         NEW cmd, NEW tag, tag.kind # "random", NEW wack, Edge(cmd, tag, wack)
  PROVE  QuietAfter(wack)
<1>1. \A k \in Stage : cap[k].kind # "random"
  BY DEF AccessInv, Flight, Waits, Stage
<1>2. 0 \in Stage /\ \A i : OwnTag(i).kind = "random"
  BY DEF Stage, OwnTag
<1>3. AccessMoves(tag, wack)
  BY EdgeAccess
<1>4. \A i : cap[0] # OwnTag(i)
  BY <1>1, <1>2
<1>5. \A k \in Stage : cap'[k].kind # "random"
  BY <1>1, <1>3 DEF AccessMoves
<1>6. \A i \in Client : c_ack'[i] => i \in wack
  BY <1>3, <1>4 DEF AccessMoves
<1> QED
  BY <1>5, <1>6 DEF QuietAfter

LEMMA AccessInit ==
  Init => AccessInv
<1> SUFFICES ASSUME Init PROVE AccessInv
  OBVIOUS
<1>1. \A k \in Stage : cap[k].kind # "random"
  BY DEF Init, NoTag
<1>2. \A i \in Client : ~c_ack[i]
  BY DEF Init
<1>3. state = "STARTUP"
  BY DEF Init
<1> QED
  BY <1>1, <1>2, <1>3 DEF AccessInv

LEMMA AccessStep ==
  ASSUME Resets = FALSE, Bench = FALSE
  PROVE  TypeInv /\ AccessInv /\ [Next]_vars => AccessInv'
<1> SUFFICES ASSUME TypeInv, AccessInv, [Next]_vars PROVE AccessInv'
  OBVIOUS
<1>t. TypeOK
  BY DEF TypeInv
<1>n. NoTag.kind # "random"
  BY DEF NoTag
<1>q. ASSUME state \in State \ Waits, state' \notin {"ARB", "OPEN1", "OPEN2"},
             NEW cmd, NEW tag, tag.kind # "random", Edge(cmd, tag, {})
      PROVE  AccessInv'
  <2>1. QuietAfter({})
    BY <1>q, EdgeQuiet
  <2>2. /\ \A k \in Stage : cap'[k].kind # "random"
        /\ \A i \in Client : ~c_ack'[i]
    BY <2>1 DEF QuietAfter
  <2> QED
    BY <1>q, <2>1, <2>2 DEF AccessInv
<1>1. CASE Startup
  BY <1>1, <1>n, <1>q DEF Startup, State, Waits
<1>2. CASE IdleRefresh
  BY <1>2, <1>n, <1>q DEF IdleRefresh, State, Waits
<1>3. CASE IdleOpenBurst
  BY <1>3, <1>n, <1>q DEF IdleOpenBurst, State, Waits
<1>4. CASE IdleGrant
  <2>1. /\ state \in State \ Waits /\ Edge(NoCmd, NoTag, {}) /\ any_req
        /\ state' = "ARB" /\ cur' = pick
    BY <1>4 DEF IdleGrant, State, Waits
  <2>m. AccessMoves(NoTag, {})
    BY <2>1, EdgeAccess
  <2>2. pick \in Client /\ c_req[pick] /\ ~c_ack[pick]
    BY <1>t, <2>1, PickPending DEF TypeOK, Pending
  <2>3. QuietAfter({})
    BY <1>n, <2>1, EdgeQuiet
  <2>4. /\ \A k \in Stage : cap'[k].kind # "random"
        /\ \A i \in Client : ~c_ack'[i]
    BY <2>3 DEF QuietAfter
  <2>5. c_req'[pick]
    BY <2>1, <2>2, <2>m DEF AccessMoves
  <2> QED
    BY <2>1, <2>2, <2>3, <2>4, <2>5 DEF AccessInv
<1>5. CASE IdleNothing
  BY <1>5, <1>n, <1>q DEF IdleNothing, State, Waits, fsm
<1>6. CASE Arb
  <2>1. /\ state = "ARB" /\ state \in State \ Waits /\ state' = "OPEN1"
        /\ Edge(ACTIVE(c_cmd[cur].addr), NoTag, {})
        /\ cur' = cur /\ cur_cmd' = c_cmd[cur]
    BY <1>6 DEF Arb, State, Waits
  <2>m. AccessMoves(NoTag, {})
    BY <2>1, EdgeAccess
  <2>2. cur \in Client /\ c_req[cur] /\ ~c_ack[cur]
    BY <1>t, <2>1 DEF AccessInv, TypeOK
  <2>3. QuietAfter({})
    BY <1>n, <2>1, EdgeQuiet
  <2>4. /\ \A k \in Stage : cap'[k].kind # "random"
        /\ \A i \in Client : ~c_ack'[i]
    BY <2>3 DEF QuietAfter
  <2>5. c_req'[cur] /\ c_cmd'[cur] = c_cmd[cur]
    BY <2>1, <2>2, <2>m DEF AccessMoves
  <2> QED
    BY <2>1, <2>2, <2>3, <2>4, <2>5 DEF AccessInv
<1>7. CASE Open2Write
  <2>1. /\ state = "OPEN2" /\ state \in State \ Waits /\ state' = "WAIT3" /\ cur' = cur
        /\ \E cmd : Edge(cmd, NoTag, {cur})
    BY <1>7 DEF Open2Write, State, Waits, grant
  <2>m. AccessMoves(NoTag, {cur})
    BY <2>1, EdgeAccess
  <2>2. cur \in Client /\ c_req[cur] /\ ~c_ack[cur]
    BY <1>t, <2>1 DEF AccessInv, TypeOK
  <2>3. QuietAfter({cur})
    BY <1>n, <2>1, EdgeQuiet
  <2>4. /\ \A k \in Stage : cap'[k].kind # "random"
        /\ \A i \in Client : c_ack'[i] => i = cur
    BY <2>3 DEF QuietAfter
  <2>5. c_req'[cur]
    BY <2>1, <2>2, <2>m DEF AccessMoves
  <2> QED
    BY <2>1, <2>2, <2>3, <2>4, <2>5 DEF AccessInv
<1>8. CASE Open2Read
  <2>1. /\ state = "OPEN2" /\ state' = "WAIT5" /\ cur' = cur
        /\ \E cmd : Edge(cmd, OwnTag(cur), {})
    BY <1>8 DEF Open2Read, grant, OwnTag
  <2>m. AccessMoves(OwnTag(cur), {})
    BY <2>1, EdgeAccess
  <2>2. cur \in Client /\ c_req[cur] /\ ~c_ack[cur]
    BY <1>t, <2>1 DEF AccessInv, TypeOK
  <2>3. \A k \in Stage : cap[k].kind # "random"
    BY <2>1 DEF AccessInv, Flight, Stage
  <2>4. \A k \in Stage : k # 4 => k + 1 \in Stage
    BY DEF Stage
  <2>5. \A k \in Stage : cap'[k].kind = "random" => k = TagStage /\ cap'[k] = OwnTag(cur)
    BY <1>n, <2>1, <2>3, <2>4, <2>m DEF AccessMoves
  <2>6. \A i \in Client : ~c_ack'[i]
    <3>1. 0 \in Stage /\ \A i : OwnTag(i).kind = "random"
      BY DEF Stage, OwnTag
    <3> QED
      BY <2>1, <2>3, <3>1, <2>m DEF AccessMoves
  <2>7. c_req'[cur]
    BY <2>1, <2>2, <2>m DEF AccessMoves
  <2>8. OwnTag(cur).id = cur /\ Flight(state') = TagStage
    BY <2>1 DEF OwnTag, Flight
  <2> QED
    BY <2>1, <2>2, <2>5, <2>6, <2>7, <2>8 DEF AccessInv, Flight, TagStage
<1>9. CASE Wait
  <2>1. /\ state' = Following[state] /\ state \in {"OPEN1", "BOPEN1", "BOPEN2"} \cup Waits
        /\ Edge(NoCmd, NoTag, {}) /\ cur' = cur /\ cur_cmd' = cur_cmd
    BY <1>9 DEF Wait, Following, Waits, grant
  <2>m. AccessMoves(NoTag, {})
    BY <2>1, EdgeAccess
  <2>2. CASE state = "OPEN1"
    <3>1. state' = "OPEN2" /\ state \in State \ Waits
      BY <2>1, <2>2 DEF Following, State, Waits
    <3>2. cur \in Client /\ c_req[cur] /\ ~c_ack[cur] /\ cur_cmd = c_cmd[cur]
      BY <1>t, <2>2 DEF AccessInv, TypeOK
    <3>3. QuietAfter({})
      BY <1>n, <2>1, <3>1, EdgeQuiet
    <3>4. /\ \A k \in Stage : cap'[k].kind # "random"
          /\ \A i \in Client : ~c_ack'[i]
      BY <3>3 DEF QuietAfter
    <3>5. c_req'[cur] /\ c_cmd'[cur] = c_cmd[cur]
      BY <2>1, <3>2, <2>m DEF AccessMoves
    <3> QED
      BY <2>1, <3>1, <3>2, <3>3, <3>4, <3>5 DEF AccessInv
  <2>3. CASE state \in {"BOPEN1", "BOPEN2"}
    <3>1. state' \in {"BOPEN2", "BREAD"} /\ state \in State \ Waits
      BY <2>1, <2>3 DEF Following, State, Waits
    <3> QED
      BY <1>n, <1>q, <2>1, <3>1
  <2>4. CASE state \in Waits
    <3>1. /\ state' \in (Waits \cup {"IDLE"}) \ {"WAIT5"}
          /\ \A k \in Stage : k = Flight(state) /\ k # 0 => k - 1 = Flight(state')
          /\ 0 = Flight(state) => state' \in {"IDLE", "WAIT1"}
      BY <2>1, <2>4 DEF Following, Waits, Flight, TagStage, Stage
    <3>2. \A k \in Stage : k # 4 => k + 1 \in Stage /\ (k + 1) - 1 = k /\ k + 1 # 0
      BY DEF Stage
    <3>3. \A k \in Stage : cap'[k].kind = "random" =>
             k + 1 \in Stage /\ cap[k + 1].kind = "random" /\ cap'[k] = cap[k + 1] /\ k # 4
      BY <1>n, <2>1, <3>2, <2>m DEF AccessMoves
    <3>4. \A k \in Stage : cap'[k].kind = "random" =>
             k = Flight(state') /\ cap'[k].id = cur /\ c_req[cur] /\ ~c_ack[cur]
                /\ cap[0].kind # "random"
      <4> SUFFICES ASSUME NEW k \in Stage, cap'[k].kind = "random"
                   PROVE  k = Flight(state') /\ cap'[k].id = cur /\ c_req[cur]
                          /\ ~c_ack[cur] /\ cap[0].kind # "random"
        OBVIOUS
      <4>1. k + 1 = Flight(state) /\ cap'[k].id = cur /\ c_req[cur] /\ ~c_ack[cur]
        BY <3>3 DEF AccessInv
      <4>2. k = Flight(state')
        BY <3>1, <3>2, <3>3, <4>1
      <4>3. 0 \in Stage /\ 0 # Flight(state)
        BY <3>2, <3>3, <4>1 DEF Stage
      <4>4. cap[0].kind # "random"
        BY <4>3 DEF AccessInv
      <4> QED
        BY <4>1, <4>2, <4>4
    <3>5. \A i \in Client : c_ack'[i] =>
             i = cur /\ c_req[i] /\ ~c_ack[i] /\ state' \in {"IDLE", "WAIT1"}
      <4> SUFFICES ASSUME NEW i \in Client, c_ack'[i]
                   PROVE  i = cur /\ c_req[i] /\ ~c_ack[i] /\ state' \in {"IDLE", "WAIT1"}
        OBVIOUS
      <4>1. cap[0] = OwnTag(i)
        BY <2>1, <2>m DEF AccessMoves
      <4>2. 0 \in Stage /\ cap[0].kind = "random" /\ cap[0].id = i
        BY <4>1 DEF Stage, OwnTag
      <4>3. 0 = Flight(state) /\ i = cur /\ c_req[cur] /\ ~c_ack[cur]
        BY <4>2 DEF AccessInv
      <4> QED
        BY <3>1, <4>3
    <3>6. cur \in Client
      BY <1>t DEF TypeOK
    <3>7. \A k \in Stage : cap'[k].kind = "random" => c_req'[cur] /\ ~c_ack'[cur]
      <4> SUFFICES ASSUME NEW k \in Stage, cap'[k].kind = "random"
                   PROVE  c_req'[cur] /\ ~c_ack'[cur]
        OBVIOUS
      <4>1. c_req[cur] /\ ~c_ack[cur] /\ cap[0].kind # "random"
        BY <3>4
      <4>2. cap[0] # OwnTag(cur)
        BY <4>1 DEF OwnTag
      <4> QED
        BY <2>1, <3>6, <4>1, <4>2, <2>m DEF AccessMoves
    <3>8. \A i \in Client : c_ack'[i] => c_req'[i]
      BY <2>1, <3>5, <2>m DEF AccessMoves
    <3>9. state' \notin {"ARB", "OPEN1", "OPEN2"}
      BY <3>1 DEF Waits
    <3> QED
      BY <2>1, <3>4, <3>5, <3>7, <3>8, <3>9 DEF AccessInv
  <2> QED
    BY <2>1, <2>2, <2>3, <2>4
<1>10. CASE RefreshWait
  BY <1>10, <1>n, <1>q DEF RefreshWait, State, Waits
<1>11. CASE BurstWord
  <2>1. /\ state \in State \ Waits /\ state' \in {"BREAD", "BEND"}
        /\ \E cmd, tag : tag.kind # "random" /\ Edge(cmd, tag, {})
    BY <1>11, <1>n DEF BurstWord, State, Waits, fsm
  <2> QED
    BY <1>q, <2>1
<1>12. CASE BurstGap
  BY <1>12, <1>n, <1>q DEF BurstGap, State, Waits, fsm
<1>13. CASE BurstEnd
  <2>1. /\ state \in State \ Waits /\ state' \in {"BEND", "WAIT5", "WAIT2"}
        /\ \E cmd : Edge(cmd, NoTag, {})
    BY <1>13 DEF BurstEnd, State, Waits, ClosingWait
  <2> QED
    BY <1>n, <1>q, <2>1
<1>14. CASE UNCHANGED vars
  BY <1>14 DEF vars, fsm, grant, outputs, ports, AccessInv, Flight
<1> QED
  BY <1>1, <1>2, <1>3, <1>4, <1>5, <1>6, <1>7, <1>8, <1>9, <1>10, <1>11, <1>12, <1>13, <1>14
  DEF Next

LEMMA AccessImplies ==
  TypeInv /\ AccessInv => OneAccessPerRequest
<1> SUFFICES ASSUME TypeInv, AccessInv, NEW i \in Client
             PROVE  /\ Committed(i) => c_req[i] /\ ~Tagged(i) /\ ~c_ack[i]
                    /\ Tagged(i) => c_req[i] /\ ~c_ack[i]
                    /\ c_ack[i] => c_req[i]
                    /\ Committed(i) /\ state # "ARB" => cur_cmd = c_cmd[i]
  BY DEF OneAccessPerRequest
<1>1. Tagged(i) => i = cur /\ c_req[i] /\ ~c_ack[i] /\ state \in Waits
  <2> SUFFICES ASSUME NEW k \in Stage, cap[k] = OwnTag(i)
               PROVE  i = cur /\ c_req[i] /\ ~c_ack[i] /\ state \in Waits
    BY DEF Tagged, OwnTag
  <2>1. cap[k].kind = "random" /\ cap[k].id = i
    BY DEF OwnTag
  <2> QED
    BY <2>1 DEF AccessInv, Flight, Waits, Stage
<1> QED
  BY <1>1 DEF AccessInv, Committed, Waits

(* Without machine resets, every request is one access: the client that is  *)
(* granted is still asking, nothing is granted twice, and no acknowledge or *)
(* word goes to anyone else -- for any number of clients.                   *)
THEOREM OneAccess ==
  ASSUME Resets = FALSE, Bench = FALSE
  PROVE  Spec => []OneAccessPerRequest
<1>1. Init => TypeInv /\ AccessInv
  BY TypeInit, AccessInit
<1>2. TypeInv /\ AccessInv /\ [Next]_vars => (TypeInv /\ AccessInv)'
  BY TypeStep, AccessStep
<1> QED
  BY <1>1, <1>2, AccessImplies, PTL DEF Spec

-----------------------------------------------------------------------------
(* Refreshes come in time.  Away is the number of clocks the controller can *)
(* have spent since it left S_IDLE with no refresh due; the refresh counter *)
(* exceeds its limit by no more than that.                                  *)
Away ==
  CASE state = "ARB"    -> 1
    [] state = "OPEN1"  -> 2
    [] state = "OPEN2"  -> 3
    [] state = "BOPEN1" -> 1
    [] state = "BOPEN2" -> 2
    [] state = "BREAD"  -> 3 + b_chunk * Gap - b_gap
    [] state = "BEND"   -> 5 + (BURST_CHUNK - 1) * Gap - wait_n
    [] state = "WAIT5"  -> LongestService - 5
    [] state = "WAIT4"  -> LongestService - 4
    [] state = "WAIT3"  -> LongestService - 3
    [] state = "WAIT2"  -> LongestService - 2
    [] state = "WAIT1"  -> LongestService - 1
    [] state = "REF"    -> 5 - wait_n - CYCLES_PER_REFRESH
    [] OTHER            -> LongestService

RefreshInv ==
  /\ ready /\ refresh_count > CYCLES_PER_REFRESH + 1 => refresh_due
  /\ ready => refresh_count <= CYCLES_PER_REFRESH + 1 + Away
  /\ state = "BEND" => wait_n <= 1
  /\ state = "REF" => wait_n <= 6
  /\ state \in {"BOPEN1", "BOPEN2"} => b_chunk = 0 /\ b_gap = 0
  /\ state = "BREAD" => b_gap <= Gap - 1

(* The clocks of a service: sums that stay linear once Gap is known. *)
LEMMA ServiceClocks ==
  ASSUME NEW n \in Nat, n < BURST_CHUNK
  PROVE  /\ Gap \in {2, 5} /\ n * Gap \in Nat
         /\ (n + 1) * Gap = n * Gap + Gap
         /\ n * Gap <= (BURST_CHUNK - 1) * Gap
         /\ (BURST_CHUNK - 1) * Gap \in Nat
         /\ LongestService \in Nat
         /\ LongestService >= 9 /\ LongestService >= 11 + (BURST_CHUNK - 1) * Gap
<1>1. CASE burst_slow
  <2>1. Gap = 5
    BY <1>1 DEF Gap
  <2> QED
    BY <2>1, SdramAssumption DEF LongestService, Later
<1>2. CASE ~burst_slow
  <2>1. Gap = 2
    BY <1>2 DEF Gap
  <2> QED
    BY <2>1, SdramAssumption DEF LongestService, Later
<1> QED
  BY <1>1, <1>2

(* The counter advances by one or wraps, and is seen due a clock later. *)
LEMMA Counted ==
  ASSUME TypeOK, CountRefresh
  PROVE  /\ refresh_count' <= refresh_count + 1
         /\ refresh_count' > CYCLES_PER_REFRESH + 1 => refresh_due'
<1> DEFINE M == REFRESH_MAX + 1
<1>1. refresh_count \in 0 .. M - 1 /\ M \in Nat \ {0} /\ CYCLES_PER_REFRESH \in Nat
  BY SdramAssumption DEF TypeOK
<1>2. refresh_count + 1 < M => (refresh_count + 1) % M = refresh_count + 1
  BY <1>1
<1>3. refresh_count + 1 = M => (refresh_count + 1) % M = 0
  BY <1>1
<1>4. refresh_count' = (refresh_count + 1) % M
  BY DEF CountRefresh
<1> HIDE DEF M
<1>5. refresh_count' = refresh_count + 1 \/ refresh_count' = 0
  BY <1>1, <1>2, <1>3, <1>4
<1>6. refresh_due' = (refresh_count > CYCLES_PER_REFRESH)
  BY DEF CountRefresh
<1>7. refresh_count' > CYCLES_PER_REFRESH + 1 => refresh_count > CYCLES_PER_REFRESH
  BY <1>1, <1>5
<1>8. refresh_count' <= refresh_count + 1
  BY <1>1, <1>5
<1>9. refresh_count' > CYCLES_PER_REFRESH + 1 => refresh_due'
  BY <1>6, <1>7
<1> QED
  BY <1>8, <1>9

LEMMA RefreshInit ==
  Init => RefreshInv
BY DEF Init, RefreshInv, ready

LEMMA RefreshStep ==
  TypeInv /\ TypeInv' /\ RefreshInv /\ [Next]_vars => RefreshInv'
<1> SUFFICES ASSUME TypeInv, TypeInv', RefreshInv, [Next]_vars PROVE RefreshInv'
  OBVIOUS
<1> DEFINE C == CYCLES_PER_REFRESH
           L == LongestService
           B == (BURST_CHUNK - 1) * Gap
<1>c. C \in Nat /\ BURST_CHUNK \in Nat \ {0}
  BY SdramAssumption
<1>l. /\ Gap \in {2, 5} /\ B \in Nat /\ L \in Nat /\ L >= 9 /\ L >= 11 + B
  <2>1. 0 \in Nat /\ 0 < BURST_CHUNK
    BY <1>c
  <2> QED
    BY <2>1, ServiceClocks
<1>t. /\ TypeOK /\ TypeOK'
      /\ refresh_count \in Nat /\ refresh_count' \in Nat
      /\ b_gap \in 0 .. 4 /\ b_gap' \in 0 .. 4 /\ wait_n \in 0 .. 7 /\ wait_n' \in 0 .. 7
  BY SdramAssumption DEF TypeInv, TypeOK
<1>k. CountRefresh => /\ refresh_count' <= refresh_count + 1
                      /\ refresh_count' > C + 1 => refresh_due'
  BY <1>t, Counted
<1>i. state = "IDLE" /\ ~refresh_due => refresh_count <= C + 1
  BY <1>c, <1>t DEF RefreshInv, ready
<1>1. CASE Startup
  <2>1. CASE refresh_count = 0
    <3>1. state' = "IDLE" /\ refresh_count' <= 1
      BY <1>1, <1>t, <1>k, <2>1 DEF Startup
    <3>2. Away' = L
      BY <3>1 DEF Away
    <3> HIDE DEF L
    <3> QED
      BY <1>c, <1>t, <1>l, <3>1, <3>2 DEF RefreshInv
  <2>2. CASE refresh_count # 0
    BY <1>1, <2>2 DEF Startup, RefreshInv, ready
  <2> QED
    BY <2>1, <2>2
<1>2. CASE IdleRefresh
  <2>1. state' = "REF" /\ wait_n' = 6 /\ refresh_count' = 0
    BY <1>2 DEF IdleRefresh
  <2>2. Away' = 5 - wait_n' - C
    BY <2>1 DEF Away
  <2> QED
    BY <1>c, <2>1, <2>2 DEF RefreshInv
<1>3. CASE IdleOpenBurst
  <2>1. /\ state' = "BOPEN1" /\ state = "IDLE" /\ ~refresh_due /\ CountRefresh
        /\ b_chunk' = 0 /\ b_gap' = 0
    BY <1>3 DEF IdleOpenBurst
  <2>2. Away' = 1
    BY <2>1 DEF Away
  <2> QED
    BY <1>c, <1>t, <1>k, <1>i, <2>1, <2>2 DEF RefreshInv
<1>4. CASE IdleGrant
  <2>1. state' = "ARB" /\ state = "IDLE" /\ ~refresh_due /\ CountRefresh
    BY <1>4 DEF IdleGrant
  <2>2. Away' = 1
    BY <2>1 DEF Away
  <2> QED
    BY <1>c, <1>t, <1>k, <1>i, <2>1, <2>2 DEF RefreshInv
<1>5. CASE IdleNothing
  <2>1. state' = "IDLE" /\ state = "IDLE" /\ ~refresh_due /\ CountRefresh
    BY <1>5 DEF IdleNothing, fsm
  <2>2. Away' = L
    BY <2>1 DEF Away
  <2> HIDE DEF L
  <2> QED
    BY <1>c, <1>l, <1>t, <1>k, <1>i, <2>1, <2>2 DEF RefreshInv
<1>6. CASE Arb
  <2>1. state' = "OPEN1" /\ state = "ARB" /\ CountRefresh
    BY <1>6 DEF Arb
  <2>2. Away' = 2 /\ Away = 1
    BY <2>1 DEF Away
  <2> QED
    BY <1>c, <1>t, <1>k, <2>1, <2>2 DEF RefreshInv, ready
<1>7. CASE Open2Write
  <2>1. state' = "WAIT3" /\ state = "OPEN2" /\ CountRefresh
    BY <1>7 DEF Open2Write
  <2>2. Away' = L - 3 /\ Away = 3
    BY <2>1 DEF Away
  <2> HIDE DEF L
  <2> QED
    BY <1>c, <1>l, <1>t, <1>k, <2>1, <2>2 DEF RefreshInv, ready
<1>8. CASE Open2Read
  <2>1. state' = "WAIT5" /\ state = "OPEN2" /\ CountRefresh
    BY <1>8 DEF Open2Read
  <2>2. Away' = L - 5 /\ Away = 3
    BY <2>1 DEF Away
  <2> HIDE DEF L
  <2> QED
    BY <1>c, <1>l, <1>t, <1>k, <2>1, <2>2 DEF RefreshInv, ready
<1>9. CASE Wait
  <2>1. /\ state' = Following[state] /\ state \in DOMAIN Following /\ CountRefresh
        /\ b_gap' = b_gap /\ b_chunk' = b_chunk
    BY <1>9 DEF Wait, spacing
  <2>2. CASE state = "BOPEN2"
    <3>1. state' = "BREAD" /\ Away = 2 /\ b_chunk' = 0 /\ b_gap' = 0
      BY <2>1, <2>2 DEF Following, Away, RefreshInv
    <3>2. Away' = 3 + 0 * Gap' - 0
      BY <3>1 DEF Away
    <3>3. Gap' = Gap
      BY DEF Gap
    <3>4. Away' = 3
      BY <1>l, <3>2, <3>3
    <3>5. refresh_count' <= C + 1 + Away' /\ b_gap' <= Gap' - 1
      BY <1>c, <1>l, <1>t, <1>k, <2>1, <2>2, <3>1, <3>3, <3>4 DEF RefreshInv, ready
    <3> QED
      BY <1>k, <2>1, <3>1, <3>5 DEF RefreshInv
  <2>3. CASE state = "BOPEN1"
    <3>1. state' = "BOPEN2" /\ Away = 1 /\ Away' = 2
      BY <2>1, <2>3 DEF Following, Away
    <3> QED
      BY <1>c, <1>t, <1>k, <2>1, <2>3, <3>1 DEF RefreshInv, ready
  <2>4. CASE state = "OPEN1"
    <3>1. state' = "OPEN2" /\ Away = 2 /\ Away' = 3
      BY <2>1, <2>4 DEF Following, Away
    <3> QED
      BY <1>c, <1>t, <1>k, <2>1, <2>4, <3>1 DEF RefreshInv, ready
  <2>5. CASE state \in Waits
    <3>1. state' \in (Waits \cup {"IDLE"}) \ {"WAIT5"}
      BY <2>1, <2>5 DEF Following, Waits
    <3>2. Away' = Away + 1 /\ Away \in Int
      <4>1. L \in Int
        BY <1>l
      <4> HIDE DEF L
      <4>2. LongestService' = L
        BY DEF L, LongestService, Gap, Later
      <4>3. LongestService = L
        BY DEF L
      <4> QED
        BY <2>1, <2>5, <4>1, <4>2, <4>3 DEF Away, Following, Waits
    <3> QED
      BY <1>c, <1>t, <1>k, <2>1, <2>5, <3>1, <3>2 DEF RefreshInv, ready, Waits
  <2> QED
    BY <2>1, <2>2, <2>3, <2>4, <2>5 DEF Following, Waits
<1>10. CASE RefreshWait
  <2>1. /\ state = "REF" /\ CountRefresh /\ wait_n' = (wait_n - 1) % 8 /\ wait_n <= 6
        /\ state' = IF wait_n = 0 THEN "IDLE" ELSE "REF"
    BY <1>10 DEF RefreshWait, RefreshInv
  <2>2. Away = 5 - wait_n - C /\ refresh_count <= C + 1 + Away
    BY <2>1 DEF Away, RefreshInv, ready
  <2>3. CASE wait_n = 0
    <3>1. state' = "IDLE" /\ refresh_count' <= 7
      BY <1>c, <1>t, <1>k, <2>1, <2>2, <2>3
    <3>2. Away' = L
      BY <3>1 DEF Away
    <3> HIDE DEF L
    <3> QED
      BY <1>c, <1>l, <1>t, <1>k, <2>1, <3>1, <3>2 DEF RefreshInv
  <2>4. CASE wait_n # 0
    <3>1. state' = "REF" /\ wait_n' = wait_n - 1
      BY <1>t, <2>1, <2>4
    <3>2. Away' = 5 - wait_n' - C
      BY <3>1 DEF Away
    <3> QED
      BY <1>c, <1>t, <1>k, <2>1, <2>2, <3>1, <3>2 DEF RefreshInv
  <2> QED
    BY <2>3, <2>4
<1>11. CASE BurstWord
  <2>1. /\ state = "BREAD" /\ CountRefresh /\ b_gap = 0
        /\ b_chunk' = b_chunk + 1 /\ b_gap' = Gap - 1
        /\ (state' = "BEND" /\ wait_n' = 1) \/ state' = "BREAD"
    BY <1>11 DEF BurstWord, Gap, fsm
  <2>2. b_chunk \in Nat /\ b_chunk < BURST_CHUNK
    BY <1>t, <1>c, <2>1 DEF TypeOK, TypeInv, BurstInv
  <2>3. /\ b_chunk * Gap \in Nat /\ (b_chunk + 1) * Gap = b_chunk * Gap + Gap
        /\ b_chunk * Gap <= B
    BY <2>2, ServiceClocks
  <2>4. Away = 3 + b_chunk * Gap - 0
    BY <2>1 DEF Away
  <2>5. refresh_count <= C + 1 + Away
    BY <2>1 DEF RefreshInv, ready
  <2>6. Gap' = Gap
    BY DEF Gap
  <2>7. CASE state' = "BREAD"
    <3>1. Away' = 3 + (b_chunk + 1) * Gap - (Gap - 1)
      BY <2>1, <2>6, <2>7 DEF Away
    <3>2. Away' = 4 + b_chunk * Gap
      BY <1>l, <2>3, <3>1
    <3>3. refresh_count' <= C + 1 + Away' /\ b_gap' <= Gap' - 1
      BY <1>c, <1>l, <1>t, <1>k, <2>1, <2>3, <2>4, <2>5, <2>6, <3>2
    <3> QED
      BY <1>k, <2>1, <2>7, <3>3 DEF RefreshInv
  <2>8. CASE state' = "BEND"
    <3>1. Away' = 5 + B - wait_n' /\ wait_n' = 1
      BY <2>1, <2>6, <2>8 DEF Away
    <3> HIDE DEF B
    <3>2. refresh_count' <= C + 1 + Away'
      BY <1>c, <1>l, <1>t, <1>k, <2>1, <2>3, <2>4, <2>5, <3>1
    <3> QED
      BY <1>k, <2>1, <2>8, <3>1, <3>2 DEF RefreshInv
  <2> QED
    BY <2>1, <2>7, <2>8
<1>12. CASE BurstGap
  <2>1. /\ state = "BREAD" /\ state' = "BREAD" /\ CountRefresh
        /\ b_chunk' = b_chunk /\ b_gap' = b_gap - 1 /\ b_gap # 0
    BY <1>12 DEF BurstGap, fsm
  <2>2. Gap' = Gap
    BY DEF Gap
  <2>3. b_chunk \in Nat /\ b_chunk < BURST_CHUNK
    BY <1>t, <1>c, <2>1 DEF TypeOK, TypeInv, BurstInv
  <2>4. b_chunk * Gap \in Nat
    BY <2>3, ServiceClocks
  <2>5. Away = 3 + b_chunk * Gap - b_gap /\ Away' = 3 + b_chunk * Gap - b_gap'
    BY <2>1, <2>2 DEF Away
  <2>6. refresh_count <= C + 1 + Away /\ b_gap <= Gap - 1
    BY <2>1 DEF RefreshInv, ready
  <2>7. refresh_count' <= C + 1 + Away' /\ b_gap' <= Gap' - 1
    BY <1>c, <1>l, <1>t, <1>k, <2>1, <2>2, <2>4, <2>5, <2>6
  <2> QED
    BY <1>k, <2>1, <2>7 DEF RefreshInv
<1>13. CASE BurstEnd
  <2>1. /\ state = "BEND" /\ CountRefresh /\ wait_n' = (wait_n - 1) % 8
        /\ wait_n = 0 => state' \in {"WAIT5", "WAIT2"}
        /\ wait_n # 0 => state' = "BEND"
    BY <1>13 DEF BurstEnd, ClosingWait
  <2>2. Away = 5 + B - wait_n /\ refresh_count <= C + 1 + Away /\ wait_n <= 1
    BY <2>1 DEF Away, RefreshInv, ready
  <2>3. CASE wait_n = 0
    <3>1. Away' \in {L - 5, L - 2} /\ state' \in {"WAIT5", "WAIT2"}
      BY <2>1, <2>3 DEF Away
    <3> HIDE DEF B, L
    <3>2. refresh_count' <= C + 1 + Away'
      BY <1>c, <1>l, <1>t, <1>k, <2>1, <2>2, <2>3, <3>1
    <3> QED
      BY <1>k, <2>1, <3>1, <3>2 DEF RefreshInv
  <2>4. CASE wait_n # 0
    <3>1. state' = "BEND" /\ wait_n' = wait_n - 1
      BY <1>t, <2>1, <2>4
    <3>2. Away' = 5 + B - wait_n'
      BY <3>1 DEF Away, Gap
    <3> HIDE DEF B
    <3>3. refresh_count' <= C + 1 + Away' /\ wait_n' <= 1
      BY <1>c, <1>l, <1>t, <1>k, <2>1, <2>2, <3>1, <3>2
    <3> QED
      BY <1>k, <2>1, <3>1, <3>3 DEF RefreshInv
  <2> QED
    BY <2>3, <2>4
<1>14. CASE UNCHANGED vars
  BY <1>14 DEF vars, fsm, refresh, spacing, RefreshInv, Away, ready, Gap, LongestService, Later
<1> QED
  BY <1>1, <1>2, <1>3, <1>4, <1>5, <1>6, <1>7, <1>8, <1>9, <1>10, <1>11, <1>12, <1>13, <1>14
  DEF Next

(* One service is the longest there is. *)
LEMMA AwayBounded ==
  ASSUME TypeInv, ready
  PROVE  Away \in Int /\ Away <= LongestService
<1>1. /\ CYCLES_PER_REFRESH \in Nat /\ b_gap \in Nat /\ wait_n \in Nat /\ b_chunk \in Nat
      /\ state \in State \ {"STARTUP"}
      /\ state = "BREAD" => b_chunk < BURST_CHUNK
  BY SdramAssumption DEF TypeInv, TypeOK, BurstInv, ready
<1>2. 0 \in Nat /\ 0 < BURST_CHUNK
  BY SdramAssumption
<1>3. /\ Gap \in {2, 5} /\ (BURST_CHUNK - 1) * Gap \in Nat
      /\ LongestService \in Nat /\ LongestService >= 9
      /\ LongestService >= 11 + (BURST_CHUNK - 1) * Gap
  BY <1>2, ServiceClocks
<1>4. state = "BREAD" => b_chunk * Gap \in Nat /\ b_chunk * Gap <= (BURST_CHUNK - 1) * Gap
  BY <1>1, ServiceClocks
<1>5. CASE state = "BREAD"
  <2>1. Away = 3 + b_chunk * Gap - b_gap
    BY <1>5 DEF Away
  <2> QED
    BY <1>1, <1>3, <1>4, <1>5, <2>1
<1>6. CASE state = "BEND"
  <2>1. Away = 5 + (BURST_CHUNK - 1) * Gap - wait_n
    BY <1>6 DEF Away
  <2> QED
    BY <1>1, <1>3, <1>6, <2>1
<1>7. CASE state \notin {"BREAD", "BEND"}
  <2>1. Away \in {1, 2, 3} \cup {LongestService - n : n \in 0 .. 5}
           \cup {5 - wait_n - CYCLES_PER_REFRESH}
    BY <1>1, <1>3, <1>7 DEF Away, State
  <2> QED
    BY <1>1, <1>3, <2>1
<1> QED
  BY <1>5, <1>6, <1>7

LEMMA RefreshImplies ==
  TypeInv /\ RefreshInv => RefreshBounded
<1> SUFFICES ASSUME TypeInv, RefreshInv, ready
             PROVE  refresh_count <= CYCLES_PER_REFRESH + 1 + LongestService
  BY DEF RefreshBounded
<1>1. CYCLES_PER_REFRESH \in Nat /\ refresh_count \in Nat /\ LongestService \in Nat
  <2>1. 0 \in Nat /\ 0 < BURST_CHUNK
    BY SdramAssumption
  <2> QED
    BY <2>1, SdramAssumption, ServiceClocks DEF TypeInv, TypeOK
<1> QED
  BY <1>1, AwayBounded DEF RefreshInv

(* A refresh is overdue by at most one service, whatever the clients and    *)
(* the burst client ask for: for every refresh interval, number of clients, *)
(* chunk size and word spacing.                                             *)
THEOREM RefreshInTime == Spec => []RefreshBounded
<1>1. Init => TypeInv /\ RefreshInv
  BY TypeInit, RefreshInit
<1>2. TypeInv /\ RefreshInv /\ [Next]_vars => (TypeInv /\ RefreshInv)'
  BY TypeStep, RefreshStep
<1> QED
  BY <1>1, <1>2, RefreshImplies, PTL DEF Spec
=============================================================================
