------------------------------ MODULE MemPort ------------------------------
(***************************************************************************)
(* What a random-access client of the SDRAM is promised (the "memory       *)
(* request interface" of docs/rtl-conventions.md): between the rise of its *)
(* request and its acknowledge, the request is carried out exactly once,   *)
(* at one instant, and a read returns the word stored at that instant.     *)
(* Nothing is said of arbitration, pipelines, bursts or refreshes.         *)
(***************************************************************************)
EXTENDS Integers

CONSTANTS Client,
          Requests,    \* Requests[i]: the accesses client i may ask for
          InitMem,     \* the memory at first
          BurstVal,    \* the words the burst client may write beside the ports
          NoPort       \* an idle port

VARIABLES mem, port

vars == <<mem, port>>

Nobody == -1

Result(cmd) == IF cmd.we THEN cmd.data ELSE mem[cmd.addr]

(* What one port may do in a step in which client s, if any, is served.     *)
PortStep(i, s, new) ==
    LET p == port[i] IN
    \/ p.phase = "idle" /\ i # s /\ new = p
    \/ p.phase = "idle" /\ i # s /\ \E cmd \in Requests[i] :
                                       new = [phase |-> "wait", cmd |-> cmd, val |-> NoPort.val]
    \/ p.phase = "wait" /\ i # s /\ new = p
    \/ p.phase = "wait" /\ i = s /\ \E ph \in {"served", "acked"} :
                                       new = [p EXCEPT !.phase = ph, !.val = Result(p.cmd)]
    \/ p.phase = "served" /\ i # s /\ (new = p \/ new = [p EXCEPT !.phase = "acked"])
    \/ p.phase = "acked" /\ i # s /\ new = NoPort

Stored(s) ==
    IF s = Nobody
    THEN mem' = mem \/ \E a \in DOMAIN mem, v \in BurstVal : mem' = [mem EXCEPT ![a] = v]
    ELSE mem' = IF port[s].cmd.we THEN [mem EXCEPT ![port[s].cmd.addr] = port[s].cmd.data]
                                  ELSE mem

Init == mem = InitMem /\ port = [i \in Client |-> NoPort]

Next == \E s \in Client \cup {Nobody} :
           /\ DOMAIN port' = Client
           /\ \A i \in Client : PortStep(i, s, port'[i])
           /\ Stored(s)

Spec == Init /\ [][Next]_vars
=============================================================================
