------------------------------ MODULE HostPort ------------------------------
(***************************************************************************)
(* What the host port of the TMS34010 promises the 68k: a data access is   *)
(* one atomic access to the word HSTADR points at, after which HSTADR      *)
(* points at the next if HSTCTL says so for an access of its direction; it *)
(* is served some time after it is asked for; and only the core's own      *)
(* writes change the memory besides.                                       *)
(***************************************************************************)
EXTENDS Integers

CONSTANTS Words,   \* words of memory
          Values,  \* what a word holds
          IoReg    \* an address that is a register of the core, not a word

VARIABLES memory, pointer, request, answer,
          increments    \* INCW: TRUE is in it, INCR: FALSE is in it

None == [we |-> FALSE, data |-> 0, asked |-> FALSE]
hvars == <<memory, pointer, request, answer, increments>>

PortInit == /\ memory = [a \in Words |-> 0] /\ pointer \in Words \cup {IoReg}
            /\ request = None /\ answer = 0 /\ increments \in SUBSET BOOLEAN

Ask   == /\ request = None /\ pointer' \in Words \cup {IoReg}
         /\ \E we \in BOOLEAN, v \in Values : request' = [we |-> we, data |-> v, asked |-> TRUE]
         /\ UNCHANGED <<memory, answer, increments>>
Control == /\ request = None /\ increments' \in SUBSET BOOLEAN
           /\ UNCHANGED <<memory, pointer, request, answer>>
Serve == /\ request # None /\ request' = None /\ UNCHANGED increments
         /\ pointer' = IF request.we \in increments THEN pointer + 1 ELSE pointer
         /\ IF pointer = IoReg THEN answer' = 0 /\ UNCHANGED memory
            ELSE /\ answer' = memory[pointer]
                 /\ memory' = IF request.we THEN [memory EXCEPT ![pointer] = request.data] ELSE memory
CoreWrites == /\ \E a \in Words, v \in Values : memory' = [memory EXCEPT ![a] = v]
              /\ UNCHANGED <<pointer, request, answer, increments>>

PortSafety == PortInit /\ [][Ask \/ Control \/ Serve \/ CoreWrites]_hvars
PortSpec == PortSafety /\ WF_hvars(Serve)
=============================================================================
