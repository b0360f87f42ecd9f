------------------------------ MODULE Mailbox ------------------------------
(***************************************************************************)
(* A latch between two processors that holds one byte, as its writer wants *)
(* it: a byte is taken exactly once, whole, and before the next is put --  *)
(* unless nobody listens any more, when it may be overwritten, or a reset  *)
(* clears the latch.                                                       *)
(***************************************************************************)
EXTENDS Integers

CONSTANTS Byte, Empty

VARIABLES box,         \* the byte in the latch, or Empty
          puts,        \* the number of bytes its writer has written, modulo 2
          taken,       \* the byte the reader took last
          takes,       \* the number of bytes its reader has read, modulo 2
          listening,   \* is the reader still reading?
          resetting    \* is the latch being cleared?

vars == <<box, puts, taken, takes, listening, resetting>>

Init == box = Empty /\ puts = 0 /\ taken = Empty /\ takes = 0

Written == puts' = 1 - puts /\ box' \in Byte
Read    == box # Empty /\ takes' = 1 - takes /\ taken' = box

Put     == /\ box = Empty \/ resetting \/ ~listening
           /\ Written /\ UNCHANGED <<taken, takes>>
Take    == Read /\ box' = Empty /\ UNCHANGED puts
(* A byte is taken on the very clock on which the next one arrives. *)
TakePut == Read /\ Written
Clear   == resetting /\ box' = Empty /\ UNCHANGED <<puts, taken, takes>>
(* Nobody touches the latch; the reader may stop or start listening.  *)
Falter  == UNCHANGED <<box, puts, taken, takes>>

Next == Put \/ Take \/ TakePut \/ Clear \/ Falter

Spec == Init /\ [][Next]_vars
=============================================================================
