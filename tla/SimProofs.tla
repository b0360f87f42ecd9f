----------------------------- MODULE SimProofs -----------------------------
(***************************************************************************)
(* Theorems about SimPrefetch and SimCheck, for every size and number of   *)
(* pages, length of the ROM, image and pace of the ADSP.  What holds under *)
(* which resets is a hypothesis of each theorem: a stale acknowledge after *)
(* the watchdog's one clock and a read that a reset of the ADSP alone      *)
(* leaves pending are what the two runs that expect a violation show.      *)
(***************************************************************************)
EXTENDS SimCheck, TLAPS

Word(i) == IF i < End THEN <<Image[2 * i], Image[2 * i + 1]>> ELSE PastEnd

GlueTypeOK ==
    /\ sim_addr \in Offset /\ mp \in Page /\ sim_next_idx \in Nat /\ io \in IO
    /\ sim_valid \in BOOLEAN /\ sim_fetching \in BOOLEAN /\ rd_pend \in BOOLEAN
    /\ c_req \in BOOLEAN /\ c_ack \in BOOLEAN /\ mreset \in BOOLEAN /\ adsp_reset \in BOOLEAN
    /\ access.phase \in {"idle", "granted", "open"}
    /\ io_pending_rd \in BOOLEAN

(* A fetch asks for the index the buffer is to hold, which is not valid     *)
(* till then, and inside the ROM.                                           *)
FetchAsks ==
    /\ c_req <=> sim_fetching
    /\ sim_fetching => ~sim_valid /\ c_addr = sim_next_idx /\ c_addr < End

(* What the port is about to answer is the fetch under way ...              *)
PortAnswers ==
    /\ c_ack => access.phase = "idle"
    /\ access.phase = "idle" => access = NoAccess
    /\ sim_fetching /\ access.phase = "open" => access.addr = c_addr
    /\ sim_fetching /\ c_ack => sd_rdata = Stored(c_addr)

(* ... and without one it is quiet, unless a reset has cut a fetch off.     *)
QuietBetween == ~sim_fetching /\ ~mreset => PortQuiet

(* The buffer is the word of its index, past the end as well.               *)
HoldsWord == sim_valid => sim_word = Word(sim_next_idx)

OnlyLong == mreset => Resets = "long"

BufferInv == GlueTypeOK /\ FetchAsks /\ PortAnswers /\ QuietBetween /\ HoldsWord /\ OnlyLong

(* The core waits for a read exactly as long as the board keeps it, a       *)
(* register write never falls into a read, and a core held after a machine  *)
(* reset has nothing outstanding.                                           *)
ReadTogether ==
    /\ io_pending_rd <=> sim_rd_now \/ rd_pend
    /\ io.op \in {"seek", "page"} => ~rd_pend
    /\ adsp_reset => io = NoIO /\ ~rd_pend /\ ~io_pending_rd

(* No cycle is raised on the clock after another.                           *)
Spaced == rest \in Nat /\ (io # NoIO => rest > 0)

PendingInv == GlueTypeOK /\ ReadTogether /\ Spaced

-----------------------------------------------------------------------------
(* Types.                                                                   *)
LEMMA IndexTypes ==
  ASSUME GlueTypeOK
  PROVE  sim_idx \in Nat
<1>1. sim_addr \in Nat /\ mp \in Nat /\ PageSize \in Nat
  BY SimAssumption DEF GlueTypeOK, Offset, Page
<1>2. mp * PageSize \in Nat
  BY <1>1
<1> QED
  BY <1>1, <1>2 DEF sim_idx

LEMMA IOTypes ==
  ASSUME NEW w \in IO
  PROVE  /\ w.op \in {"none", "read", "seek", "page"}
         /\ w.op = "seek" => w.arg \in Offset
         /\ w.op = "page" => w.arg \in Page
BY DEF IO, NoIO

LEMMA NoIOTypes == NoIO \in IO /\ NoIO.op = "none"
BY DEF IO, NoIO

(* One clock of the glue.                                                   *)
LEMMA GlueTypes ==
  ASSUME GlueTypeOK, Glue
  PROVE  /\ sim_addr' \in Offset /\ mp' \in Page /\ sim_next_idx' \in Nat
         /\ sim_valid' \in BOOLEAN /\ sim_fetching' \in BOOLEAN /\ rd_pend' \in BOOLEAN
         /\ c_req' \in BOOLEAN /\ c_ack' \in BOOLEAN
         /\ mreset' \in BOOLEAN /\ adsp_reset' \in BOOLEAN
         /\ access'.phase \in {"idle", "granted", "open"}
<1>1. c_ack' \in BOOLEAN
  BY DEF Glue, Port
<1>2. access'.phase \in {"idle", "granted", "open"}
  <2>1. CASE access.phase = "idle" /\ access' = [access EXCEPT !.phase = "granted"]
    BY <2>1 DEF NoAccess
  <2>2. CASE access' = [phase |-> "open", addr |-> c_addr]
    BY <2>2
  <2>3. CASE access' = NoAccess
    BY <2>3 DEF NoAccess
  <2>4. CASE access' = access
    BY <2>4 DEF GlueTypeOK
  <2> QED
    BY <2>1, <2>2, <2>3, <2>4 DEF Glue, Port
<1>3. mreset' \in BOOLEAN /\ adsp_reset' \in BOOLEAN
  <2>1. (Resets \in {"long", "watchdog"}) \in BOOLEAN
    <3>1. ASSUME NEW S, NEW r PROVE (r \in S) \in BOOLEAN
      OBVIOUS
    <3> QED
      BY <3>1, Zenon
  <2>2. mreset' = FALSE \/ mreset' = (Resets \in {"long", "watchdog"})
    BY DEF Glue, MachineReset
  <2>3. \E b \in BOOLEAN : adsp_reset' = b
    BY Zenon DEF Glue, MachineReset
  <2> QED
    BY <2>1, <2>2, <2>3, Zenon
<1>4. CASE mreset
  <2>1. 0 \in Offset /\ 0 \in Page
    BY SimAssumption DEF Offset, Page
  <2>2. sim_valid' \in BOOLEAN /\ sim_fetching' \in BOOLEAN /\ rd_pend' \in BOOLEAN /\ c_req' \in BOOLEAN
    BY <1>4, Zenon DEF Glue, ResetGlue
  <2>3. sim_addr' \in Offset /\ mp' \in Page /\ sim_next_idx' \in Nat
    BY <1>4, <2>1 DEF Glue, ResetGlue
  <2> QED
    BY <1>1, <1>2, <1>3, <2>2, <2>3
<1>5. CASE ~mreset
  <2>1. /\ sim_fetching' \in BOOLEAN /\ sim_valid' \in BOOLEAN
        /\ c_req' \in BOOLEAN /\ rd_pend' \in BOOLEAN
    BY <1>5 DEF Glue, Prefetch, Pending
  <2>2. sim_next_idx' \in Nat
    BY <1>5, IndexTypes DEF Glue, Prefetch, GlueTypeOK
  <2>3. (sim_addr + 1) % PageSize \in Offset
    BY SimAssumption DEF GlueTypeOK, Offset
  <2>4. sim_addr' \in Offset /\ mp' \in Page
    BY <1>5, <2>3, IOTypes DEF Glue, Registers, GlueTypeOK
  <2> QED
    BY <1>1, <1>2, <1>3, <2>1, <2>2, <2>4
<1> QED
  BY <1>4, <1>5

(* What the core's cycle leaves on the bus.                                 *)
LEMMA NextTypes ==
  ASSUME GlueTypeOK, Next
  PROVE  Glue /\ GlueTypeOK'
<1>1. Glue
  BY DEF Next, Issue, Sample, Stall, Compute, Held
<1>2. io' \in IO /\ io_pending_rd' \in BOOLEAN
  BY NoIOTypes DEF Next, Issue, Sample, Stall, Compute, Held, GlueTypeOK
<1> QED
  BY <1>1, <1>2, GlueTypes DEF GlueTypeOK

-----------------------------------------------------------------------------
(* The buffer.                                                              *)
LEMMA StoredWord ==
  ASSUME NEW i \in Nat, i < End
  PROVE  Swapped(Stored(i)) = Word(i)
BY DEF Swapped, Stored, Word

LEMMA FetchStep ==
  ASSUME BufferInv, Glue
  PROVE  FetchAsks'
<1>1. CASE mreset
  BY <1>1 DEF Glue, ResetGlue, FetchAsks
<1>2. CASE ~mreset /\ StartsFetch
  <2>1. ~Arrives /\ sim_idx < End /\ ~FillsPastEnd
    BY <1>2, IndexTypes, SimAssumption DEF StartsFetch, Arrives, FillsPastEnd, BufferInv
  <2>2. sim_fetching' /\ c_req' /\ ~sim_valid'
    BY <1>2, <2>1, Zenon DEF Glue, Prefetch
  <2>3. sim_next_idx' = sim_idx /\ c_addr' = sim_idx
    BY <1>2 DEF Glue, Prefetch
  <2> QED
    BY <2>1, <2>2, <2>3 DEF FetchAsks
<1>3. CASE ~mreset /\ ~StartsFetch
  <2>1. sim_fetching' <=> sim_fetching /\ ~Arrives
    BY <1>3 DEF Glue, Prefetch
  <2>2. c_req' <=> c_req /\ ~Arrives
    BY <1>3 DEF Glue, Prefetch
  <2>3. sim_fetching' => sim_next_idx' = sim_next_idx /\ c_addr' = c_addr /\ ~sim_valid'
    <3>1. ASSUME sim_fetching'
          PROVE  sim_fetching /\ ~Arrives /\ ~FillsPastEnd /\ ~sim_valid
      BY <2>1, <3>1 DEF FillsPastEnd, BufferInv, FetchAsks
    <3> QED
      BY <1>3, <3>1 DEF Glue, Prefetch
  <2> QED
    BY <2>1, <2>2, <2>3 DEF BufferInv, FetchAsks
<1> QED
  BY <1>1, <1>2, <1>3

(* A fetch under way keeps its address until it is answered.                *)
LEMMA FetchKept ==
  ASSUME BufferInv, Glue, sim_fetching'
  PROVE  \/ sim_fetching /\ c_addr' = c_addr /\ ~mreset /\ ~c_ack
         \/ ~sim_fetching /\ ~mreset /\ PortQuiet /\ ~c_req
<1>1. ~mreset
  BY DEF Glue, ResetGlue
<1>2. CASE sim_fetching
  BY <1>1, <1>2 DEF Glue, Prefetch, StartsFetch, Arrives
<1>3. CASE ~sim_fetching
  BY <1>1, <1>3 DEF BufferInv, QuietBetween, FetchAsks
<1> QED
  BY <1>2, <1>3

LEMMA PortStep ==
  ASSUME BufferInv, Glue
  PROVE  PortAnswers'
<1> USE DEF BufferInv, PortAnswers
<1>1. Port
  BY DEF Glue
<1>2. (c_ack' => access'.phase = "idle") /\ (access'.phase = "idle" => access' = NoAccess)
  <2>1. CASE access.phase = "idle" /\ access' = [access EXCEPT !.phase = "granted"] /\ ~c_ack'
    BY <2>1 DEF NoAccess
  <2>2. CASE access' = [phase |-> "open", addr |-> c_addr] /\ ~c_ack'
    BY <2>2
  <2>3. CASE access' = NoAccess
    BY <2>3 DEF NoAccess
  <2>4. CASE access' = access /\ ~c_ack'
    BY <2>4
  <2> QED
    BY <1>1, <2>1, <2>2, <2>3, <2>4 DEF Port
<1>3. ASSUME sim_fetching'
      PROVE  /\ access'.phase = "open" => access'.addr = c_addr'
             /\ c_ack' => sd_rdata' = Stored(c_addr')
  <2>1. CASE sim_fetching /\ c_addr' = c_addr /\ ~c_ack
    <3>1. CASE access.phase = "idle" /\ access' = [access EXCEPT !.phase = "granted"] /\ ~c_ack'
      BY <3>1 DEF NoAccess
    <3>2. CASE access' = [phase |-> "open", addr |-> c_addr] /\ ~c_ack'
      BY <2>1, <3>2
    <3>3. CASE access.phase = "open" /\ access' = NoAccess /\ sd_rdata' = Stored(access.addr)
      BY <2>1, <3>3 DEF NoAccess
    <3>4. CASE access' = access /\ ~c_ack'
      BY <2>1, <3>4
    <3> QED
      BY <1>1, <3>1, <3>2, <3>3, <3>4 DEF Port
  <2>2. CASE ~sim_fetching /\ PortQuiet /\ ~c_req
    BY <1>1, <2>2 DEF Port, PortQuiet, NoAccess
  <2> QED
    BY <1>3, <2>1, <2>2, FetchKept
<1> QED
  BY <1>2, <1>3

LEMMA QuietStep ==
  ASSUME BufferInv, Glue
  PROVE  QuietBetween'
<1> SUFFICES ASSUME ~sim_fetching', ~mreset' PROVE PortQuiet'
  BY DEF QuietBetween
<1> USE DEF BufferInv
<1>1. Port
  BY DEF Glue
<1>2. CASE PortQuiet /\ ~c_req
  BY <1>1, <1>2 DEF Port, PortQuiet, NoAccess
<1>3. CASE mreset
  <2>1. ~(c_req \/ ~PortQuiet)
    BY <1>3 DEF Glue, MachineReset, OnlyLong
  <2> QED
    BY <1>2, <2>1
<1>4. CASE ~mreset /\ sim_fetching
  <2>1. c_ack
    BY <1>4 DEF Glue, Prefetch, Arrives
  <2>2. access = NoAccess /\ access.phase = "idle"
    BY <2>1 DEF PortAnswers
  <2> QED
    BY <1>1, <2>1, <2>2 DEF Port, PortQuiet
<1>5. CASE ~mreset /\ ~sim_fetching
  BY <1>2, <1>5 DEF QuietBetween, FetchAsks
<1> QED
  BY <1>3, <1>4, <1>5

LEMMA WordStep ==
  ASSUME BufferInv, Glue
  PROVE  HoldsWord'
<1> SUFFICES ASSUME sim_valid' PROVE sim_word' = Word(sim_next_idx')
  BY DEF HoldsWord
<1> USE DEF BufferInv
<1>1. ~mreset
  BY DEF Glue, ResetGlue
<1>2. Prefetch
  BY <1>1 DEF Glue
<1>3. CASE Arrives
  <2>1. /\ sim_word' = Swapped(sd_rdata) /\ sim_next_idx' = sim_next_idx
        /\ sd_rdata = Stored(sim_next_idx) /\ sim_next_idx < End
    BY <1>2, <1>3 DEF Prefetch, Arrives, StartsFetch, FillsPastEnd, PortAnswers, FetchAsks
  <2> QED
    BY <2>1, StoredWord DEF GlueTypeOK
<1>4. CASE ~Arrives /\ FillsPastEnd
  <2>1. sim_word' = PastEnd /\ sim_next_idx' = sim_idx /\ ~(sim_idx < End)
    BY <1>2, <1>4, IndexTypes, SimAssumption DEF Prefetch, FillsPastEnd
  <2> QED
    BY <2>1 DEF Word
<1>5. CASE ~Arrives /\ ~FillsPastEnd
  <2>1. sim_valid /\ ~StartsFetch
    BY <1>2, <1>5 DEF Prefetch
  <2>2. sim_word' = sim_word /\ sim_next_idx' = sim_next_idx
    BY <1>2, <1>5, <2>1 DEF Prefetch
  <2> QED
    BY <2>1, <2>2 DEF HoldsWord, Word
<1> QED
  BY <1>3, <1>4, <1>5

LEMMA BufferInit == Init => BufferInv
<1> SUFFICES ASSUME Init PROVE BufferInv
  OBVIOUS
<1> USE SimAssumption DEF Init
<1>1. GlueTypeOK
  <2>1. 0 \in Offset /\ 0 \in Page /\ io \in IO
    BY NoIOTypes DEF Offset, Page
  <2>2. access.phase = "idle"
    BY DEF NoAccess
  <2> QED
    BY <2>1, <2>2 DEF GlueTypeOK
<1>2. FetchAsks /\ PortAnswers /\ QuietBetween /\ HoldsWord /\ OnlyLong
  BY DEF FetchAsks, PortAnswers, QuietBetween, PortQuiet, NoAccess, HoldsWord, OnlyLong
<1> QED
  BY <1>1, <1>2 DEF BufferInv

LEMMA BufferNext ==
  ASSUME Resets # "watchdog"
  PROVE  BufferInv /\ [Next]_vars => BufferInv'
<1> SUFFICES ASSUME BufferInv, [Next]_vars PROVE BufferInv'
  OBVIOUS
<1>1. CASE Next
  <2>1. Glue /\ GlueTypeOK'
    BY <1>1, NextTypes DEF BufferInv
  <2>2. OnlyLong'
    BY <2>1, SimAssumption DEF Glue, MachineReset, OnlyLong
  <2> QED
    BY <2>1, <2>2, FetchStep, PortStep, QuietStep, WordStep DEF BufferInv
<1>2. CASE UNCHANGED vars
  BY <1>2 DEF vars, buffer, memory, adsp, BufferInv, GlueTypeOK, FetchAsks, PortAnswers,
              QuietBetween, PortQuiet, HoldsWord, Word, OnlyLong, Stored
<1> QED
  BY <1>1, <1>2

(* The inductive invariant of the prefetch buffer.                          *)
LEMMA BufferInvariant == ASSUME Resets # "watchdog" PROVE Spec => []BufferInv
BY BufferInit, BufferNext, PTL DEF Spec

(* The buffer only claims to hold a word it holds, whatever the delays of   *)
(* the SDRAM and wherever the ADSP moves meanwhile, under every reset but   *)
(* the watchdog's (stunrun_core.sv, sim_valid).                             *)
THEOREM SimBufferTrue == ASSUME Resets # "watchdog" PROVE Spec => []BufferTrue
<1>1. BufferInv => BufferTrue
  BY StoredWord DEF BufferInv, HoldsWord, BufferTrue, GlueTypeOK
<1> QED
  BY <1>1, BufferInvariant, PTL

(* TB_SIMCHK of tb_system.cpp never reports a word that is wrong or one     *)
(* served while a fetch is under way.                                       *)
THEOREM SimCheckStaysSilent == ASSUME Resets # "watchdog" PROVE Spec => []SimCheckSilent
<1>1. BufferInv => SimCheckSilent
  BY DEF BufferInv, FetchAsks, HoldsWord, Word, SimCheckSilent, ServedDuringFetch, Mismatch,
         Want, sim_consume, sim_hit
<1> QED
  BY <1>1, BufferInvariant, PTL

-----------------------------------------------------------------------------
(* The read under way.                                                      *)
LEMMA PendingInit == Init => PendingInv
<1> SUFFICES ASSUME Init PROVE PendingInv
  OBVIOUS
<1>1. GlueTypeOK
  BY BufferInit DEF BufferInv
<1> QED
  BY <1>1, NoIOTypes, SimAssumption DEF Init, PendingInv, ReadTogether, Spaced, sim_rd_now

(* A clock of the glue moves the board's half of the read.                  *)
LEMMA GluePends ==
  ASSUME GlueTypeOK, Glue
  PROVE  IF mreset THEN ~rd_pend' ELSE rd_pend' <=> (rd_pend \/ sim_rd_now) /\ ~sim_hit
BY DEF Glue, ResetGlue, Pending, sim_consume

LEMMA SpacedStep ==
  ASSUME Spaced, Next
  PROVE  Spaced'
<1>1. CASE Issue \/ Held
  BY <1>1, SimAssumption DEF Issue, Held, Spaced
<1>2. CASE Sample \/ Stall \/ Compute
  BY <1>2 DEF Sample, Stall, Compute, Spaced
<1> QED
  BY <1>1, <1>2 DEF Next

LEMMA PendingNext ==
  ASSUME Resets # "adsp"
  PROVE  PendingInv /\ [Next]_vars => PendingInv'
<1> SUFFICES ASSUME PendingInv, [Next]_vars PROVE PendingInv'
  OBVIOUS
<1>1. GlueTypeOK /\ ReadTogether /\ (Next => Spaced')
  BY SpacedStep DEF PendingInv
<1>2. ASSUME Glue, ~held PROVE ~mreset /\ ~adsp_reset'
  BY <1>2, SimAssumption DEF Glue, MachineReset, held
<1>3. ASSUME NEW w \in IO \ {NoIO} PROVE w.op = "read" \/ w.op # "read"
  OBVIOUS
<1>4. CASE Issue
  <2>1. PICK w \in IO \ {NoIO} : io' = w /\ io_pending_rd' = (w.op = "read")
    BY <1>4 DEF Issue
  <2>2. ~rd_pend' /\ ~adsp_reset'
    BY <1>1, <1>2, <1>4, GluePends DEF Issue, ReadTogether
  <2>3. ReadTogether'
    BY <2>1, <2>2 DEF ReadTogether, sim_rd_now
  <2> QED
    BY <1>1, <1>4, <2>3, NextTypes DEF PendingInv, Next
<1>5. CASE Sample
  <2>1. ~rd_pend' /\ ~adsp_reset'
    BY <1>1, <1>2, <1>5, GluePends DEF Sample, io_wait
  <2>2. ReadTogether'
    BY <1>5, <2>1, NoIOTypes DEF Sample, ReadTogether, sim_rd_now
  <2> QED
    BY <1>1, <1>5, <2>2, NextTypes DEF PendingInv, Next
<1>6. CASE Stall
  <2>1. rd_pend' /\ ~adsp_reset'
    BY <1>1, <1>2, <1>6, GluePends DEF Stall, io_wait
  <2>2. ReadTogether'
    BY <1>6, <2>1, NoIOTypes DEF Stall, ReadTogether, sim_rd_now
  <2> QED
    BY <1>1, <1>6, <2>2, NextTypes DEF PendingInv, Next
<1>7. CASE Compute
  <2>1. ~rd_pend' /\ ~adsp_reset'
    BY <1>1, <1>2, <1>7, GluePends DEF Compute, ReadTogether
  <2>2. ReadTogether'
    BY <1>7, <2>1, NoIOTypes DEF Compute, ReadTogether, sim_rd_now
  <2> QED
    BY <1>1, <1>7, <2>2, NextTypes DEF PendingInv, Next
<1>8. CASE Held
  <2>1. ~rd_pend'
    BY <1>1, <1>8, GluePends, NoIOTypes DEF Held, held, ReadTogether, sim_rd_now
  <2>2. ReadTogether'
    BY <1>8, <2>1, NoIOTypes DEF Held, ReadTogether, sim_rd_now
  <2> QED
    BY <1>1, <1>8, <2>2, NextTypes DEF PendingInv, Next
<1>9. CASE UNCHANGED vars
  BY <1>9 DEF vars, buffer, memory, adsp, PendingInv, GlueTypeOK, ReadTogether, Spaced, sim_rd_now
<1> QED
  BY <1>4, <1>5, <1>6, <1>7, <1>8, <1>9 DEF Next

LEMMA PendingInvariant == ASSUME Resets # "adsp" PROVE Spec => []PendingInv
BY PendingInit, PendingNext, PTL DEF Spec

(* The board and the core agree on the read under way, under every reset    *)
(* but one of the ADSP alone (stunrun_core.sv, rd_pend; adsp2100.sv,        *)
(* io_pending_rd).                                                          *)
THEOREM SimPendingTogether == ASSUME Resets # "adsp" PROVE Spec => []PendingTogether
<1>1. PendingInv => PendingTogether
  BY DEF PendingInv, ReadTogether, PendingTogether
<1> QED
  BY <1>1, PendingInvariant, PTL

-----------------------------------------------------------------------------
(* The refinement.  A clock in which the glue consumes the buffer is the    *)
(* one in which the core samples it, and takes the word of the index.       *)
LEMMA TakesWord ==
  ASSUME BufferInv, PendingInv, Next, ~mreset
  PROVE  IF sim_consume THEN got' = Word(sim_idx) ELSE got' = got
<1>1. CASE sim_consume
  <2>1. io_pending_rd /\ ~adsp_reset /\ ~io_wait
    BY <1>1 DEF PendingInv, ReadTogether, sim_consume, io_wait
  <2>2. Sample
    BY <2>1 DEF Next, Issue, Stall, Compute, Held, held
  <2>3. sim_word = Word(sim_idx)
    BY <1>1 DEF BufferInv, HoldsWord, sim_consume, sim_hit
  <2> QED
    BY <1>1, <2>2, <2>3 DEF Sample
<1>2. CASE ~sim_consume
  <2>1. ~Sample
    BY <1>2 DEF Sample, PendingInv, ReadTogether, sim_consume, io_wait
  <2> QED
    BY <1>2, <2>1 DEF Next, Issue, Stall, Compute, Held
<1> QED
  BY <1>1, <1>2

(* Without a read under way the word the ADSP has is not touched.           *)
LEMMA NoRead ==
  ASSUME PendingInv, Next, io.op \in {"seek", "page"}
  PROVE  ~sim_consume /\ ~io_pending_rd
BY DEF PendingInv, ReadTogether, sim_consume, sim_rd_now

LEMMA StreamCycles == IO = Stream!Cycle \cup {Stream!NoCycle} /\ NoIO = Stream!NoCycle
BY DEF IO, NoIO, Stream!Cycle, Stream!NoCycle, Offset, Page

LEMMA StreamStep ==
  ASSUME BufferInv, PendingInv, Next
  PROVE  [Stream!Next]_Stream!vars
<1> USE DEF Stream!Next, Stream!vars, Stream!state
<1>1. Glue /\ GlueTypeOK /\ io \in IO
  BY NextTypes DEF BufferInv, GlueTypeOK
<1>2. CASE mreset
  <2>1. got' = got /\ io' = NoIO /\ io_pending_rd' = FALSE
    BY <1>2 DEF Next, Issue, Sample, Stall, Compute, Held, held
  <2>2. sim_addr' = 0 /\ mp' = 0
    BY <1>1, <1>2 DEF Glue, ResetGlue
  <2> QED
    BY <1>2, <2>1, <2>2, StreamCycles DEF Stream!Reboot
<1>3. CASE ~mreset /\ io.op \in {"seek", "page"}
  <2>1. ~sim_consume /\ ~io_pending_rd /\ io # NoIO
    BY <1>3, NoRead, NoIOTypes
  <2>2. io' = NoIO /\ io_pending_rd' = io_pending_rd /\ got' = got
    <3>1. Compute \/ Held
      BY <2>1 DEF Next, Issue, Sample, Stall, PendingInv, Spaced
    <3>2. ~Held
      BY <1>3, NoIOTypes, <2>1 DEF Held, held, PendingInv, ReadTogether
    <3> QED
      BY <3>1, <3>2 DEF Compute
  <2>3. CASE io.op = "seek"
    <3>1. sim_addr' = io.arg /\ mp' = mp
      BY <1>1, <1>3, <2>3 DEF Glue, Registers
    <3> QED
      BY <1>3, <2>2, <2>3, <3>1, StreamCycles DEF Stream!Seek
  <2>4. CASE io.op = "page"
    <3>1. mp' = io.arg /\ sim_addr' = sim_addr
      BY <1>1, <1>3, <2>1, <2>4 DEF Glue, Registers
    <3> QED
      BY <1>3, <2>2, <2>4, <3>1, StreamCycles DEF Stream!Turn
  <2> QED
    BY <1>3, <2>3, <2>4
<1>4. CASE ~mreset /\ io.op \notin {"seek", "page"} /\ sim_consume
  <2>1. got' = Word(sim_idx)
    BY <1>4, TakesWord
  <2>2. Stream!Index = sim_idx /\ Stream!Word(sim_idx) = Word(sim_idx)
    BY DEF Stream!Index, Stream!Word, sim_idx, Word
  <2>3. /\ sim_addr' = IF sim_idx < End THEN (sim_addr + 1) % PageSize ELSE sim_addr
        /\ mp' = mp
    BY <1>1, <1>4 DEF Glue, Registers
  <2>4. io_pending_rd /\ ~adsp_reset /\ ~io_wait
    BY <1>4 DEF PendingInv, ReadTogether, sim_consume, io_wait
  <2>5. io' = NoIO /\ io_pending_rd' = FALSE
    BY <1>4, <2>4 DEF Next, Issue, Sample, Stall, Compute, Held, held
  <2> QED
    BY <1>4, <2>1, <2>2, <2>3, <2>4, <2>5, StreamCycles DEF Stream!Take
<1>5. CASE ~mreset /\ io.op \notin {"seek", "page"} /\ ~sim_consume
  <2>1. got' = got
    BY <1>5, TakesWord
  <2>2. sim_addr' = sim_addr /\ mp' = mp
    BY <1>1, <1>5 DEF Glue, Registers
  <2>3. CASE Issue
    <3>1. io = NoIO /\ ~io_pending_rd
      BY <2>3 DEF Issue, PendingInv, Spaced
    <3>2. PICK w \in IO \ {NoIO} : io' = w /\ io_pending_rd' = (w.op = "read")
      BY <2>3 DEF Issue
    <3>3. w \in Stream!Cycle
      BY <3>2, StreamCycles
    <3> QED
      BY <1>5, <2>1, <2>2, <3>1, <3>2, <3>3, StreamCycles DEF Stream!Raise
  <2>4. CASE Sample
    BY <1>5, <2>4 DEF Sample, PendingInv, ReadTogether, sim_consume, io_wait
  <2>5. CASE Stall
    BY <1>5, <2>1, <2>2, <2>5, StreamCycles DEF Stall, Stream!Wait
  <2>6. CASE Compute
    <3>1. io = NoIO
      BY <1>1, <1>5, <2>6 DEF Compute, IO, NoIO, PendingInv, ReadTogether, sim_rd_now
    <3> QED
      BY <1>5, <2>1, <2>2, <2>6, <3>1, StreamCycles DEF Compute, Stream!Idle
  <2>7. CASE Held
    <3>1. io = NoIO /\ ~io_pending_rd /\ io' = NoIO /\ io_pending_rd' = FALSE
      BY <1>5, <2>7 DEF Held, held, PendingInv, ReadTogether
    <3>2. io_pending_rd' = io_pending_rd
      BY <3>1, Zenon DEF PendingInv, GlueTypeOK
    <3> QED
      BY <1>5, <2>1, <2>2, <3>1, <3>2, StreamCycles DEF Stream!Idle
  <2> QED
    BY <2>3, <2>4, <2>5, <2>6, <2>7 DEF Next
<1> QED
  BY <1>2, <1>3, <1>4, <1>5

(* The prefetched ROM implements the serial ROM: whatever the delays of the *)
(* SDRAM, each read gets the word of the current index and advances it once *)
(* in the step that ends it, and the index moves otherwise only by the      *)
(* cycle that writes a register.  It holds with long machine resets and     *)
(* without resets.                                                          *)
THEOREM SimStreamsInOrder ==
  ASSUME Resets \notin {"watchdog", "adsp"}
  PROVE  Spec => StreamsInOrder
<1>1. Init => Stream!Init
  BY StreamCycles DEF Init, Stream!Init
<1>2. BufferInv /\ PendingInv /\ [Next]_vars => [Stream!Next]_Stream!vars
  <2>1. CASE UNCHANGED vars
    BY <2>1 DEF vars, adsp, Stream!vars, Stream!state
  <2> QED
    BY <2>1, StreamStep
<1>3. Resets # "watchdog" /\ Resets # "adsp"
  OBVIOUS
<1>4. Spec => []BufferInv /\ []PendingInv
  BY <1>3, BufferInvariant, PendingInvariant, PTL
<1> QED
  BY <1>1, <1>2, <1>4, PTL DEF Spec, StreamsInOrder, Stream!Spec
=============================================================================
