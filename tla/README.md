# S.T.U.N. Runner on the Analogue Pocket: TLA+ models and proofs

The repository is a hardware core: SystemVerilog that rebuilds Atari's
S.T.U.N. Runner board (a 68010, a TMS34010 graphics processor, an ADSP-2100
and a 6502 sound board) around one SDRAM chip on the Analogue Pocket's FPGA.
Everything below `rtl/` runs on one 96 MHz clock. The processors' data paths
are compared with reference traces by the benches of `sim/`
(`docs/verification.md`). What a trace cannot reach is how the parts meet: who
gets the memory on which clock, which word belongs to whom, what a reset
leaves behind. That is the first subject of these modules. The second is the
benches themselves, which are the repository's C++: whether
they pass the cores they should, and fail the others.

Contents: [the system](#1-the-system) - [the modules](#2-the-modules) -
[the runs](#3-the-runs) - [fairness](#4-fairness) - [the proofs](#5-the-proofs) -
[what the checks found](#6-what-the-checks-found) -
[what is left out](#7-what-is-left-out-and-the-plan).

## 1. The system

| part | source | state | operations | talks to |
|---|---|---|---|---|
| SDRAM controller | `rtl/sdram_ctrl.sv` | FSM, refresh counter, capture pipeline, burst registers | power-up sequence, grant, single access, burst in chunks, refresh | chip by commands; six random clients and one burst client by level request / one-clock acknowledge |
| burst arbiter | `rtl/stunrun_core.sv` 96-125 | owner, busy | grant per request, display first | controller, scan-out, GSP glue |
| ROM loader | `rtl/stunrun_core.sv` 141-172 | 64-entry FIFO, request | push, pop | client 4 |
| SIM serial ROM | `rtl/stunrun_core.sv` 318-396 | address, page, one-word buffer, pending read | read, seek, page, prefetch, answer | ADSP's IO cycle, client 2 |
| SOM buffer | `rtl/stunrun_core.sv` 400-406 | two banks, pointer | write, bank flip | ADSP, 68010 |
| 68010 board | `rtl/stunrun_main.sv` | bus FSM, latches, watchdog, ADC, interrupt levels | one bus access per step, strobes | everything |
| GSP core, glue, cache | `rtl/gsp/*`, `rtl/gsp_bus.sv` | instruction state, raster, host port; row buffer; tags | memory access, row copy, host insertion, fill, flush | client 1, burst port, 68010 |
| scan-out | `rtl/gsp_video.sv` | two line buffers, fetch FSM | fetch, swap, read-out | burst port, raster |
| ADSP-2100 | `rtl/adsp/adsp2100.sv` | registers, stacks, loop hardware | instruction in fixed states, IO cycle | SIM, SOM, 68010 |
| sound board | `rtl/jsa/jsa2.sv` | 6502, two latches, reset counter, FM/ADPCM | command, answer, reset, NMI | 68010, client 3 |
| benches | `sim/**/tb_*.cpp` | shadows, logs, verdict | load, stimulate, compare, count frames | one part each, or the whole machine |

Everything moves on the same edge, and non-blocking assignments read the old
values, so **a step of every module here is one rising clock edge**: all its
parts move together, each from the unprimed state. Interleaving is not absent,
it has a different shape: which requests, acknowledges, resets and enables fall on the
same clock. Two things differ: the software of a bench takes its steps between two edges
(`GspTrace`, `AdspTrace`), and in `GspCore` so do the strobes of host and raster, which is the
same but where both write one register at once (`Raster` has those collisions).

The hard behaviours are these.

* *Ports.* An acknowledge is one clock wide and the client drops its request
  on the next edge. A decision taken in between sees a request that is served.
* *Pipelines.* The word of a READ arrives several clocks after the command and
  is told apart only by a tag that travels beside it.
* *Bursts in chunks*, with refreshes and other clients in between, and a
  completion that must not overtake the last word.
* *Registered decisions* (`any_req_q`, `b_start`, `refresh_due`), one clock old
  when they are used.
* *Resets of different reach*: `hw_reset`, the machine reset (whose watchdog
  source lasts one clock and does not reset the controller), the ADSP's and
  the sound board's own.
* *A latch without handshake* between two processors, whose reader is told by an edge.
* *Interruptions that leave something behind*: a blit cut between two rows and
  resumed from registers, a display address that is stepped by the raster and
  written by the program.
* *Buffers without a full flag*: the loader's FIFO trusts the controller's rate.

What makes each part correct, in a sentence: the controller is a set of
private memory ports, and keeps the chip's timing; the SIM buffer is a serial
ROM; the command latch hands over each byte once; a burst goes to its owner;
the shown line is the fetched one; a row copy is a copy; a host access is made once; a blit is whole however
often it is interrupted; a bench passes exactly the runs that are right; the
cache never returns a word memory no longer holds.

## 2. The modules

| module | role |
|---|---|
| `SdramCtrl` | `rtl/sdram_ctrl.sv`, with its clients, the machine's or the bench's; uses `SdramChip` |
| `SdramChip` | the chip, after `sim/sdram_model.sv`: which command may follow which, and when, as an operator on its timers |
| `MemPort` | abstract: each request takes effect once, at one moment, and its acknowledge carries the word |
| `SdramWaits` | `SdramCtrl` with two history variables: who has been granted how often while a client waits |
| `SdramBench` | the scoreboard of `sim/tb_sdram.cpp` around it |
| `SdramCtrlProofs` | theorems of `SdramCtrl`: types, one access per request, refresh |
| `SdramInterfaceProofs` | its interfaces: the chip's timings; the memory port, turns, chunks, whole bursts; the bench's scoreboard |
| `SimProofs`, `SoundLatchProofs`, `LineFetchProofs` | theorems of the modules of those names |
| `RasterProofs` | theorems of `Raster` and `FrameGrab` |
| `MemoryProofs`, `GspProofs` | theorems of `Som` and `RomLoad`; of `GspHost` and `GspBus` |
| `SimPrefetch` | the SIM ROM glue, the ADSP's IO cycle, port 2, the resets |
| `SimStream` | abstract: a serial ROM behind an IO cycle: a read takes one word, a register moves when it is written |
| `SimCheck` | the probe of `sim/tb_system.cpp` that looks over its shoulder |
| `SoundLatch` | both sound latches, the 68010's side, the 6502's reset and NMI detector; its program is external |
| `Mailbox` | abstract: a latch whose bytes are taken exactly once; it counts both what is put and what is taken |
| `JsaReplay` | the same board driven by `sim/jsa/tb_jsa.cpp` |
| `LineFetch` | the burst arbiter, the scan-out's line fetch, the row engine's pieces |
| `GspBus` | `rtl/gsp_bus.sv`: the memory glue of the GSP |
| `GspMemory` | abstract for `GspBus`, and code of its own: the memory of `sim/gsp/tb_gsp.cpp` |
| `GspCore` | the sequencer of the GSP: boundaries, fetch, words, host insertion, blits |
| `GspHost` | `GspCore` in the machine: the 68010's accesses, its writes of HSTCTL (halt, INCW, INCR), display interrupt |
| `HostPort` | abstract: a host access is one atomic access, after which HSTADR moves on if INCW or INCR says so |
| `GspTrace` | `GspCore` under the trace bench `sim/gsp/tb_gsp.cpp` |
| `Raster` | line counters, display address, INTPEND, and two probes of `sim/tb_system.cpp` |
| `FrameGrab` | the timing of the picture at the pins and the benches that catch it |
| `AdspTrace` | the sequencer of the ADSP under the trace bench `sim/adsp/tb_adsp.cpp` |
| `Som` | the SOM buffer between ADSP and 68010, and the bench's shadow of it |
| `RomLoad` | the download, the loader's FIFO, the save file |
| `MC*` | the small instances |

### SdramCtrl

The actions are the branches of `case (state)`: `Startup`, `IdleRefresh`,
`IdleOpenBurst`, `IdleGrant`, `IdleNothing` (S_IDLE in the order of its tests),
`Arb`, `Open2Write`, `Open2Read`, `Wait` (every state that only passes the
time; `Following` says to which), `RefreshWait`, `BurstWord`, `BurstGap`,
`BurstEnd`. Each conjoins what the same edge does outside the case:

* `Capture` - the tag pipeline, acknowledges and `rdata`;
* `Pins` - the chip obeys the command, words travel on the data pins;
* `CountRefresh`, `Decisions` - the registered comparisons;
* `BurstRegs` - acceptance and completion, which come after the case in the
  source and therefore override what the branch assigned;
* `Ports` - the clients. They hold a request until its acknowledge, as
  `docs/rtl-conventions.md` prescribes and `gsp_bus.sv`, `stunrun_core.sv` and
  `stunrun_main.sv` do. `mreset` drops the requests of all but the loader.

Words are numbers and an address is a word index; a row is `RowLen` words, so
that bursts cross rows. The latency of the data pins is `rd_late`'s: the menu
switch states the phase of the chip's clock and both sides agree on it.
The chip keeps one bank's timers and one flag, `ok`, which falls with the first
illegal command and never rises.

With `Bench` the clients are those of `sim/tb_sdram.cpp` (`BenchPorts`): they
may put a new request in the place of the acknowledged one on the same clock,
and there is no machine reset. `SdramBench` is the bench's scoreboard: a shadow
that takes a write when it is acknowledged, and the list of what it would print.
Its burst client may raise the next request with no clock low in between, where the
bench always leaves one; byte enables are left out.

### SimPrefetch

`Glue` is the always block: `Prefetch` (buffer, request), `Registers`
(address, page), `Pending` (`rd_pend`), or `ResetGlue`. The ADSP's actions are
its S_ISSUE (`Issue`: a read, a seek or a page write of any value) and S_MEM
(`Sample`, or `Stall` under `io_wait`), `Compute` for the clocks in between and
`Held` in reset. `Port` is what the controller does with a request as
`SdramCtrl` has it: the address is sampled a clock after the grant, and the
access is finished even if the request has gone. `Resets` names which resets
may strike in a run. `SimCheck` adds what the probe of
`sim/tb_system.cpp` compares on the clock a word is consumed.

### SoundLatch

`Board` is the sound board's clock (`BoardReset`, the latches, and the 6502 on
its enable); the other half of `Next` is the 68010's bus sequencer: `HeldOff`
while `snd_block` holds a write, `WriteCommand`, `StartRead`/`FinishRead`
(the strobe that clears the latch rises one clock before the data is sampled),
`ResetBoard`. External, from how the code uses it: a sound program that reads the latch once per NMI within
`Latency` cycles of the edge (`Late` is the bound: 43 us on the real board),
answers when it likes, and may `Hang`. Nothing is assumed of the 68010's program: it writes, reads and resets
whenever its bus lets it. The edge detector (`Sampled`), its reset (`InReset`) and the entry of the
interrupt are T65's.
`commands` and `answers` count the bytes written, `hearings` and `replies` the bytes read, modulo two, so that the
abstract mailbox can tell a lost byte from one never sent, and one read twice from one read once. `deaf`
marks the one command that NMI may miss (`Deafens`).

`JsaReplay` puts `sim/jsa/tb_jsa.cpp` in the 68010's place: commands and
resets that arrive when they were recorded, wait in a queue while the bench's
own hold-off runs, and answers that are read some time after the interrupt. Which of the
two drives is chosen in the initial state.

### LineFetch

The two masters of the burst port and the arbiter between them, above an
abstract port that does what `SdramCtrl` shows of the real one (accepted once
per request, words in order, done after the last has landed). `Next` conjoins
one clock of the port (`Accept`, `NextWord`, `Finishes`, or a pause), of the `Arbiter`, of the
row engine (`RowsIdle`, `RowsAsk`, `RowsWait`, `RowsGap`) and of the scan-out:
`LineStart` swaps the buffers and latches the next line, `FetchBegins`,
`FirstSegment` and `SecondSegment` fetch it. A word is its own address, so that
a word in the wrong place, from the wrong row, or of the other master is seen. Which line the GSP asks for
(the arithmetic on DPYADR, DPYTAP and the fine scroll) is a choice from `Lines`.
`shown` and `late` are history: what was latched for the line on the screen,
and whether its fetch was cut short. `LineStart` does not strike while the fetch of
the line before is still to begin: a fetch takes about a third of a line.

### GspBus and GspMemory

One disjunct per state of the FSM, and in `IDLE` per region and kind of access,
in the order of the source: VRAM word, expander halves, control latches, palette
with its registered read, shift-register rows, pixel rows. `RowBuffer` is the assembly
of words between byte phases through `xf_prev`; `Memory` does what `SdramCtrl` shows of a random
and of a burst port. Values are pairs of bytes, so that a byte that strays is seen.

The abstract memory is not made up for the purpose: it is `mem_read`,
`mem_write` and the row model of the GSP trace bench, which the core is compared with. That
the real glue implements it (`ServesGspMemory`) is what makes the bench's
verdict one about the machine. Not modelled: a reset in the middle of a transfer, rows that
cross the end of VRAM, shift-register accesses to the latch regions, the pulse `vram_copied`.

### GspCore, GspHost and GspTrace

The states of `tms34010.sv` that meet the outside: `S_CHECK`, `S_HOST1`,
`S_INT`, the two fetch states, the word primitive `S_W0`/`S_W1`, the row command, and
the blit's states from issue to write-back. Between them stands a small instruction set (external): a load, a store, a loop,
a blit and the setting of its registers, an acknowledge of the interrupt, saving and
restoring the B file, and RETI. A row is one word, numbered by
its address. Whether a fetch hits the cache, and whether a blit is older than
its budget of 2^15 clocks, is a choice.

`GspHost` adds the 68010 (one access at a time, at any time, which waits for
`host_ready`), its writes of HSTCTL, which set or clear the halt bit, INCW and INCR at once
(`Control`; `GspGoes` is the one that lets a halted core go on), and the line interrupt;
`HostPort` is what the 68010 is promised. The core's own writes of HSTADR and HSTCTLH are left out. `GspTrace` adds `main()` of the bench, action by action: read an
entry with one of lookahead, make the host accesses logged before it, force the
interrupt that the lookahead implies, compare, run one instruction. Its
trace is computed by a reference machine (`Recorded`, external) with a
schedule of host accesses and one interrupt, and may hold a wrong register or a wrong row
of VRAM. Assumed: the first entry's host count is below the wrap. Not modelled: a
start state in which the GSP is halted.

### Raster and FrameGrab

`Raster`: `Count` advances the counters on the video enable, `Address` and
`Adjust` are the display address with its compensation for late flips,
`Interrupts` is INTPEND with the assignments to it in their order of precedence. The program writes
DPYADR, DPYSTRT, INTPEND or HSTCTLL on any clock, the host raises its interrupt on any
clock. `buffer`, `rows`, `lag` and `owed` are history. Assumed: DPYSTRT[1:0] = 0, as
the game writes it. Left out: DPYCTL[15], which enables the display interrupt, and the bits WV and NMI.

`FrameGrab`: a pixel clock and an output clock of different rates, the
window that opens with the blanking registers and runs at the output rate, the pipeline of
data enable, sync and colour, then the counting of rows and columns of `sim/tb_video.cpp` and
`sim/tb_system.cpp`. A pixel is the frame, line and column it belongs to.

### AdspTrace

`Idle`, `Fetch`, `Issue`, `Mem`, `WriteBack` are the core's states. The bench's
`Tick` raises halts at random, answers IO after a random wait, feeds 68010 writes
from the log, and matches each access; `Mid` is the comparison with a saved
state. What is recorded may hold one fault of any kind (an access, a value,
a register, a memory word). The circular addressing (`Within`, `Modify`)
is as in the core, the base of `load_state` as in the bench. Bounds of what it can
tell: no interrupt is raised (the bench drives 0); a core that ignored
`io_wait` would pass, since the bench's IO data is steady during the wait.

### Som and RomLoad

`Som`: the ADSP's pointer and write, the 68010's flip, write and read
through a registered address, the RAM's two ports (what both ports do to one
cell on one clock is any value). Nothing is assumed of who flips when: that protocol is in
the two games. `TracedBank` is the bench's shadow.

`RomLoad`: `Byte` is the bench's download, a byte every eight clocks; `Fifo`,
`Lane`, `Direct` route it; `Controller` serves client 4 at the controller's pace with a refresh now and
then; `Wait` drains, `Save` writes the save file over the factory defaults.

## 3. The runs

| run | expects | question |
|---|---|---|
| `sdram_bursts` | pass | do chunks, rows, refreshes and two clients keep the chip's timing, the refresh, and whole bursts? |
| `sdram_live` | pass | are the ports private memories, served once each, and is everything served, with a free-running clock? |
| `sdram_bench` | pass | does the random bench have nothing to complain of, and is nobody passed twice by the same other? |
| `burst_after_reset` | violation | is a burst whole if a machine reset cut off the one before? |
| `sim` | pass | is the prefetched ROM the serial ROM, and does the probe agree? |
| `sim_reset` | violation | and after the watchdog's reset? |
| `sim_adsp_reset` | violation | and when the ADSP alone is reset? |
| `sound` | pass | does every byte get across, and is nobody stuck? |
| `lines` | pass | is the line on the screen the right one, whole, and does the burst port serve both masters? |
| `line_parity` | violation | does the read-out start with the right byte when the scroll moves? |
| `gsp` | pass | is the glue the bench's memory, is the host served between and inside blits, is the trace bench right? |
| `board` | pass | do flips, pictures, ADSP traces, SOM words and the download arrive as they should? |

`gsp` and `board` are several small systems in one run: in `MCGsp` and
`MCBoard` the variable `part` says which of them moves, and the others rest in an
initial state. The state space is the sum of theirs, not the product.

What the properties say, and the code they are about:

* `OneAccessPerRequest` - from grant to acknowledge an access is in one place
  and its client still asks. The mask `c_req & ~c_ack` of the arbiter is all
  that keeps a request from being served twice.
* `ServesMemPort` - refinement of `MemPort`. A word tagged one stage early
  goes to the right client with the wrong value; this is where it shows.
* `NobodyPassedTwice` - while a client waits, each other client is granted at most once, counted pair by pair.
  `AtMostTwoChunks` - the wait behind a burst, in chunks.
* `ChipTimingMet` - tRCD, tRP, tRAS, tRC, tRFC, tWR, open rows, data pins.
* `RefreshBounded` - a refresh is overdue by the longest service at most.
* `BurstComplete` - at `b_done` a reader holds, and the chip has been
  given, exactly the words of the burst. `BurstsComplete`, `RequestsServed` - and it comes.
* `NoComplaint`, `ShadowIsChip` - the scoreboard prints nothing, and for the right reason:
  its order of accesses, that of the acknowledges, is the chip's.
* `BufferTrue` - a valid buffer holds the word of its index, through seeks
  while a fetch is under way. `SimCheckSilent` - the probe sees no stale
  word. `PendingTogether` - the board and the core agree on who
  waits. `StreamsInOrder` - refinement of `SimStream`: a read takes the word of the index and
  advances it once, and the index moves otherwise only in the IO cycle that writes it. A word read
  twice or skipped has no step there. `ReadsAnswered`.
* `NeverDeaf` - a full command latch before a live 6502 has its edge
  still to come, seen, or being handled. `EveryCommandHeard`, `NoAnswerLost` -
  refinements of `Mailbox`: nothing is overwritten unread, nothing is read twice. All three hold around
  resets of the board too, with one exception (`deaf`): a command that comes after a reset and before
  the 6502's first cycle, when the reset struck with NMI_n sampled low (section 6).
  `NeverWedged`, `CommandsTaken` - progress.
* `ShownLineTrue` - the shown buffer holds the words of the line latched a
  line ago, wrapped, unless its own fetch was late; a late line spoils no other,
  although its last words land in the next line's buffer. `PieceTrue` - the row
  engine has its piece when it is told so. `OnePieceFirst` - the turns the display
  waits. `BurstsServed` - neither starves.
* `ServesGspMemory` - refinement: each request of the core takes effect
  whole, between two clocks, as in the bench's memory. `OldOrNew` - meanwhile every byte is the old
  or the new one, and the display, which reads in between, shows no third. `RequestsAnswered`.
* `ServesHostPort` - refinement of `HostPort`, with its liveness: a host access is made once, at
  HSTADR, which moves on as INCW and INCR say, and is made in the end. `HostNext` - while a host access
  to memory waits, at most one word cycle of the core ends; rows of a fast blit may end too, but then only what is
  left of that blit comes first.
* `BlitsWhole` - the rows of a blit, interrupted and resumed any number of times, for programs that
  keep the discipline of the blits (`Proper`): every board of the runs, no bench (there `TraceVerdictRight` judges).
* `TraceVerdictRight`, `VerdictRight` - PASS if and only if the core did what was recorded.
* `RightRows` - a late flip goes on at the row it would have reached, one in blank starts at the first; `lag`
  says by how many rows the two exceptions are off (section 6). `InterruptKept` - a raised interrupt stays.
  `ProbesTell` - what ROWLOG and FLIPLOG report.
* `PictureWhole` - the frame buffer holds each pixel in its place, all of one frame.
* `ReadRight`, `ShadowTrue` - SOM words. `ImageLoaded` - every byte where its reader looks.

### Bounds

* *Clients.* Two or three. Round-robin needs three to pass somebody twice.
  They ask for fixed words, each at any time; in `sdram_live` a reader and a writer
  share one word, in `sdram_bench` a writer and two readers ask for one word inside the burst.
* *Bursts.* Chunks of two words, rows of four: bursts of three to five words span
  two or three chunks and a row end (the source: 32 and 512). A burst of one word
  and one that starts on a row's last column are included.
* *Refresh.* `CYCLES_PER_REFRESH` is 12 to 50 clocks instead of 750, so
  that a refresh falls due in every state. `REFRESH_MAX` is just large enough for the
  power-up sequence, whose four commands keep their distances. The runs need no cap on
  a counter: each is reset or wraps as in the source.
* *Both spacings and latencies.* `sdram_bursts` has `burst_slow` and the early
  sample, the others the fast spacing and `rd_late`.
* *SIM.* Pages of two words, two pages in the ROM and one past its end; every
  byte differs, so that a swapped or stale word shows. `Rest = 2` clocks between
  IO cycles instead of the core's five or more is the harder case.
* *Sound.* A 6502 cycle of three clocks instead of 53.6, a guard of 2 cycles
  instead of 8, a reset of 2 instead of 15, a handler of up to 5 cycles. The
  timeout keeps its relation to them: it is just longer than the slowest
  reader and the guard together (`InTime`, an assumption TLC checks). One event waits
  in the replay's queue. There is one command byte and one answer byte: the mailboxes count what is put and
  taken, so two equal bytes are not confused; the proofs are for any set of bytes. The 68010 writes,
  reads and resets in any order and at any time its bus allows, in and right after a reset too.
* *Lines.* Two words per line in rows of three: a line that ends with its row and
  one that wraps, in different rows; pieces of two words (read) and of one
  (written). Line starts come at any distance, so that most fetches are late in some behaviour.
* *GSP bus.* VRAM of 32 words, pieces of two (the source: 32). Pixel rows of 1 to 7
  bytes over both byte phases of source and destination, apart and overlapping
  either way, copied, filled, with transparency: two to four words, so one or two
  pieces, in each phase. Nine sequences cover the other regions and what one access leaves to the next.
* *GSP core.* Blits of three rows against a window of three, clipped at neither, the first
  or the last side, upwards and downwards, fast and slow; the core's program loops for ever, while line interrupts, host
  accesses and writes of HSTCTL strike at most twice in all (`MaxEvents`), at any clock: enough for an interruption
  inside a resumed blit, or a host access inside an interruption. In the trace bench: four host accesses around a wrap at 4, an interrupt before any of the first four
  steps, recordings of five and seven entries.
* *Raster.* Six lines of two clocks, three of them shown, display addresses modulo 16, two buffers.
* *Picture.* Three lines of four pixels in a raster of seven lines of five video clocks; three frames; every phase of the two clocks (5 and 2 machine clocks) at the start.
* *ADSP.* Three instructions, four recordings that reach RAM, IO and nothing,
  a circular buffer that wraps either way, and a 68010 write of data or of one half of a program word before one of the instructions; one halt.
* *Loader.* A FIFO of two entries instead of 64 and a drain of 12 clocks: the margin is
  the same question, asked with the real byte rate and the real access time.

Deadlock is checked in every run but `gsp` and `board`, whose benches and lists
of requests come to an end.

## 4. Fairness

`WF(Next)` in each module: the clock never stops. Beyond that:

* `SimPrefetch` asks `WF` of the port's progress, which `sdram_live` justifies
  (`RequestsServed`), and that resets do not go on for ever;
* `SoundLatch` asks `WF` of a waiting bus access's next step: step tokens keep
  coming (`cen_8m` adds to `tok` on every pulse), and the replay bench does not stop;
* `LineFetch` and `GspBus` ask `WF` of the port's progress (`BurstsComplete`, `RequestsServed`);
* `GspHost` asks `WF` of the core's clock, of the 68010's wait for `host_ready`, and that a
  program that halted the GSP lets it go again.

`MCGsp` states the last two where their part runs. `board` checks safety only.
No fairness is asked of the 6502: it is bounded by `Late` while alive, and may hang.

## 5. The proofs

The argument is the same each time: `Init => Inv`, `Inv /\ [Next]_vars => Inv'` with one
step per action or part of the state, `Inv => P`, joined by PTL; for a refinement, one lemma
per action says which abstract step it is. Each theorem rests on its module's assumption on the constants,
which TLC evaluates in every run, and on the hypotheses named here. TLC checked each invariant
before it was proved. The theorems hold for every value of the constants: any number of clients, any chunk,
row, line and page length, any refresh interval, both menu switches.

### The controller: `SdramCtrlProofs`, `SdramInterfaceProofs`

| theorem | states | hypotheses | rests on |
|---|---|---|---|
| `TypeCorrect` | `TypeOK` | none | `BurstInv`: what was issued and what remains of a burst add up to its length |
| `OneAccess` | `OneAccessPerRequest` | no machine reset, not the bench | `AccessInv`: whose access it is in each state, and the one stage its tag is in |
| `RefreshInTime` | `RefreshBounded` | none | `RefreshInv`: the counter is the interval plus the clocks away from S_IDLE, at most |
| `ChipTimingsMet` | `ChipTimingMet` | `ChipKeepsUp`, `WholeStartUp` | `PinsInv`: what each timer of the chip may still have to run in each state of the FSM |
| `ImplementsMemPort` | `ServesMemPort` (refinement) | no machine reset, not the bench | `AccessInv`, `ServeInv` |
| `RoundRobin` | `NobodyPassedTwice` | none | `TurnsInv`: a client that has been granted while another waits is behind it in the round |
| `TwoChunks` | `AtMostTwoChunks` | no machine reset, not the bench; `RefreshesFarApart` | `OwnerInv`, `ChunkInv` |
| `WholeBursts` | `BurstComplete` | no machine reset, not the bench; `WordsApart` | `OwnerInv`, `WordsInv`: each word issued has been taken, or is in a stage of the pipeline, or on the outputs |
| `BenchShadow`, `BenchSilent` | `ShadowIsChip`, `NoComplaint` | the bench; its bursts read | `BenchInv`: between its command and its acknowledge an access is still its client's latest request (`AccessDue`), words in flight land before `b_done` (`LastWord`, `WordsDue`) |

`TypeOK` alone is not inductive: that `b_remain` never goes below zero needs `BurstInv`. The
case that matters in `AccessInv` is the grant: in S_IDLE no tag is in flight, but an acknowledge
may be up; `pick` is pending (`PickPending`, from the least-number principle
`LeastNatural`), and pending means not acknowledged. `ServeInv` adds the word on the data pins: it moves towards
the sampling register in step with the tag, which is the refinement's "served" phase.

The hypotheses say what the machine around the controller has to keep to, and `MCSdramCtrl`
and `MCSdramLive` assert them of their instances. `ChipKeepsUp`: the chip's timings at the
machine's clock fit the waits of the FSM. `WholeStartUp`: the power-up sequence fits the
start-up count. `RefreshesFarApart`: a service and seven clocks between two refreshes (173 of
the core's 750), so that a client that has been passed by one between two chunks is not passed by another.
`WordsApart`: no burst meets itself, and no client writes into it while it runs - otherwise
"the words of the burst" would have no meaning. "No machine reset" is needed: `burst_after_reset`
shows `BurstComplete` false with one, and a reset drops requests that `MemPort` would still serve. `ChipTimingsMet`,
`RefreshInTime` and `RoundRobin` hold with resets and for the bench too. The bench has its own invariant
because its clients leave no clock between two requests: an acknowledge may meet the next request of
the same client, which `AccessInv` excludes. `BenchInv` therefore compares the access under way with the request that
was there when it was granted, and that request stands until the clock of its acknowledge. The bench's bursts read, as
those of `tb_sdram.cpp` do; a written burst is not in its scoreboard.

### The machine's parts

* **`SimProofs`**: `SimBufferTrue`, `SimCheckStaysSilent`, `SimPendingTogether`, and
  `SimStreamsInOrder`, the refinement of `SimStream`, whose interface has the IO cycle and the pending read in it.
  `BufferInv` says what the
  port is asked for while a fetch is under way (`FetchAsks`), that an answer is the word of that
  address (`PortAnswers`), and that without a fetch the port is quiet (`QuietBetween`), the part
  that the watchdog's one-clock reset breaks. The hypotheses are therefore on `Resets`: no watchdog
  reset for the buffer, no reset of the ADSP alone for `PendingTogether`, neither for the stream;
  `sim_reset` and `sim_adsp_reset` are the counterexamples without them.
* **`SoundLatchProofs`**: `SoundNeverDeaf`, and the two refinements of `Mailbox`, `SoundEveryCommandHeard` and
  `SoundNoAnswerLost`. `LatchInv` follows a command from the 68010's strobe to the handler: the line
  is sampled high before it falls (`SampledHigh`, from the guard, or from a first cycle after a reset; the command
  that has neither is the exception `deaf`), one interrupt is outstanding
  at a time, and a held write has waited no longer than the handler's age and the guard (`StallBounded`). The last one is
  where the assumption `InTime` is used: the hold-off may end only when nobody is alive to read.
* **`LineFetchProofs`**: `ShownLineIsTrue`, `PieceIsTrue`, `DisplayWaitsOnePiece`. `LineInv` says
  that a burst on the port belongs to who was granted it, that its words come in order, what of the line
  and of the piece has landed (`FilledSoFar`, `PieceSoFar`), and who is next (`DisplayNext`).
* **`RasterProofs`**: `RasterRightRows`, `RasterInterruptKept`, `RasterProbesTell`. Here the work
  is arithmetic modulo the address range: `dpy_adj` is the pitch times the lines since
  the picture's first (`AdjustSums`), also on the two clocks on which `lag` is set.
* **`RasterProofs`**, of `FrameGrab`: `WholePicture`. The bench sees de and vsync three beats late, so
  the invariant follows it through them: `B0` is the bench now and `B3` the bench once it has seen the three
  beats on their way. Each beat must find the bench in its place (`BeatFits`: a vertical sync after the last
  row, a line after a whole row), and `B3` is where the raster's counters say (`Ahead`). That a line is read out before
  its window closes although the two pixel clocks share no phase is the arithmetic of `Windows`. `Grabbed`
  says what the buffers hold of the frame under way and of the last one. The hypothesis `PixClocks >= 2`
  is needed: the window must not open on the clock its line's registers change. The machine has 9.6.
* **`MemoryProofs`**, of `Som`: `SomReadRight`, `SomShadowTrue`. What makes a registered read safe is that from
  its start to its sample the port writes nothing and looks at the bank the
  68010 has, which cannot flip meanwhile (`ReadUndisturbed`).
* **`MemoryProofs`**, of `RomLoad`: `ImageIsLoaded`. `LoadInv` follows a byte from the strobe
  through the FIFO (`FifoHolds`: its entries are the bytes between the last popped and the last pushed,
  in order) and the command to its cell (`StoredRight`). That a FIFO without a full flag is never overrun is a
  count of clocks (`KeepsPace`): seven serve a byte and eight bring one, a refresh costs eight, and
  by the next the controller has caught up. So the hypothesis `FifoSuffices` is two entries and
  64 clocks between refreshes; the core has 64 and 750. No hypothesis is needed on the
  drain: the sound ROM and the ZRAM come last and bypass the FIFO, which is empty 18 clocks into them (`Empties`).
* **`GspProofs`**, of `GspHost`: `HostComesNext`, and the refinement `HostPortServed` of
  `HostPort`'s safety, which is half of `ServesHostPort`. `WaitInv` counts: nothing of the core's has ended
  when an access is raised; a word cycle that ends while it waits was begun before it, and leads to a state in
  which the next cycle is the host's. `OnePlace` says that a host access is waiting, on the
  core's word primitive, inserted before one of the core's own, or just answered, never in two of these,
  and that the 68010 waits for it there; so no path through the core makes it twice or drops it. The
  hypotheses are the kinds of what the core starts with: the program, the handler and the blit are any.
* **`GspProofs`**, of the blits of `GspHost`: `BlitsAreWhole`. `BlitInv` says what main sees through any
  interrupt: there are a place `m` in main, its P bit, and values `d` and `n` of DADDR and DYDX which are the core's own or,
  while the handler runs, lie on the stack in whole or in part (`View`). Outside its rows main is at rest (`AtRest`): with
  the registers of the job, or at an interrupted blit whose `d` and `n` end where the blit asked for
  ends (`LeftOf`) and whose rows before `d` are painted, no other and, unless the window cut the first off, each once
  (`PaintedTo`). Among its rows the same holds up to the row in hand (`Painting`). Much of
  the proof is that an interrupt preserves this across the write-back, where the direction of
  the blit and the window decide which register moves (`ClipsFirst`, `Restarts`). The hypotheses: the job is a blit not yet
  begun, and `Proper`, part of the property: main loads the B file before each blit and leaves it
  alone until the end, the handler blits only between saving it and restoring it, the rows of the two
  are apart. The source asks for the saving (src/rtl/gsp/tms34010.sv:741); without it no core could resume.
* **`GspProofs`**, of `GspBus`: `BusOldOrNew`, and the refinement `BusServesGspMemory` of `GspMemory`. `BusInv` compares
  the memory with the request's target byte by byte: what a latch or the palette has taken
  (`RegisterInv`), which pixels the expander has coloured (`Expanded`), which words of a transfer have
  landed in the row buffer, shifted by its byte phase (`Gathered`), and that the words written so far have the
  target's bytes and the others the old ones (`WrittenSoFar`). The handshake of the ports (`Handshake`)
  is needed for its index: a word that has arrived is stored a clock later, and a word to be written
  is looked up a clock earlier, so the row buffer lags one way and leads the other. The hypotheses on requests
  (`GspBusAssumption`): a row ends inside VRAM and fits the row buffer, shift-register cycles are made on VRAM and
  the expander, and rows of words divide VRAM. Sizes, bursts, requests and the pace of the ports are any.

### Not proved

Liveness and ENABLED are out of the prover's reach: `RequestsServed`, `BurstsComplete`,
`ReadsAnswered`, `CommandsTaken`, `NeverWedged`, `BurstsServed`, `RequestsAnswered` and the
fair half of `ServesHostPort` stay with TLC. So does induction over data: what the recursive reference machines of
`GspTrace` and `AdspTrace` compute. `ParityOfShown` is false and has a run that shows it.
So `TraceVerdictRight` and `VerdictRight` are the safety properties that are model-checked only.

## 6. What the checks found

Most properties hold. The disagreements, each with its run:

1. `burst_after_reset`: a machine reset in the middle of a burst leaves
   `b_issued # 0` and `b_remain = 0`; the next burst may be told `b_done` before its words.
2. A waiting client may see two chunks go first, not one (`sdram_bursts`).
3. The arbiter is round-robin, the header says fixed priority (`sdram_bench`).
4. Refreshes are at least `CYCLES_PER_REFRESH + 3` clocks apart, the comments say
   the interval is unchanged (`sdram_bursts`).
5. `sim_reset`: the watchdog's reset lasts one clock, so the SIM buffer takes
   the answer of the access it cut off for its first word.
6. `sim_adsp_reset`: `rd_pend` outlives a reset of the ADSP alone.
7. `tb_system` prints FAIL for wrong SIM words and exits with 0 (`sim`).
8. `line_parity`: the parity of the first pixel comes one line late; a line is
   a pixel off when the fine scroll changes by an odd amount.
9. A host access waits for all the rows left of a fast blit, not for "at most one memory
   cycle even mid-blit" (`gsp`, `HostNext`).
10. A slow blit that the window clips on the side it starts from, and that is
    interrupted, draws some rows again (`gsp`, `BlitsWhole`).
11. The trace bench cannot judge a handler with a blit of its own inside an
    interrupted blit, nor an interrupt taken just after a blit has ended (`gsp`, `Undecided`).
12. `TB_FLIPLOG` prints the raster's own steps as flips (`board`, `ProbesTell`).
13. A flip written on the clock of a line's step is one row behind for the rest of
    the frame (`board`, `RightRows`).
14. A flip written on the clock that loads the display address at the start of blank is stored less the
    whole picture's steps, and the next frame is shown that far into the buffer (`board`, `RightRows`).
15. Interrupts raised on the clock of another assignment to INTPEND are lost (`board`, `InterruptKept`).
16. Vertical sync does not follow the counters by a line, as the comment says; the picture is
    whole all the same (`board`, `PictureWhole`).
17. A reset of the sound board does not clear the 6502's sampled NMI_n: when it strikes with the line low, a command
    that comes after it and before the 6502's first cycle makes no edge, and the latch stays
    full until the next reset (`sound`, `NeverDeaf`).

Items 2 to 4, 7 and 9 to 17 are properties that hold in the form given, with the
exception written into them. The consequences of 1 and 5 are bounded: one line of the
display, one word of the SIM stream after a watchdog reset.

## 7. What is left out, and the plan

Left out of the modelled parts: `hw_reset` on a running controller, byte
enables in the controller (every access there is a whole word; `GspBus` has them), the four
banks as separate timers (the controller never has two rows open), switches changed while running,
and what section 2 names under each module.

Not modelled: the instruction sets (traces cover them), FM, ADPCM and mixing,
clock dividers, the Pocket's top level and video re-timing (other clock domains,
pin adaptation), vendored cores. Of the benches: `tb_main`, which compares a
vendored 68010 with a trace; the parsing of files; and in `tb_system` the exit
without video, the input windows and the probes that only print (DIWHY, DILOG, LISTRACE and their likes).

Next, most important first:

1. `MainBus` - the byte writes to the ADSP's RAM, watchdog, ADC and interrupt levels.
2. `ICache` - coherence through generation wrap and sweep, which replaces the choice of hit or miss in `GspCore`.
3. `AdspStacks` - stack depths and loop ends.

To be proved: the cache's coherence, once modelled. `TraceVerdictRight` and
`VerdictRight` compare with recursive reference machines and stay with TLC.
