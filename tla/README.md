# GDBWave in TLA+

GDBWave (`src/`) replays the simulation of a RISC-V CPU, recorded as an FST
waveform, to an unsuspecting GDB. It extracts three traces from the waveform
(retired instructions, register file writes, memory writes), then accepts one
GDB connection and answers the remote serial protocol (RSP) by moving an
iterator over the recorded instructions. This directory holds TLA+ models of
it, TLC configurations that check them, and TLAPS proofs about them.

## The system

| part | source | state | operations |
|---|---|---|---|
| start-up | `main.cc` | options, configuration | parse, construct the parts in order, serve |
| waveform access | `FstProcess.*` | FST context, handles | `assignHandles`, `getValueChanges` (calls back once per value change) |
| FST library, writer | `fst/fstapi.c` | `fstWriterContext`: frame, chains and times of the present block, geometry, hierarchy | declare scopes, variables, attributes; emit values, times, blackouts; flush, close |
| FST library, reader | `fst/fstapi.c` | `fstReaderContext`: section offsets, lengths, mask, range, hierarchy position, last block looked up | open, iterate over the hierarchy, iterate over changes, look up a value |
| program trace | `CpuTrace.*` | current pc and valid, `pcTrace`, `pcTraceIt` | `pcChangedCB` |
| register trace | `RegFileTrace.*` | current write port, `regFileTrace` | `memChangedCB`, `getValue(time, reg)` |
| memory trace | `MemTrace.*` | current command port, `memTrace`, initial contents | `processSignalChanged`, `getValue(time, addr)` |
| target | `gdbstub_sys.cc` | iterator, `dbg_state` (registers, signum), breakpoints | continue, step, restart, add and delete breakpoint, read byte |
| RSP engine | `gdbstub.cc` | place in `dbg_main`, `pkt_buf` | receive and send packets and acknowledgments, dispatch |
| connection | `TcpServer.*`, `dbg_sys_getc/putchar` | one socket, `rxbuf` | `recv`, `xmit` |
| logging | `Logger.*` | log file | none that matters |

The parts are constructed in that order and never run at the same time: the
traces are complete before the server starts, and the server is one thread.
What is concurrent is GDB, at the other end of a TCP connection:

    waveform --callbacks--> traces --getValue, iterator--> target <--dbg_sys_*--> RSP engine <--TCP--> GDB

What is hard, and what correctness means:

* **Target.** Two copies of the past have to agree: registers are copied into
  `dbg_state` at each stop, memory is looked up when asked. The iterator may
  reach `end()` and is dereferenced by everything. End of trace is one thing
  for a step and another for a continue. Correct: GDB sees one instant of the
  recording, never made-up values; a continue passes no breakpoint.
* **RSP engine.** Control returns to the top of `dbg_main` after each
  resumption, at the end of the input, and after each packet it refuses; each
  time it sends a signal packet. Acknowledgments are read by a function that
  takes every other character for the end of the session. Correct: GDB and stub
  stay in step, each command is taken once and answered, the stub ends when GDB
  leaves and only then.
* **Both.** A reply is computed in one state of the target and taken by GDB
  later; GDB keeps a breakpoint table of its own. Correct: what GDB is told is
  true when it hears it.
* **Characters.** `pkt_buf` is never cleared, and a reply is written over the
  command it answers. A packet may not fit. Correct: a command is read as it was
  sent, a reply holds what was asked for.
* **FST.** A file is written in blocks that end when they are full, when they are
  asked for, at a size limit or never, because the simulator is killed; equal
  chains are shared within a block; the reader keeps tables and positions from
  one block, pass or lookup to the next. Handles are counted, not stored.
  Correct: what was put into finished blocks comes out once, in order, on time
  and for the variable it belongs to.
* **Traces.** Callbacks deliver one value change at a time, in an order that is
  not fixed for changes at the same time; two signals may be one. Correct: the
  entries are what the CPU did, in time order.

## Modules

| module | role |
|---|---|
| `Traces` | entries of the traces; `getValue` of registers and memory as operators |
| `DebugTarget` | abstract specification: what GDB is promised of a target that replays an execution |
| `TraceReplay` | `gdbstub_sys.cc`: the target; implements `DebugTarget` |
| `TraceLemmas`, `TraceReplayProofs` | TLAPS: lemmas on the trace operators; invariants of `TraceReplay`, and that it implements `DebugTarget` |
| `RspLink` | `gdbstub.cc` without the commands, the TCP connection, and GDB's side of the protocol |
| `RspLinkProofs` | TLAPS: replies match, commands are taken in order, an undisturbed session goes on |
| `GdbServer` | the dispatch of `dbg_main`: `RspLink` and `TraceReplay` composed |
| `GdbServerProofs` | TLAPS: what GDB is told is true; the session implements its parts |
| `Waveform` | the recorded simulation, played back as callbacks (`FstProcess`) |
| `PortTrace` | how each of the three traces listens to the callbacks |
| `Extraction` | the three traces extracted from a waveform, next to the CPU that was simulated |
| `ExtractionProofs` | TLAPS: the program trace is the retired instructions; registers and memory are the CPU's |
| `RspPacket` | the characters of a packet: `pkt_buf`, numbers, checksum, hex; the memory and register replies |
| `RspPacketProofs` | TLAPS: commands are understood as sent, memory replies hold the bytes asked for |
| `FstBlocks` | the value change block of FST: chains, their sharing, the index, as operators that write and read them |
| `FstWriter` | the FST writer: variables, changes, times, blocks, closing |
| `FstReader` | the FST reader: opening, iterating over changes, looking up values |
| `FstFile` | one writer, its file and one reader composed; the properties |
| `FstProofs` | TLAPS: finished blocks stay, adjoin, and can be opened; times and blackouts are delivered in order |
| `FstHier` | the hierarchy of an FST file, written and iterated over, and `FstProcess::assignHandles` |
| `FstHierProofs` | TLAPS: what is read and found in a hierarchy |
| `MCTraceReplay`, `MCRspLink`, `MCGdbServer`, `MCExtraction`, `MCFst`, `MCFstHier`, `MCFormats` | values of the constants for TLC; `MCFormats` puts `FstHier` and `RspPacket` side by side in one run |

### TraceReplay

A state of the module is the static state of `gdbstub_sys.cc`: `it` is
`pcTraceIt` (positions count from 1, `End` is `end()`), `regs` and `pcReg` are
`dbg_state.registers`, `signum`, `breakpoints`. `wave` is the recording; it is
chosen in `Init` and never changes. `mode` and `ret` say whether the loop of
`dbg_sys_continue` runs and what the last operation returned to `dbg_main`.

The loop is modelled one iteration per action (`ContinueCall`, `ContinueScan`,
`ContinueReturn`), everything else is one action per function. `UpdateState`,
which the code calls at the end of a stop, is part of each stop. `Word` is the
truncation to 32 bits that assigning a 64 bit value to `address` or `reg` does;
breakpoints are compared with the truncated value, as in the code.

`DebugTarget` has a continue in a single step. The refinement mapping takes that
step when the loop starts: while the loop runs, the abstract position is
`StopFrom(it)`, the first breakpoint at or after the iterator, or the last entry.

### RspLink

The control state `stub` is the place where the one thread reads or is about to
write. Characters are grouped in units: an acknowledgment, an interrupt or a
packet. `ReceiveAck` is `dbg_recv_ack`; the packet actions are the ways out of
`dbg_recv_packet`; the `Execute` actions are what the cases of `dbg_main` do to
the protocol, whatever their command is. `taken` and the number a reply carries
are history: no guard of the stub reads them.

GDB's actions are external. They model what the code relies on: one command at
a time; its acknowledgment first (packets met on the way are acknowledged and
dropped), then its reply; retransmission on `-` or when the acknowledgment is
late; a late reply is given up, except the stop of a resumption; an interrupt
can be typed while the program runs; GDB can leave at any time, and what the
stub has not read may be lost then.

### GdbServer

Each case of `dbg_main` is one action: a joint step of the target (an action of
`TraceReplay`, or nothing) and of the protocol (an `Execute` action of
`RspLink`). A continue is dispatched by `ContinueBegins`, scans in steps of its
own while GDB acts, and returns to the protocol by `ContinueReturns`. `believed`
and `unsure` are GDB's view of its breakpoints: the inserted ones as far as it
was told, and those about which a reply came too late.

### Extraction

`FstProcess` plays the waveform back once for each trace and calls back for each
change of the trace's signals. `Waveform` has `pending`, the handles still to be
called back for at the present time, and takes them in any order: nothing in the
code or the FST format fixes one. `PortTrace` is what the three callbacks have in
common: drop a value with an x or z, give a known one to the first signal in the
chain of comparisons that has the handle, and look at the current values when the
clock falls. `Extraction` has three instances of it, which differ in their chain
and in the entries they append (`PcEntries`, `RegEntries`, `MemEntries`). The
traces share nothing, so that one play-back serves all three.

The simulated CPU (`Retire`) is external. It has the real registers and the real
memory, and keeps for each retired instruction what they were. Three assumptions
say what the code takes for granted of a waveform: the clock is nobody's alias
(`HandleAssumption`); signals with one handle have one value (`AliasAssumption`);
before the first rising edge no port is active, later every active port has known
values (`PortAssumption`). Bus writes are of 1, 2 or 4 bytes, at multiples of
that number: the CPU traps otherwise.

### RspPacket

`RspLink` takes a packet as one unit; this module opens it. `buf` is `pkt_buf`,
`input` the characters on the way to the stub. `Parse` is what the macros of
`dbg_main` make of the buffer for each letter: `StrToL` (`dbg_strtol`, sign and
`0x` included, wrapping at the width of an address) on the rest of the packet,
separators wherever `ptr_next` points, behind the end of the packet too.
`Execute`, `Refuse` and `Overflow` are the ways out of `dbg_recv_packet`:
executed, refused for its checksum, given up because the buffer is full. The last
two lead to the top of `dbg_main`, which sends a signal packet and reads an
acknowledgment out of whatever is left of the packet. `UsesBuffer` says which
replies are written to `pkt_buf`.

### FstBlocks, FstWriter, FstReader, FstFile

`FstBlocks` has no state. `Chain` is what a handle's changes become in the file,
`EntryValue`, `Delta` and `AfterEntry` take a chain apart; `Pointers` and
`IndexOf` write the index of a block (`fstWriterFlushContextPrivate`),
`ReadIndex` reads it into the tables of `fstReaderIterBlocks2`, item by item,
over what the block before left in them. Values are sequences of characters;
bits, letters, vectors and strings have the encodings of the code. A varint is
one number and a chain is not compressed.

`FstWriter` has `xc` (`struct fstWriterContext`) and `file`, a sequence of
sections and what stands next to them. A section is begun as a header tagged
`skip` and becomes a block when its tag is written over, which is the last
write of a flush. `EmitTimeChange` contains the flush of a block that is full or
was asked for. `Close` has the five cases of `fstWriterClose`: a block that was
begun and is empty is cut off; a full file is left as it is; when time has never
begun, a first time is made up; otherwise there is something to flush or not.
`Die` is a simulator that is killed; `Crashes` are the flushes in which the code
dereferences the tables it has unmapped when a variable was declared late: for
the file both are the same. `initials`, `emitted` and `past` are history.

`FstReader` opens the file once the writer is gone (`rd`): with the header and
the geometry, or, for a file that was not closed, with the times of its blocks
and the lengths of its hierarchy. `it` has the local variables of
`fstReaderIterBlocks2`, from block to block (`SkipBlock`, `EndOfRange`,
`LoadBlock`) and within one from change to change (`DeliverChange`,
`NextTimeIndex`). `heads[i]` is the linked list of handles that change at time
index `i`. `rv` is the block, the chain and the position that
`fstReaderGetValueFromHandleAtTime` remembers between calls (`Lookup`). `out` is
all that was delivered. gdbwave itself uses the iteration with a mask and without
a range; VCD text and lookups are the library's other two ways to read.

### FstHier

The writer's actions append records to `hier` and codes to `geom`; `told` is what
the simulator knows of each: the full name, and the handle it was given. A name
is a sequence of letters, one of which is the dot. `AssignHandles` is one call of
`FstProcess::assignHandles`: a whole pass over the hierarchy, with the handles
counted from the beginning and the scope stack that the call before it has left.
The first call may start with any value in `sigNotFound`, which is not
initialised.

## Runs

| run | module, configuration | shows |
|---|---|---|
| `replay` | `MCTraceReplay`, `TraceReplay` | the iterator is inside the trace when GDB is served; registers are those of the present instruction; nothing of the future is shown until a restart; `DebugTarget` is implemented; a continue ends |
| `link` | `MCRspLink`, `RspLink` | with damage, an interrupt, a repeated command and late replies, commands are taken in order and replies matched; an undisturbed connection ends only when GDB leaves and answers everything; the stub ends when GDB has left |
| `server` | `MCGdbServer`, `GdbServer` | what GDB is told in a session of any commands, over a bad connection, is true when it hears it; breakpoint tables agree; undisturbed, all is answered |
| `extract_safety` | `MCExtraction`, `ExtractionSafety` | whatever the order of callbacks, the program trace is the retired instructions, and registers and memory looked up at their times are the CPU's after them |
| `fst` | `MCFst`, `Fst` | what a writer put into finished blocks, closed or killed, is delivered in order and on time, by iteration, in a range, as VCD text and by lookups |
| `formats` | `MCFormats`, `Formats` | a hierarchy is read as it was declared, and signals get the handles of their names; commands are read as they were sent, and memory replies hold the bytes asked for |
| `extract_alias` | violation | aliased signals of the data bus lose every write |
| `extract_before` | violation | registers are shown as they are after the instruction |
| `replay_restart` | violation | a restart leaves the registers as they were |
| `link_ends` | violation | the session ends with GDB still connected, when what is no acknowledgment is read as one |
| `fst_stale` | violation | the lengths of a block before make a reader deliver changes that are not in the file |
| `hier_found` | violation | all signals are found, and `assignHandles` says they are not |

The violations:

* **Restart.** `dbg_sys_restart` moves the iterator and nothing else. Until the
  next stop, `g` answers with the old program counter and `m` with the memory at
  the first instruction. `StateFollowsPosition` and `OneInstant` therefore except
  the first instruction, and `DebugTarget` says so of its `Restart`.
* **Session ends.** `dbg_recv_ack` returns `EOF` for any character but `+` and
  `-`, every caller then returns -1, and `dbg_sys_init` logs that GDB has
  disconnected. An interrupt (0x03) during a continue, a command repeated for a
  late acknowledgment, and the retransmission after a `-` all end up there.
* **Aliases.** Two signals with one handle are called back for once, and the
  chain of comparisons gives the value to the first of them. On a bus that is
  always ready when it is valid, `curMemCmdReady` stays false, and the memory
  trace empty.
* **Registers at an instruction.** Valid, program counter and register write
  belong to the last stage of the pipeline, hence to the same falling edge. The
  lookup includes writes at the time asked for, so that GDB, stopped at a
  breakpoint, sees the result of an instruction a CPU would not have executed.
  `RegistersAfter` is what the traces do promise.
* **Stale index.** `fstReaderIterBlocks2` keeps `pidx`, the handle of the last
  chain, and `chain_table_lengths` from one block to the next. The first position
  in the index of a block is taken for the end of that last chain, and sets its
  length to a difference that may be negative. When the handle has no change in
  the new block, its position is cleared and its length is not; a negative length
  without a position means an alias, and the handle gets the chain of another.
  This takes three variables, of which the first and third change in a block and
  the second in the next; with the two of the run `fst` the handle whose length
  is set has a chain in the new block, and gets its right length later.
* **All found.** `sigNotFound` is set before the names of a variable are
  compared, and the value at the last variable is returned. When the last signal
  to be found is the last variable of the hierarchy, `assignHandles` returns
  false, and gdbwave ends.

### Bounds

* `MCTraceReplay`: every program of up to 4 instructions over three addresses, one
  of which needs truncation, combined with three register traces: none, writes in
  and between cycles with a value that needs truncation, two writes in a cycle.
  Loops and repeated addresses, breakpoints before, at and behind the position,
  one never reached, and programs of a single instruction occur. A word has 16
  values, enough to tell a truncated from a whole value.
* `MCRspLink`: `MaxCommands` = 5 commands (3 for the violation) of any of the five
  kinds, and at most one damaged packet, one interrupt, one late acknowledgment
  and two late replies, in any combination. A lost step shows at the next
  command, so that two commands after the fault suffice; each fault is spent at
  any moment.
* `MCGdbServer`: one recording, a loop of four instructions, and 4 commands with
  one damaged packet, one interrupt and one late reply, or 3 commands when two of
  these troubles have come (`Short`): enough to set a breakpoint, reach it, read,
  remove it or restart, and to see after each trouble a command that has none.
  Breakpoints are set at two
  addresses. Acknowledgments are never late there: a repeated command ends the
  session or is executed again, which is `RspLink`'s subject.
* `MCExtraction`: 3 clock cycles (2 for the violations), each of any of nine
  kinds: the ports idle, busy one at a time and together, stores of each size, a
  store that waits, a load; two registers, two words of memory; at first all
  signals known or all unknown. Two equal cycles in a row, a store that waits and
  is accepted, and two writes of one register fit in three cycles; nothing is
  remembered of a cycle but the current values and the trace.
* `MCFst`: two variables, of one bit each or a vector and a string; 3 value
  changes or blackouts (`MaxChanges`); times 0 to 2 and 3 of them in a block
  (`MaxTimes`), so that a block can be full, and a flush that is asked for when
  there is nothing to flush still fits in one; a block finished after two
  changes (`BreakSize`, 128 MB in the program), a size limit of none or one block,
  one flush, late variable or repeated time (`MaxExtras`), and two lookups
  (`MaxLookups`). Two blocks, the second empty or not, chains that are equal in one
  and differ in the other, and a variable that does not exist in the first block all
  fit. Not all of it is combined (`Short`): with two variables a third change comes
  only without an extra, a size limit or a blackout, a dump with blackouts has an
  extra only with one variable, and is not looked up, because a lookup never
  reads a blackout.
  `fst_stale` has three bits, without extras.
* `MCFstHier`: 5 records (`MaxRecords`; 3 for the violation) of two scopes, one
  with a dot in its name, three variables of which two have one name, two source
  files, and two lists of signals looked for one after the other. A scope within
  a scope with a variable and its alias, and a second variable outside, fit. A
  hierarchy of five records has scopes entered or left at least twice (`Short` in
  `MCFormats`): without them a fifth record meets nothing that four do not.
* `RspPacket` in `MCFormats`: 3 commands (`MaxSent`), a buffer of 8 characters
  (512 in the program) with three contents to begin with, 2 bytes in a reply (64
  in the program), words of 8 bits (32 in the program) so that addresses wrap.
  A packet that leaves its separators, a shorter one after it and a third that
  shows the damage are three; packets of 7 to 10 characters are shorter than,
  equal to and longer than the buffer.

Deadlock is checked in the runs of the replay, the protocol and the extraction.
At the end of the file `Extraction` stutters (`EndOfFile`), and `Ended` marks the
one state of the protocol in which there is nothing left to do. `Fst`, `FstStale`,
`Formats` and `FstHierFound` say `CHECK_DEADLOCK FALSE`: a file that is written
and read, and a session of `MaxSent` commands, do come to an end.

### Fairness

`TraceReplay` assumes weak fairness of the loop's iterations: inside
`dbg_sys_continue` the only thread runs. `RspLink` and `GdbServer` assume weak
fairness of the stub (`StubNext`: the thread runs when it has input) and of
`GdbReceives` (GDB's event loop handles what has arrived). Nothing makes GDB send
another command, leave, or lose its patience. `Answered` is stated for undisturbed
connections only, those on which nothing is damaged, interrupted or repeated: a
reply GDB refuses is never sent again (`gdbstub.cc:313`), and GDB waits for a stop
without a timeout. The FST modules are called by one thread and have no fairness:
what they promise is about what has been delivered when a call returns.

## Proofs

What the runs show for small instances, these modules show for all values of the
constants, with no bound on commands, cycles, changes or records other than what
the specification itself names.

| module | about | proves |
|---|---|---|
| `TraceLemmas` | `Traces`, sets of integers | maxima and minima exist; a lookup gives the last write; an entry appended changes no earlier lookup; induction over a set of numbers |
| `TraceReplayProofs` | `TraceReplay` | `TypeOK`, `StoppedInsideTrace`, `StateFollowsPosition`, `NothingInvented`, `NothingForeseen`; it implements `DebugTarget` |
| `ExtractionProofs` | `Extraction` | `TypeOK`, `RetiredRecorded`, `RegistersAfter`, `MemoryAfter` |
| `RspLinkProofs` | `RspLink` | `TypeOK`, `AnswersMatch`, `TakenInOrder`, `StaysUndisturbed` |
| `GdbServerProofs` | `GdbServer` | all its invariants; a session is a behaviour of `TraceReplay`, of `RspLink` and of `DebugTarget` |
| `RspPacketProofs` | `RspPacket` | `UnderstoodAsSent`, `ReadsAnswered` |
| `FstProofs` | `FstWriter`, `FstReader`, `FstFile` | `TypeOK`, `BlocksStay`, `Recoverable`, `TimesAscend`, `TimesInsideFile`, `BlackoutsComplete`; blocks adjoin |
| `FstHierProofs` | `FstHier` | `HandlesAgree`, `ReferencesResolve`, `GeometryAgrees`, `FoundRight`, `TrueMeansFound` |

The inductive invariants were checked by TLC on the constants of the module's run
before they were proved, but for the parts that say that some function exists
(`ScanFits`, `ScopesRight`), which TLC cannot enumerate.

### TraceReplay

For any set of waveforms that retire at least one instruction, any set of
registers and any word size (`WavesAssumption`, `WordAssumption`):

* `Invariance`: `Inv == TypeOK /\ StoppedInsideTrace /\ StateFollowsPosition /\
  NothingInvented` is inductive. The parts need each other: `TypeOK` alone does
  not make the iterator dereferenceable (`StoppedInsideTrace`), and the registers
  are in range because they are recorded values or 0xdeadbeef. The exception for
  the first instruction is what makes `StateFollowsPosition` inductive: `Restart`
  goes there without a refresh, and no other operation goes there.
* `TypeCorrect`, `NeverServesEnd`, `StateCurrent`, `ValuesRecorded`: its parts;
  the last bounds what is shown after a restart too, and no run checks it.
* `ForeseesNothing`: the registers hold at first what they hold at an instruction
  already passed, and every operation that goes forward keeps that, whether it
  refreshes a register or leaves it (`ForwardPast`). `Restart` is the one that does
  not: a register with no write yet then shows a value of the future.
* `Implementation`: `Spec => Target!Spec`. Each operation maps to its abstract
  one. `ContinueCall` maps to `Continue` (lemma `StopFromCorrect`: the mapped
  position passes no breakpoint and is one, or the last), `ContinueScan` to a
  stutter (`StopUnmoved`: an entry without a breakpoint does not move the stop),
  `ContinueReturn` to a stutter (`StopHere`).

### Extraction

For any waveforms, handles and number of cycles, under the assumptions on handles,
ports and cycles that the module states (`HandleAssumption`, `PortAssumption`,
`CyclesAssumption`, `AliasAssumption`):

* `ExtractionInvariant`: `Inv == WaveInv /\ CurrentInv /\ RetiredInv /\ TraceInv`
  is inductive. `CurrentInv` says that a signal which is not pending and not
  unknown is current; as all signals change with the rising edge and the clock
  alone with the falling one (`WaveInv`), the port is current when the falling
  edge is called back for. `TraceInv` says that the trace has all instructions
  but the one that is `Due`: retired, with its falling edge still pending.
* `ProgramRecorded`: `Spec => []RetiredRecorded`. When nothing is pending,
  nothing is due.
* `RegistersRecorded`, `MemoryRecorded`: the same for the register port and the
  memory port, where an entry is a write, and a lookup is a fold over entries: the
  write that is due is the only one by which the trace and the CPU differ, and
  the entries before an instruction give its lookup, whatever is appended later
  (`FoundAppend`). Both have a hypothesis `NoAliases`, that the signals of one
  port have different handles. It is not an assumption of the module, because
  there are waveforms that break it: the run `extract_alias` is one, and violates
  just this.

### RspLink

For any bounds on commands, damage, interrupts, repetitions and late replies:

* `RspLinkTypes`: the types of the conversation, with what each waiting state
  promises of its command, are inductive.
* Without repetitions (`ConservedInv`) one command, or its acknowledgment, or the
  reply that is still waited for is on the way, never two of them; this is what
  makes a reply answer the command, however many were given up before.
* With repetitions the commands on their way and those taken are still ordered,
  and without damage none is missing between them (`Ordered`, `CoveredInv`).
* While nothing disturbs it, the conversation stays in step: every unit on the way
  is the one its reader waits for (`CalmInv`), so that the stub never reads a
  packet as an acknowledgment, which is what would end it.
* `TypesRight`, `RepliesMatch`, `CommandsInOrder`, `SessionKept`: the four
  invariants of the runs.

### GdbServer

For any recordings with at least one instruction, memory of bytes and any word size
(`RecordingAssumption`), any bounds (`SessionAssumption`), and any set of commands
that are served as `dbg_main` serves their letter (`ServedAssumption`). GDB repeats
nothing in `GdbServer`: a repeated command is `RspLink`'s subject.

* Every step of the session is a step of `RspLink` or leaves it alone, and a step
  of `TraceReplay` or leaves it alone; therefore the invariants of both parts, and
  what they implement, are those of the session: `SessionSpeaks`,
  `SessionReplays`, `SessionDebugs`.
* `Invariance`: what has to be added is what ties the parts together: the loop of
  the target runs exactly while the protocol waits in its continue; a reply on its
  way says what the target shows, because nothing but a command moves the target
  and GDB sends none while it waits; a breakpoint that differs between GDB's table
  and the target's is in flux or one of which GDB gave up the reply.
* `SessionTypes`, `ViewCurrent`, `InstantsAgree`, `StopsTrue`, `TerminationsTrue`,
  `BreakpointsKnown`: the invariants of the run.

### RspPacket

For any size of `pkt_buf` and `data` in which the hexadecimal characters of the one
fit in the other, any width of addresses of 8 bits or more, any contents of
the buffer, the memory and the registers (`BufferAssumption`,
`ContentsAssumption`), any number of commands, and any commands that are well
formed (`CommandsAssumption`): numbers that are bytes, as many as `dbg_main` expects
behind the letter, behind the last one no character that could belong to it,
and no `$` or `#` anywhere.

* A checksum, a number, a text and the parts of a packet are computed character
  by character. Each is a recursive function whose values are known at every
  place (`ChecksumIs`, `NumberRead`, `TextBuilt`, `ParsedText`), by induction over a
  set of places.
* `NumberRead`: `dbg_strtol` ends at the first character that is no digit. In a
  packet as GDB sends it, this is a comma, the tail, or the end of what
  `token_remaining_buf` lets it see, so that the remains of earlier packets behind
  the end are not looked at (`IntegerRead`), and the separators are found inside the
  packet (`SeparatorRead`). Hence `ParsedText`.
* `ChecksumDiffers`: one character that is replaced changes the sum, because two
  characters differ by less than 256, and the characters behind it keep the
  difference.
* `PacketInvariant`: `PacketInv` says how what is on the way to the stub belongs to
  what it has understood. Either nothing on the way begins a packet, every command
  that fits is understood and the last reply answers the last of them (`Quiet`);
  or the last command is on the way, whole or with a checksum that is not its
  own (`Pending`); or the stub is going to read a packet as an acknowledgment
  and to end (`Doomed`), after a refusal. The reply of a read is not in `Quiet`
  while the stub is about to send a signal, which is what an overflow leads to: the
  text of a read is assumed to fit.
* `PacketsUnderstood` and `MemoryReadsAnswered` follow where the stub is idle.

### FST

For any variables, values, limits and times (`FstAssumption`), and any requests
whose range is two times or none (`RequestsAssumption`):

* `Invariance` (`FstProofs`): while time goes on, the last block is open and all
  before it are finished; before the first time there is none, and a full file has
  none that is open (`Blocked`). So what a close cuts off, and what a flush writes
  over, is never a finished block: `FinishedBlocksStay`. A block stands behind a
  hierarchy that is on the disk, and changes that count as saved are in a finished
  block (`Described`, `Saved`): `FilesRecoverable`. A block begins where the one
  before it ended (`BlocksAdjoin`): `TimesAdjoin`, which covers the time between
  the first block and the last without a gap.
* `AllInvariant` (`FstProofs`): `FstInv /\ TimesInv /\ BlackoutsInv /\ ReaderInv`
  is inductive. A time table is a sequence of differences. `TimesInv` says that
  their sums stay between the begin and the end of their block, that the sum of the
  open table is the current time, and that all blocks are between the first time and
  the current one, so that the header of a closed file bounds them. `BlackoutsInv`
  says that the blackouts the context holds, and of a closed file the sums of its
  table, are the switches that were made, at their times and in their order.
* `ReaderInv` ties what the reader has delivered to where it is. Between two blocks
  nothing was delivered that is later than the begin of the next one; as blocks
  adjoin, what the last time of a block allows, the begin of the next allows too.
  Inside a block the time of the present index is not before what was delivered,
  and the lists of `heads` hold a handle at most once: a chain that goes on is put
  into the list of its next change, whose index is never smaller, because the
  difference it is stored with is a natural number. A blackout is counted as soon as
  it is delivered (`SeenTold`), and the next one has a time that no mark has had yet
  (`Awaited`), which is what makes none missing at the end when all have times of
  their own. `FileTypes`, `DeliveryAscends`, `DeliveryInside` and
  `BlackoutsKeptAndTold` follow.
* `HierInvariance` (`FstHierProofs`): the number of variables that are no aliases
  is the length of the geometry (`HandlesCounted`), and each source index belongs
  to exactly one path (`FilesIndexed`), each number of a table to a table
  (`TablesNumbered`). `HandlesKnown` and `ReferencesRight` follow, for hierarchies
  of any length with any aliases, attributes and files.
* `FoundInvariance` (`FstHierProofs`): the rest of the reader is computed record by
  record, by recursive functions. A function on n records is extended to n + 1
  (`ScanGoesOn`, `JoinsOneMore`, `VisitsOneMore`), and the sets of numbers for which
  it exists, or agrees with another, contain all of them by `SetInduction`. The
  writer therefore keeps that some scan of its records ends with the lengths of its
  geometry (`ScanFits`; the mark that an alias of a real leaves is on a handle that
  does not yet exist), and that some stacks of scopes lead from the empty one to
  the scopes that are open (`ScopesRight`). `GeometryRight` follows from the first.
* A call of `assignHandles` that starts outside all scopes has these stacks
  (`CallRight`), where the parts it compares are equal exactly when the full names
  are (`PartsMatch`, the last dot of a name): `SignalsFound`. Whatever a call starts
  with, a variable that finds no signal without a handle says so (`CallSound`):
  `TrueIsFound`. `NamesAssumption`, `VariablesAssumption` and `ListsAssumption` say
  that names are sequences and the name of a scope is not empty.

### Only model-checked

* Liveness under fairness: `Answered`, `DisconnectEnds`, `ContinueEnds`.
* Which values are delivered: `DeliveredInOrder`, `DeliveredOnTime`,
  `RangeComplete`, `LookupsRight` in `FstFile`. The proofs take the lists and the
  times of a block for what they are, and leave open what the encoding and decoding
  of a chain and of the index compute. That a chain read is the chain written holds
  by induction over the changes, and for the index over its items, one induction for
  each fold.

## What the models leave out on purpose

Properties are stated for what the code does promise. Where the code goes wrong
and no document claims otherwise, the property excepts the case and says so:

* A flush that is asked for when nothing has changed writes the time again
  without counting it (`fstapi.c:3238`); later changes of the block are early.
* The values before the first time are delivered only when the dump begins
  before its first time: with a first time of 0 they are lost in an iteration.
* Strings are in no frame: a lookup or a range never finds their earlier value.
* A lookup at a time at which one block ends and the next begins goes on reading
  at a wrong position (`fstapi.c:6076`, `Derails`), and one that goes back in time
  may start from a position that belongs to another time (`fstapi.c:6419`).
* Blackouts at one time, or at a time that is not in the table, stop later ones
  (`fstapi.c:5608`), and so may the times of a flush that was asked for in vain; only VCD text stops inside a block at the end of a range; a
  range behind the last block delivers nothing.
* A file with a complete header and an unfinished block is misread (`Misread`).
* `fstWriterEmitValueChangeVec32` and `Vec64` read past their array when the
  number of bits is a multiple of the word.
* A signal path without a dot becomes scope and name at once
  (`FstProcess.h:26-33`); a variable with a dot in its own name cannot be found.
* A malformed packet may find the separator of an earlier one in `pkt_buf` and be
  executed (`gdbstub.cc:828`). A packet longer than the buffer is given up, and
  its rest, read as an acknowledgment, usually ends the session.

## Not modelled

* `fst/lz4.c`, `fst/fastlz.c` (compression of a buffer), `gdbstub/` (the original
  x86 stub), `fst_code.cc` and `test_data/`: third-party, not built, or data.
* Of `fstapi.c`: doubles, the bytes of varints, the text of enumeration tables,
  the VCD text of the hierarchy, the parallel writer and the removal of
  duplicate changes (nothing in the repository defines `FST_WRITER_PARALLEL` or
  `FST_REMOVE_DUPLICATE_VC`), repacking and outer compression of a closed file. None of it
  has state that meets the state which is modelled, except the parallel writer.
* `Logger`, `infoStr`, `help`: output only.
* `main`: sequential and ended by `exit` on any error. A waveform without a
  retired instruction is excluded by `WavesAssumption`: what is read of it is
  undefined.
* Stores at odd addresses, which the CPU does not make.

## Plan

1. `Session`: `Extraction` followed by `TraceReplay`, so that what GDB is shown
   is compared with the CPU instead of with the traces; `Startup`: construction
   order, configuration, the empty trace.
2. Proofs: `DeliveredInOrder`, from `ReaderInv` and what `Chain` and `AfterEntry`
   do with one change.
