# TLA+ models of CVA6

CVA6 is a RISC-V application core in SystemVerilog; the repository also carries
the Spike simulator, in C++, as the reference the core is compared with. This
directory holds TLA+ specifications of the parts of both in which things
overlap. In the core these are the issue stage with its scoreboard, and the
load-store unit with its store buffer; in Spike, the debug module with the debug
ROM, and the processors with their MMUs, reservations, interrupts and the loop
that runs them. TLC checks them on small instances, and TLAPS proves parts of
them for every value of their constants.

## 1. Inventory

The repository holds the core (`core/`), a test SoC (`corev_apu/`), vendored
IP (`vendor/`, much of `corev_apu/`), verification (`verif/`), software (`sw/`)
and documentation. The models are about `core/` and about
`corev_apu/tb/riscv-isa-sim/` (Spike). The core is taken in the shape the contest
configuration gives it (`core/include/cv32a6_im_contest_config_pkg.sv`:
32 bit, M extension, no MMU, one issue port, one commit port, CV-X-IF on,
non-idempotent memory below `0x8000_0000`, debug on), with the parameters that
change the control (queue depths, ring sizes, commit ports, AMOs) left open.

| Component | State | Operations | What is hard |
|---|---|---|---|
| `frontend/` | PC, instruction queue, BHT, BTB, RAS | fetch, predict, replay, redirect | overflow of the queue with replay, redirect against late fetches |
| `id_stage.sv`, decoders | one decoded instruction | decode, expand macros | macro sequence interrupted by a flush |
| `scoreboard.sv` | ring of issued instructions, two pointers | issue, write back, commit, flush | all four on one entry in one cycle, identifiers used again |
| `issue_read_operands.sv` | issue register, register file | hazards, forwarding, issue, offload | operand in flight at the moment it is read |
| `ex_stage.sv` units | multiplier register, divider FSM, CSR buffer | execute | one writeback port for five units |
| `cvxif_*` | registered "rejected" | offload, result | no kill, collisions on the port |
| `lsu_bypass.sv` | two-entry FIFO | push, pop by two units, flush | pass-through with both pops |
| `load_unit.sv` | FSM, load buffer | request, grant, kill, respond, retry | answers out of order and after a flush, device loads |
| `store_unit.sv`, `amo_buffer.sv` | FSM, one atomic | accept, hand over, fault | a fault one cycle after the pop |
| `store_buffer.sv` | speculative and commit queue | push, commit, flush, drain | three events in one cycle |
| `commit_stage.sv`, `controller.sv` | fence flag | commit, trap, flush | commit and flush at once |
| `csr_regfile.sv` | CSRs, privilege, debug mode, WFI | trap, return, debug, WFI | single step against commit |
| `cva6_mmu/`, `pmp/` | TLBs, walker | translate, walk, flush | flush during a walk (absent from the contest build) |
| `cache_subsystem/` | caches, write buffer, miss units | read, write, refill, invalidate | hit under miss, write buffer forwarding, AMO ordering |
| platform | PLIC, bus, peripherals | interrupts, transport | outside the core |
| Spike `debug_module.cc`, `debug_rom.S` | DMI registers, a GO and a RESUME flag for each hart, halted, resumeack, the command's words | DMI accesses, abstract commands, the ROM's stores to its mailbox | the debugger acts between any two instructions of the ROM |
| Spike `mmu.h`, `mmu.cc` | three arrays of tags over one array of translations, instruction cache, reservation | walk, hit, refill, flush, reserve | one translation serves three types of access |
| Spike `execute.cc`, `processor.cc` | registers, CSRs, the batch under way | a batch of instructions, trap, interrupt, CSR access in two halves | counts and interrupts at the edges of a batch |
| Spike `sim.cc`, `clint.cc` | current processor, mtime, mtimecmp | quantum, clock, host | what may happen between two quanta |

How they interact: decode offers an instruction; the issue stage gives it an
identifier (its place in the scoreboard ring) and an issue register starts a
unit. Units write back by identifier, in any order. The commit stage retires
from the head of the ring in order, tells the store buffer to make a store
permanent, the CSR file to perform an access, the AMO buffer to go ahead. A
trap, fence, CSR side effect or debug entry makes the controller raise
`flush`, which empties scoreboard, issue register and units, and restarts the
identifiers at zero; what the memory or a coprocessor still owes is not
recalled. A mispredicted branch flushes only what is not issued yet.

What makes each part correct:

- issue and scoreboard: no one can tell the core from one that executes one
  instruction after the other (`InOrder`), nothing is lost or answered twice;
- store buffer: a committed store is written exactly once, in order; a flushed
  one never (`StoreOrder`);
- load-store unit: a load sees every older store to its address, device
  memory is read once and only when the load cannot be squashed, results go to
  their own instruction, fences and atomics wait for the stores, and nothing
  waits for ever.

- debug module: halted and busy say what is the case at every instant, an
  accepted command has its effect and ends, s0 of the program survives (but for one
  command that fails, section 6), a debugger that has not authenticated reaches no
  hart, a step is one instruction, trap or no trap;
- Spike: a TLB or instruction cache hit is what a walk would give, a store
  conditional succeeds only if nobody else stored, minstret is exact, an
  interrupt that is pending is taken.

How the parts of Spike interact: `sim_t::step` gives each processor a quantum in
turn, all on one thread; a processor executes batches of instructions through
its MMU, and looks at interrupts only between two batches. The debugger is polled
between two calls of `step`; it writes the debug module's registers, which the
harts see as memory. The ROM the harts execute in debug mode polls two flags, runs
the words the module prepared, and tells it by stores to four addresses.

The hazards behind these properties are listed, each at its line, in
`PROJECT.json`.

## 2. Modules

The circuit is synchronous, so a step of every composed module is one clock
edge: one action that reads all registers and writes all of them. Combinational
signals are operators that carry the name they have in the source
(`commit_ready_o`, `pop_st_o`, `stall_waw`); registers are variables named
without `_q`. Data is abstracted to the *number of the instruction* (in program
order) it belongs to: the value a load returns, the contents of a store or the
result of an addition are that number, which is all the properties need to tell
right from wrong.

| Module | Models | State |
|---|---|---|
| `Config` | `build_config_pkg.sv`: the parameters a build of the core has, and the mix of instructions of its program | `config`, chosen at the start |
| `StoreOrder` | the promise of the store buffer | pending, retired, written stores |
| `StoreBuffer` | `store_buffer.sv` | both rings with pointers and counters |
| `StoreBufferProofs` | TLAPS proofs about `StoreBuffer` | |
| `LsuBypass` | `lsu_bypass.sv` | FIFO, pointers, counter |
| `StoreUnit` | `store_unit.sv`, `amo_buffer.sv` | FSM, request, atomic |
| `LoadUnit` | `load_unit.sv` | FSM, load buffer, last id |
| `Lsu` | `load_store_unit.sv` with issue register, commit port, flush, data cache ports | the four above, `instr`, `head`, `base` |
| `LsuProofs`, `LsuOrderProofs` | TLAPS proofs about `Lsu`: where its instructions are; the order of stores, loads, atomics and fences | |
| `InOrder` | the promise of issue, scoreboard and commit | registers, next instruction |
| `Scoreboard` | `scoreboard.sv` | `mem`, the pointers |
| `FixedLatencyUnits` | the FLU part of `ex_stage.sv`: `multiplier.sv`, `serdiv.sv`, `csr_buffer.sv` | multiplier register, divider FSM, CSR buffer |
| `IssueRingProofs`, `IssueUnitProofs`, `IssueOrderProofs` | TLAPS proofs about `IssueStage`, each resting on the one before: the port and the ring, the units, the data | |
| `IssueStage` | `issue_read_operands.sv`, `commit_stage.sv`, `cvxif_fu.sv`, register file | the two above, `fu_data`, `regs`, LSU and coprocessor as outstanding sets |
| `MCLsu`, `MCIssue` | the configurations TLC takes | |
| `DebugModule` | `debug_module.cc`, `debug_module.h` | DMI registers, flags, program words |
| `Debug` | `debug_rom.S`, debug mode and single step of `processor.cc`, `execute.cc`; a debugger | `pc`, `dpc`, `cause`, `step`, `s0`, `dscratch` of each hart |
| `SpikeMmu` | `mmu.h`, `mmu.cc` | operators on the record of an MMU |
| `SpikeSim` | `execute.cc`, `processor.cc`, `sim.cc`, `clint.cc`, the instructions that touch their state | registers, MMUs, memory, page tables, clock, the loops' variables |
| `DebugProofs`, `SpikeProofs` | TLAPS proofs about `Debug` and `SpikeSim` | |
| `MCDebug`, `MCSpike` | the debuggers and the systems TLC takes | |

`LsuBypass`, `StoreUnit` and `LoadUnit` (and `Scoreboard`, `FixedLatencyUnits`)
hold the registers and next-state operators of one component; `Lsu` (and
`IssueStage`) extends them and wires them in one `Edge`. `StoreBuffer` has an
environment of its own, any core that keeps to the protocol, so that it can be
checked and proved alone; `Lsu` instantiates it, and `StoresInOrder` shows that
the real core keeps to the protocol.

The abstraction between the two compositions is explicit: in `Lsu` the other
units finish when they like, in `IssueStage` the load-store unit is a set of
outstanding instructions that answers when it likes and is emptied by a flush.
That no answer of a flushed load ever arrives is what `ResultsAreOwn` and
`NoMemoryInstructionLost` check in `Lsu`.

A configuration of the core is data: `Config` picks one record from the constant
`Configs`, and the parameters (`NR_SB_ENTRIES`, `NrCommitPorts`, `RVA`, ...) are
fields of it. One run then covers several builds, and a theorem covers them all.
`Debug` does the same with `Debuggers` and `SpikeSim` with `Systems`.

In the models of Spike a step is one instruction, one DMI access, or what the
loops do between two instructions: everything runs on one thread, so that finer
steps do not exist. `Debug` takes `processor_t::step(1)`, which is how the
testbench drives Spike beside the core: a DMI access may come between any two
instructions, of the ROM and of the program. `SpikeSim` takes the loop of
`sim_t::main`, with quanta of `INTERLEAVE` instructions and the batches inside.
A page holds one word, a page table two entries, an instruction is the kind of
instruction it is: operands, branch targets and the values of CSR writes are any
of those the system lists, so that one word of memory stands for many programs.
`Debug` abstracts the program to an endless one with traps and ebreaks. Two ghosts say
what must not be lost: `owned` is the `s0` that the program, a reset or a command that
names `s0` gave the hart last, and nothing else changes it, a command that fails
least of all; `begun` says what has begun to execute since the hart was resumed to
step: the instruction it was resumed at, the first one of the handler when a trap came
before it, or more. An instruction may trap before it executes (its fetch fails, an
interrupt is pending) or while it does, and the two differ for a step.

External parts: the debugger of `Debug` does what its record lists, in any order.
A *careful* one follows the protocol of the debug specification (it leaves
dmcontrol and abstractauto alone while busy, asks only halted harts to resume
and waits for them); another does what it likes, and the properties that need
the protocol say `careful`. The data cache (a git submodule that is absent from the
repository) grants when it likes, answers loads in any order, and answers a
request that is killed in its tag cycle in that cycle; its write buffer may be
empty or not. The coprocessor accepts, rejects and answers when it likes.

## 3. Runs

| Run | Instance | Shows |
|---|---|---|
| `store_buffer` | depths 4 and 4, as the core is built, nine stores | the rings implement `StoreOrder`; counters, pointers and valid bits agree; retired stores drain |
| `lsu` | a scoreboard of 4 with stores, AMOs, fences, faults, CSR flushes; one of 4 with two addresses and a load buffer of two; one of 8 with loads around misaligned stores; one of 2 that wraps | committed stores are written once, in order; loads after older stores, own results, nothing lost; fences and atomics wait for the stores |
| `lsu_progress` | one non-idempotent address; every kind that waits; fair specification | device loads are sent when oldest, once; every instruction leaves |
| `issue` | three configurations: all latencies with two commit ports; traps and CSR flushes; a coprocessor among mispredicted branches | equals `InOrder`, the shared port loses nothing, a result is the instruction's own, the CSR address is the head's |
| `debug` | two harts and a third that does not exist, seven debuggers, of four DMI accesses (six for the locked module) | halted, resumeack and busy are true at every instant, commands have their effect and end, s0 survives every command but a write to a missing CSR, a step is one instruction, authentication holds |
| `spike` | six systems of one or two harts: Sv paging with two levels, user mode with delegation, contention for a reservation, counting, interrupts a program raises itself, interrupts between two harts | caches agree with the page tables and memory, sc is atomic, minstret is exact, interrupts are taken |
| `lsu_single_step`, `lsu_misaligned`, `cvxif_flush`, `cvxif_reject`, `debug_step`, `spike_jal` | | expected violations, section 6 |

Bounds. `MaxStore` and `MaxInstr` end the program after that many instructions;
the clock goes on, so deadlock is checked in every run. The depths of the store buffer,
and the size of the scoreboard, are powers of two: the code's pointers have `$clog2` bits
and no comparison, so that they wrap at a power of two and nowhere else
(`ariane_pkg.sv:34,42`, `scoreboard.sv:323`), and the operators that wrap at the depth say
the same only then (`PowersAssumption`). In `store_buffer` more stores pass through the
rings than either has entries. In `lsu` the queues have two entries, so that they fill and
wrap. The scoreboard has 4 entries for 4 instructions, so that all may be in flight;
a flush, which restarts the identifiers, makes them be used again, and in a
configuration of its own a scoreboard of 2 fills and wraps.
The third configuration leaves room on purpose (section 6, `lsu_misaligned`). In `issue`
the scoreboard wraps in two of three configurations, and fills. Two registers (one of
them x0) are enough for every pair of writer and reader; two addresses for every pair of
load and store; two load buffer entries for answers out of order. A kind of
instruction appears in the configuration whose question it belongs to.

Behind a misaligned store whose exception has been raised, `Doomed` exempts the
instructions from `ResultsAreOwn`, `NoMemoryInstructionLost`, `LoadsFollowOlderStores` and
`WaitingLoadKeepsRequest`: the trap of the store squashes them. The properties hold without
exemption of everything older than the store, of the store, and of what is issued after
the flush.

A DMI access counts against `accesses` only if it changes something; four are
enough to halt a hart, run a command, repeat it by a data access and resume, and
for any two requests to overlap with any other. The ROM and the program go on
without end. In `spike` nothing is bounded but the clock, which stops at
`maxtime` (a store may set it back), and the counters, which are modulo `Counts`: programs run for ever. No hart
has `mprv`, and the system that writes `minstret` has no interrupts: the hypotheses of the
theorems. TLBs
and instruction cache have two entries for four pages, so that addresses share
an entry; a quantum has three instructions, so that a batch ends in it, with it,
and after a trap or a wfi in it.

Fairness (`FairSpec`). `StoreBuffer` assumes only that a request which stays up
is granted. `Lsu` assumes that cache, units and interrupts go on: a store request is
granted and the write buffer empties (weak: the request stays up), a load is
granted and answered (strong: the load unit withdraws and repeats its request,
and an answer to a killed request takes the port), other units finish, an
interrupt ends a WFI. Nothing is assumed of the core itself but the clock. `Debug` assumes that each hart
gets its turn (`sim_t::step` goes round the processors), and nothing of the
debugger. `SpikeSim` assumes that `sim_t::main` loops on.

Each property is tried against a plausible bug (the definitions named
`<operator>_<what>`, each next to the one it replaces): a dropped flush, a
pointer that does not wrap, an acknowledgement that does not wait. TLC finds
the property violated in each case, so none holds by the shape of the model.

## 4. Proofs

`StoreBufferProofs` proves about `StoreBuffer`, for every `DEPTH_SPEC` and
`DEPTH_COMMIT` and any number of stores:

- `TypeCorrect`: `Spec => []TypeOK`;
- `Coherence`: `Spec => []QueuesCoherent`. Coherence alone is nearly inductive;
  with the types it is the invariant of the whole module;
- `Refinement`: `Spec => ImplementsStoreOrder`, that is, `StoreOrder` with
  `Pending` and `Retired` as the contents of the rings read from the read
  pointer.

The argument: seen from the read pointer, a ring with count *c* is the function
`1 .. c -> store` that `Slot` reads; an edge may pop it, push it or clear it, and the
lemma `RingStep` says once, of any ring, what that does to the sequence. `QueueMoves` puts the
two rings together: what one edge does to `Pending`, `Retired` and `written`. Assumptions: each
queue has at least two entries (`DepthAssumption`), their number is a power of two
(`PowersAssumption`, which makes the wrapping that of the code; no step of the proofs needs
it), and the buffer is driven as its four
assertions ask (`Legal`, `LegalEdge`). That the real core drives it so is a theorem of
`LsuOrderProofs`; where it does not is section 6.

`LsuProofs` proves about `Lsu`, for every number of scoreboard and load buffer
entries, every depth of the store queues, any address granules and kinds of
instruction, whatever the data cache does (`ScoreboardAssumption`,
`LoadBufAssumption`, `KindsAssumption`, `AddrsAssumption`):

- for programs without misaligned stores (`Aligned`): `NothingIsLost`
  (`NoMemoryInstructionLost`), `ResultsAreTheirOwn` (`ResultsAreOwn`),
  `WaitingLoadsSeeTheirRequest` (`WaitingLoadKeepsRequest`) and `EntriesAreNotOverwritten`
  (`LoadEntriesNotOverwritten`). Without misaligned stores nothing is `Doomed`, so that
  these are the properties without exemption. With them `ResultsAreOwn` is false
  (`lsu_misaligned`); that the others hold as long as the scoreboard has
  room is model-checked only.

The four share one inductive invariant, `HeldInv`. It sees the issue register and the
bypass FIFO as one queue (`Front`, `Behind`), calls a load buffer entry live when it is neither
flushed nor being killed to be repeated, and says where the instructions are
that have no result (`Holding`): at the front, behind it, in the store unit or in a live
entry, in program order, each under its own identifier; an instruction that is
in flight is in the window of the scoreboard, which a flush empties together with all
four. What a load unit that waits relies on is `LoadWaits` and `LoadBuffer`: its load is at the front,
and an entry of the buffer is free for it until it is sent. An edge is taken apart
by name (`Wires`, `Signals`): one lemma for the FIFO, one for the load unit, one for the store
unit, one for the scoreboard, and `HoldingStep` puts them together.

`LsuOrderProofs` proves what the same module promises about order, for the same parameters and
any depth of the store queues (`QueuesAssumption`), for programs without misaligned stores
that no debugger single steps (`Orderly`). What goes wrong without
the second is the run `lsu_single_step`; the first is the hypothesis of `HeldInv`, on which the
proofs rest (`lsu_misaligned`). A configuration is chosen at the start and
`Orderly` speaks of it alone, so that every other configuration of `Configs` is covered.

- `CommittedStoresAreKept` (`CommittedStoresHappen`), `LoadsSeeOlderStores`
  (`LoadsFollowOlderStores`), `DeviceLoadsAreNotSpeculative`
  (`NonIdempotentLoadsNotSpeculative`), `FencesWaitForStores` (`FencesDrainStores`), `TypesHold`
  (`TypeOK`);
- `StoresKeepProgramOrder`: `Spec /\ Orderly => StoresInOrder`: the store buffer inside the
  load-store unit implements `StoreOrder`. The module instantiates `StoreBufferProofs` and shows
  that the core meets the four assertions at each edge (`BufferStep`); the rest is `LegalEdgeStep`.

All rest on `OrderInv`, inductive together with `HeldInv` (`OrderHolds`). Its parts need one
another:

- `StoresPending`: the pending stores are the stores of the window that are done, in program
  order, each older than what the store unit and the FIFO hold. Hence the store
  at the commit port is the first pending one, and a commit finds the queue not empty;
- `RoomForRequest`: `ready_o` was true when the store unit took its request and room
  does not shrink before the push, one cycle later. Without it a push may find the queue full;
- `StoresCommitted`: what was written, then what is retired, is what has committed, all older
  than the head;
- `AtomicBuffered`: a done atomic of the window is the one in the AMO buffer;
- `LoadsClear`: every live entry of the load buffer, and a load unit past the
  address check, has all older stores to its granule written. It is not enough to say this
  of the cycle in which the data cache reads: between the check and the read the load waits in
  up to four states, in which no older store can appear, as the FIFO is in program order;
- `DeviceLoads`: the same for loads of non-idempotent memory, which are the oldest
  instruction when they are sent, with the commit queue empty.

Three modules prove about `IssueStage`, for every size of the scoreboard, one or two
commit ports, any registers, any mix of units and any length of the program
(`EntriesAssumption`, `CommitPortsAssumption`, `RegsAssumption`, `FusAssumption`,
`BoundAssumption`; a configuration is any record of `Configs`):

- `IssueRingProofs`, `PortIsFree`: `Spec => []OneResultAtPort`. An
  instruction that enters a one-cycle unit was issued with the divider idle and
  neither a product nor a division in the issue register, so that the edge starts
  neither; the invariant needs no strengthening.
- `RingOrder`: `Spec => []RingInOrder`. The invariant `Ring` counts
  the entries (`Count`) from the commit pointer and gives each its distance from it
  (`Age`): an entry is issued if and only if its age is below the count, the
  instruction in it is the next to commit plus its age, the second commit pointer
  is one ahead of the first. An edge commits up to two, writes back, issues one and may
  flush; the lemmas say what each does to age and count, modulo the size.
- `IssueUnitProofs`, `CsrAddress`: `Spec => []CsrAddressIsHeads`, and `EachHasOneUnit`:
  `Spec => []NothingLost`. The issue register holds the youngest instruction of the
  ring; a CSR instruction of the
  ring is in the issue register or has its address in the buffer, and never both
  are taken; `Holding` says that each issued instruction without result is in
  the issue register, the multiplier, the divider, the load-store unit or the coprocessor, in one of
  them, and that each of them holds only such an instruction. `TypeCorrect` follows:
  `Spec => []TypeOK`; the types say that no negative number, which is what a
  CSR instruction writes back here, enters a register.
- `IssueOrderProofs`, `OwnResults`: `Spec => []ResultsAreOwn`, and `InOrderRefinement`:
  `Spec => ImplementsInOrder`. What makes the refinement inductive is a statement about
  the instructions that are sure to commit their result (no exception in them nor in an
  older one): two of them do not write the same register, and the operand of each is the result
  of the older one that writes it, or else what the register file holds. At commit
  the oldest is sure or traps, nothing older writes its operand, hence the operand
  is the register's, as in `InOrder`; two commits in one cycle are two of its steps.

`EachHasOneUnit`, `OwnResults` and `InOrderRefinement` assume `NeverKills`: a configuration
with a coprocessor has no exceptions and no refused offloads. The hypothesis is needed: the
runs `cvxif_flush` and `cvxif_reject` violate `ResultsAreOwn` and `NothingLost` with the two
configurations it excludes (section 6). The three configurations of the run `issue`
satisfy it.

`DebugProofs` proves about `Debug`, for any number of harts, any set of data words
and any debugger of `Debuggers` (`HartsAssumption`, `DebuggersAssumption`,
`JunkAssumption`):

- `ResumeAckFollows`: a pending resume request is not acknowledged. The invariant
  `AckInv` says it of every hart a command of the DMI may have selected, together
  with the types of the flags and control registers;
- `HaltedMeansDebugMode` and `SingleStepping`, and that a resumed hart returns to its
  program (`ReturnsUnlessStepped`). The invariant `ModeInv` relates, for each hart, `pc`
  to `dpc`, to the cause of the halt and to the module's flag `halted`, and the state of
  the single step to what has begun to execute since the resume (`begun`). What is proved of a
  step is what the code does: exactly one instruction, which is the first one of the handler
  when a trap comes before the one the hart was resumed at. They assume `~StepsEbreak`: the run
  `debug_step` shows that a stepped `ebreak` breaks them;
- `TypeCorrect`: an abstract command has at most five words, and
  the values the ROM keeps in `s0` never reach the data word;
- `LockedModule`: a debugger that has not authenticated reaches no hart;
- `BusyMeansRunning`, `RomPreservesS0` and `CommandsHaveEffect`: `Spec => []BusyWhileCommandRuns`,
  `Spec => []S0Preserved`, `Spec => CommandsTakeEffect`, for a debugger that is careful;
  `S0Preserved` speaks of those that never write a CSR that does not exist (`SparesS0`). They
  share the invariant `CommandInv`. While the module is busy the first words of `debug_abstract`
  are the program of the command accepted last (`Loaded`); GO set, or a hart in a
  command, means busy and that hart selected (`Turn`); and for each place in the program of
  each kind of command, `Progress` says what `s0`, `dscratch`, `dcsr.step` and the data
  word hold there, relative to the data the command was given. A hart that is halted but neither told to
  go nor in a command has left the command with its effect, or with an error in
  `cmderr`; `busy` falls at the store to HALTED that follows. Where the program's `s0` is at each place is
  `Own`, relative to the ghost `owned`, which no fault touches; that a hart which
  has faulted has it still is what `SparesS0` is for. No hypothesis on
  `StepsEbreak` is needed: debug mode entered twice loses `dpc` and not `s0`.

`SpikeProofs` proves the five invariants of the run `spike`, for every system of
`SystemsAssumption`: any number of harts, any programs, page tables and host, any
size of the caches and the quantum.

- `ScAtomic`: `Spec => []ScIsAtomic`. Lemmas follow a reservation through each operation
  of the MMU (a TLB refill, a flush, an access, `lr`, `sc`); a store that follows a
  successful check hits the TLB entry the check has just written, hence cannot fault or
  go elsewhere. The invariant: only the hart that runs has a reservation, and its page
  had no other store since. It does not depend on what translations the TLB holds, so
  stale entries do no harm here;
- `SpikeTypes`: `Spec => []SimTypeOK`, from `SimInv`. Its conjuncts: `Loops` (a batch
  has retired fewer instructions than it was given), `Stores`, and `Caches`: the TLB
  of a hart agrees with the page tables for as long as nothing the walk reads changed
  since its flush, and the lines of its instruction cache agree with the walk and the
  memory if no code was written either. Each operation of the MMU is
  shown to give an MMU that `Follows` the one before: if the TLB agreed, it still does, and if
  the lines did too, they still do. The two go together, as a line is filled through
  the TLB;
- `HitsAreWalks` and `FetchesAreFresh`: `HitsMatchWalk` and `FetchesMatchMemory`, from the same
  invariant. Key is `WalkPage`: the type of an access decides whether a walk passes,
  not where it leads, so the three tags may share an array of translations. That
  holds only without `mprv`, hence the hypothesis `Unmodified`; section 6 says what
  happens with it;
- `CountsAreExact`: `Spec => []InstretExact` for systems that are `Undisturbed`. `Tally` says
  that the instructions executed are `minstret` plus, in the hart that runs,
  the count of the batch. A write of `minstret` is exact because the first half of the
  instruction ends the batch: `Halves` says that a hart between the halves is
  the one that runs, with nothing counted, with instructions to go, and with
  the CSR instruction in its instruction cache, so that the second half does
  come next. An interrupt or a fetch fault between the two would break this; a
  system that writes `minstret` is therefore asked to have neither interrupts
  enabled nor paging. Systems that do not write it are not restricted.

Two assumptions on constants are new with these proofs: `CodeAssumption`, that what
can be fetched through the tables is in memory (Spike also fetches from the boot ROM, which
a system has left when the model starts), and `MmuAssumption` states that `2^LEVELS` is
a positive number, as the provers do not know exponentiation.

Only model-checked: liveness under fairness, which the provers do not reach
(`RetiredStoresAreWritten`, `EveryInstructionLeaves`, `CommandsFinish`, `ResumesWhenAsked`,
`InterruptTaken`). Every safety invariant of a passing run is also a theorem.

## 5. Not modelled

Front end, decoders, MMU, PMP, the caches behind the load-store unit, CSR file
beyond what stops or flushes the pipeline, second issue port and the
speculative scoreboard that goes with it, floating point, accelerator port.
`PROJECT.json` gives the reason for each. Of Spike: system bus access of the
debug module, the hart array, triggers, PMP (the writes to its registers are
commented out), misaligned accesses, the memory tracers, floating point and vector
state, the log and interactive modes, the JTAG transport and the output devices.
SoftFloat, the disassembler and the instruction encodings are vendored arithmetic
and tables; the programs under `sw/` are numeric kernels over tables of constants
and polled drivers. They make up most of the C and C++ of the repository, keep no
state that several actors share, and what they compute is a matter of testing
against a reference, not of interleavings.
Within modelled parts: a misaligned atomic (`load_store_unit.sv:652`), which the store unit
treats as a misaligned store; the destination a coprocessor returns with its result
(`scoreboard.sv:215`), taken to be the one the instruction was issued with; the exemption
that lets an SFENCE.VMA read behind a CSR instruction (`issue_read_operands.sv:612`), as there
is no MMU; values, byte enables, address translation, wording of
traps. The second source operand is the same circuit as the first.

## 6. Where the code departs from what it says

- `lsu_single_step`: a debugger that single steps a store makes the commit stage
  commit it in the cycle the controller flushes (`csr_regfile.sv:1736`,
  `controller.sv:224`). `store_buffer.sv:271` asserts that this never happens; the
  flush then overrides the pointers and the next store is lost.
- `lsu_misaligned`: a misaligned store is popped from the bypass FIFO when the store
  unit accepts it and again one cycle later, when its exception arrives
  (`store_unit.sv:229`). The second pop takes the request behind it. All that is lost
  that way is younger than the store and squashed by its trap, and with room in the
  scoreboard nothing else happens (third configuration of `lsu`). But when the request is a
  load for which the load unit waits (`WAIT_PAGE_OFFSET`), the load unit goes on to
  `WAIT_GNT` with nothing to send, and the grant sends what the invalid issue register holds:
  its identifier is the issue pointer (`issue_read_operands.sv:755`), which in a full
  scoreboard is the identifier of the oldest instruction. If that is a load still in
  flight, the answer completes it with a foreign value before its own arrives; it is
  older than the store, so it commits. The trace: load 1 is sent, store 2 is misaligned,
  load 3 is lost, store 4 fills the scoreboard of four entries, load 1 gets the answer to
  the request that load 3 left behind.
- `cvxif_flush`: instructions are committed to the coprocessor at issue, while an
  older one may still trap; the late result is taken by the instruction that
  has been given the identifier.
- `debug_step`: an `ebreak` with `ebreakm` set, executed as a single step, enters
  debug mode in `take_trap` and again in the handler that follows it
  (`execute.cc:215`); the second entry overwrites `dpc` with the address of the
  debug ROM. `debug` therefore sets `StepsEbreak` to FALSE.
- Seen with `Debug`, but with no run of its own: a trap that comes before a stepped
  instruction (`load_insn` at `execute.cc:119` or `take_pending_interrupt` at `:123` throws
  before `:139`) leaves `single_step` at `STEP_STEPPING`, the catch block at `:215` does not
  enter debug mode, and the first instruction of the handler executes as the step.
  `debug_defines.h:268` says of `dcsr.step` that the hart should enter debug mode
  "before executing the trap handler". `ProgramStep` models it, `SingleStepExecutesOne` allows
  it under the name `"handler"`, and asking for `"resumed"` there makes the run fail.
- Seen with `Debug`, but with no run of its own: an abstract command that writes a CSR that
  does not exist loses the program's `s0`. The command saves `s0` to `dscratch`, loads the data
  word into it and faults at the write; the exception skips the restore
  (`debug_module.cc:517`-`547`), and the ROM's entry saves the data word as if it were the
  program's `s0` (`debug_rom.S:21`-`25`). `S0Preserved` excludes debuggers that make such a write
  (`SparesS0`); without the exclusion the third debugger of the run violates it.
- `spike_jal`: interrupts are held back before an AMO (`execute.cc:121`), by a mask
  that also matches `jal`: a program that waits in `j .` is never interrupted.
  The systems of `spike` with interrupts have no jump.
- Seen with `SpikeSim`, but with no run of its own: an interrupt between the two halves
  of a CSR instruction leaves `serialized` set, the first CSR instruction of the handler
  is executed in the middle of a batch, and a write of `minstret` there is off by the
  instructions before it (`decode.h:270`, `processor.cc:436`). The systems of `spike`
  therefore do not combine interrupts with writes of `minstret`.
- Seen with `SpikeSim`, but with no run of its own: a hart with `mprv` breaks
  `HitsMatchWalk`. A load in machine mode walks with the privilege in MPP (`mmu.cc:53`)
  and puts its translation where the one of a fetch from the same page was, while the tag
  of the fetch stays (`mmu.cc:148`): the next fetch that misses the instruction cache
  reads the page of the load. The systems of `spike` have no `mprv`.
- `cvxif_reject`: the documentation describes registers that keep an
  illegal-instruction report while a result uses the port; the code drops the
  result instead (`cvxif_fu.sv:59`).

## 7. Plan

1. Done: store buffer with proofs, load-store unit with proofs of every safety property of its
   runs, scoreboard and issue stage with proofs
   up to the refinement of `InOrder`; debug module and ROM with proofs of every safety
   property of their run; MMU, processors and loop of Spike with proofs of
   the safety properties of their run.
2. Done: every safety property of a passing run is a theorem.
3. `Controller` with the fence flush of the data cache and `halt`; trap entry
   and return, debug mode and WFI of `csr_regfile.sv`.
4. `instr_queue.sv` with replay against an abstract fetch stream, then the
   redirects of `frontend.sv`; BHT, BTB, RAS under speculation.
5. The write-through data cache: controller, write buffer and miss unit against
   an abstract memory; the instruction cache FSM with kill and refill.
6. Page table walker and TLBs of the core with flush during a walk; serial divider as
   an algorithm against `\div`; PMP matching against its definition.
7. Spike: system bus access and the JTAG transport in front of `Debug`.
