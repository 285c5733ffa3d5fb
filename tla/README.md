# A verification development of the c-class core

The c-class core is an in-order, five/six-stage RISC-V pipeline written in
Bluespec SystemVerilog (`src/src/*.bsv`), with branch predictors that also
exist as Python models (`src/src/predictors/*.py`) with which predictor
configurations are explored on instruction traces.  This directory holds TLA+
modules translated from that code, the TLC configurations that check them and
the proofs of what they promise.

## 1. Inventory

### 1.1 The parts, the state they keep, how they interact

| Part (source) | State | Operations | Talks to |
|---|---|---|---|
| stage0 (`stage0.bsv`) | `rg_pc`, pending fence, delayed redirect (`compressed`), epochs | `rl_gen_next_pc`, `ma_flush`, predictor training | predictor (call), I-cache (request FIFO), stage1 (`isb_s0s1`), flush wires of stage3/5 |
| stage1 (`stage1.bsv`) | previous instruction half, `rg_action`, `rg_receiving_upper`, epochs | `process_instruction` | I-cache response FIFO, stage0, stage2 |
| stage2 (`stage2.bsv`, `decoder.bsv`) | `rg_stall`, `rg_wfi`, `rg_microtrap`, epochs, scoreboard, register file | `decode_and_opfetch`, `rl_wait_for_interrupt`, `ma_commit_rd`, `ma_clear_stall` | csrbox (interrupts, CSR values), stage3, write-back |
| scoreboard and bypass (`scoreboard.bsv`, `bypass.bsv`, `registerfile.bsv`) | a lock and an id per register | lock, release, `fn_bypass` | stage2 locks, stage5 releases, stage3 reads |
| stage3 (`stage3.bsv`, `base_alu.bsv`) | operands being bypassed, epochs | one rule per instruction class | d-cache requests, mbox, predictor (training, mispredict), flush |
| mbox (`mbox/*.bsv`) | multiplier pipeline, divider registers, order of results | start, a step per cycle, hand on in order | stage3, stage4 |
| stage4 (`stage4.bsv`) | none of its own | one rule per functional unit | d-cache responses, mbox |
| stage5 (`stage5.bsv`) | epoch, csr/io hand-shake flags | one rule per commit type | csrbox, store buffer, IO, flush |
| gshare predictor (`predictors/gshare_sa_py_model.py`; `gshare_fa.bsv`, not instantiated) | BTB tags and entries, BHT, GHR, RAS | predict, train, mispredict | trace runner |
| micro-TAGE predictor (`predictors/u_tage.bsv`, which stage0 instantiates; `u_tage_py_model.py`) | BTB, base table, tagged tables, history, RAS | predict, train, mispredict, initialise on fence.i | stage0; trace runner |
| trace runners (`predictors/trace_runner_*.py`) | counters, the next line | one trace record at a time | predictor models |
| inter-stage buffers (`pipe_ifcs.bsv`) | FIFOs | enqueue, dequeue | adjacent stages |
| top of the pipeline (`riscv.bsv`) | FIFOs of results of mbox | connection rules: flush, epoch update, training | all of the above |
| bus side (`ccore.bsv`) | burst counter, line being written, parked read | one rule per channel: line reads, line writes, I/O | data cache, AXI transactor, write-back |

### 1.2 What is hard

* Every stage runs every cycle: a redirection from stage3 and one from
  write-back meet a pipeline full of instructions of older paths, which are
  recognised by two *one-bit* epochs alone.
* Operands come from the register file, from three bypass points, or must be
  waited for; the scoreboard that says which has one bit per register although
  several writers of a register may be in flight.
* Fetch may stop half-way through an instruction (`compressed`), at a fence,
  or at a fault.
* The predictor speculates on its own predictions (history, return stack) and
  is repaired after a misprediction; entries are replaced while instructions
  that were predicted with them are in flight.
* Write-back hand-shakes with the csrbox, the store buffer and IO, each of
  which may take any number of cycles; a trap may squash what waits there.
* Line fills, evictions of several beats and I/O share one bus whose channels
  keep no order between them.
* A multiplication takes a few cycles, a division many or one; their results
  are told apart by order alone.

### 1.3 What makes each part correct

| Part | Properties | Where |
|---|---|---|
| Pipeline control | Only the architecturally next instruction commits; only path instructions execute; a jump is compared with its own successor; system operations serialise; no fence is lost; the whole behaves as the sequential machine; it never wedges | `CorePipeline` |
| Operand bypass, scoreboard, register file | An operand taken as available is the latest; no lock is orphaned; ids are unique although they wrap; every wait ends | `OperandBypass` |
| Fetch with `compressed` (stage0, stage1) | Instructions are handed on whole and in path order, each with its own prediction; a fault of the word that completes one is reported, at the right half | `FetchAlign` |
| gshare model and its runner | One entry per word, no early eviction, speculative history repaired to the real one, the trained counter is the predicting one, steady programs are learned | `GShareTrace` |
| micro-TAGE model and its runner | The history is repaired; the provider that trains is the one that predicted | `UTageTrace` |
| micro-TAGE in hardware | The history is what the branches did and what is predicted, however repairs and predictions meet; only control instructions hit; nothing is trained twice, refused or left over at a fence.i; fetch goes on | `UTageInFlight` |
| mbox | Every result is the specified one, for its own instruction, has room, carries its trap, and comes | `Division`, `Mbox` |
| Memory path | An I/O operation reaches its device once, in order, and only if it commits; the cache's buffers stay in step with the pipeline; evictions land whole; waits end | `DeviceOnce`, `LineTraffic`, `MemoryPath` |
| Base arithmetic, decompressor | Results equal a reference definition | planned |
| csrbox, caches, floating point, debug, triggers, trace encoding, earlier predictors | - | not modelled, section 8 |

## 2. How the modules correspond to the code

A Bluespec rule executes as if alone, and the rules of one cycle execute one
after the other in the order the compiler has fixed.  One rule, with the wires
it drives and the connection rules of `riscv.bsv` those wires fire in the same
cycle (`rl_flush_stage0`, `rl_update_eEpoch`, `rl_update_wEpoch`,
`rl_clear_stall_in_decode_stage`), is one action.  A run of single actions in
any order includes every cycle of the hardware and more, so a safety property
that holds here holds there.  Where a register lives for one cycle only, or two
ports of one register meet in a cycle (`Mbox`, `UTageInFlight`), that would be
too coarse, and one step is one clock cycle.

| Module | Code | Remarks |
|---|---|---|
| `InOrderISA` | what the core promises to software | The abstract machine: `Retire`, `Return`, `Trap`. |
| `CorePipeline` | stage0 to stage5, `pipe_ifcs.bsv`, `riscv.bsv` | One action per rule.  Instructions carry address, epochs, the next pc of fetch, and later what the unit made of them. |
| `FetchStream` | what fetch promises to decode | `HandOn`, `Fault`, `Redirect`. |
| `FetchAlign` | `stage0.bsv`, `stage1.bsv` with `compressed` | Addresses count half-words; a BTB response names the instruction whose entry it is. |
| `OperandBypass` | `bypass.bsv`, `scoreboard.bsv`, `registerfile.bsv`, the operand parts of stage2, stage3 and stage5 | Values are from a small set; `spec` keeps what the registers should be. |
| `BitVectors`, `TargetBuffer` | bit arithmetic; BTB and return stack of both Python models | Vectors are sequences of bits, the most significant (in a history: the most recent) first. |
| `GShareBPU`, `GShareTrace` | `gshare_sa_py_model.py`, `trace_runner_rtldump.py` | The model's methods are operators, the runner's calls the actions; `get_instr_info` decodes the fields of an instruction. |
| `UTageBPU`, `UTageTrace` | `u_tage_py_model.py`, `trace_runner_champsim.py` | The same for micro-TAGE; the runner passes every control transfer as a conditional branch. |
| `UTageInFlight` | `u_tage.bsv`, with `rl_gen_next_pc` of stage0 and `rl_exe_base_control` of stage3 | A cycle is one step: stage0 and stage3 fire or not, write-back flushes or not.  The Python models' buffer is reused, with no stack. |
| `DeviceOnce` | what the memory path promises about devices | `Issue`, `GiveUp`, `Ask`, `Perform`, `Finish`. |
| `LineTraffic`, `MemoryPath` | `ccore.bsv`; the memory rules of stage3, stage4, stage5 | One action per rule; the cache and the fabric as they are used. |
| `Division`, `Mbox` | `restoring_div.bsv`, the multiplier of `combo.bsv`; `mbox.bsv` with its FIFOs in `riscv.bsv` | `Division` computes, `Mbox` keeps time; `Specified` is the reference. |
| `MC*` | - | Programs, traces and small constants for TLC. |
| `PredictorLemmas` | - | Facts about histories, counters, the buffer and the return stack, for the proofs of the three predictor modules. |
| `Execution_proofs` | - | Theorems about `OperandBypass` and `Mbox`: the operands an instruction takes and the result it gets. |
| the other `*_proofs` | - | Theorems about the module they are named after. |

`CorePipeline`, `OperandBypass`, `FetchAlign`, `UTageInFlight`, `MemoryPath`
and `Mbox` are views of one pipeline, each with the others as an environment that may do more than the
real one: `CorePipeline` lets operands and results be anything, `OperandBypass`
lets decode deliver its instructions in any order, `FetchAlign` lets anything
in flight redirect fetch, `UTageInFlight` lets write-back flush to any address
whenever an instruction is behind stage3, `MemoryPath` lets stage3 deliver any
kind of operation or trap, and `Mbox` lets stage3 and stage4 wait at will.  What the environment is assumed *not* to do
is in the named ASSUMEs.  That the single epoch pair of `FetchAlign` may stand
for the copies the stages keep is `EpochsAgree`, which `CorePipeline_proofs`
proves.  `UTageBPU` and `GShareBPU` extend one `TargetBuffer`, because the two
Python classes repeat that code line by line, and `UTageInFlight` extends it for
the part of `u_tage.bsv` that is the same.

Definitions marked `(* mutant ... *)` are deliberate mistakes, used nowhere in
a specification: put in the place of the definition below them, each makes one
of the properties fail, which shows that the property looks at that code.

Modelling decisions that a reader may want to argue about:

* **Two flushes in one cycle.**  With stage3 and stage5 both redirecting,
  `riscv.bsv` flips both epochs and write-back's pc wins.  The model has the
  same result as the redirection of stage3 followed by that of write-back.
* **Decode in the cycle of a flush** drops its instruction and its side
  effects; the model lets decode come first and drop the instruction later, or
  come second and see the new epoch.
* **pipe2** is a one-deep FIFO (`mkLFIFO`): it takes an instruction in the
  cycle in which its only one leaves; as single actions, leave and enter.
* **Waits of several cycles** (`rg_csr_wait`, `rg_ioop_init`, the store
  buffer) are one step of `CorePipeline` with every answer the unit may give.
* **Prediction in `CorePipeline`.**  Only control instructions hit in the BTB,
  which `UTageInFlight!HitsAreControl` checks; the target may be a stale one
  (`Guess`).  Address spaces are not modelled, so that an entry that
  survives an sfence is outside the model (hazard at `stage0.bsv:180`).
* **Operand capture.**  The scoreboard and the operand registers are CRegs:
  within a cycle a lock comes before a release, and reads see the start of the
  cycle.  As single actions this is execute, then collect, then write back,
  which the interleaving includes.  A redirection of stage3 finds `pipe2` empty
  and locks nothing, so it does not concern the registers.
* **Ids.**  The width of a rename id (`wawid`) is set by the external
  configuration tool.  `BypassAssumption` asks for at least as many ids as
  instructions in flight, without which `IdsAreUnique` is false; the sample
  configurations have `isb_s3s4` and `isb_s4s5` at 8 each.
* **Fetch faults.**  The I-cache is a submodule.  In `FetchAlign` a faulting
  answer may carry any bits.  `spoiled` says that a word of the path has
  faulted, behind which the path is not followed (`HitIsOwn` and the refinement
  end there), `trapped` that an instruction of it carries a fault; what is
  handed on behind that one is discarded when it traps (`behind`).
  `FaultsReported` covers every other instruction, also those behind a
  faulting word that gave none.
* **Words under way at a redirection.**  `rl_gen_next_pc` asks for a word in
  every cycle in which there is room, and the word after it when one is
  answered, so that with two places in `isb_s0s1` one of the old path is under
  way whenever an instruction redirects.  `Redirect` has this as a guard and
  `DepthAssumption` asks for two places, as all sample configurations have.
  It is what makes `rg_receiving_upper` safe: that word is dropped, and the
  drop clears it (`stage1.bsv:248`).  With one place the register could outlive
  the redirection.
* **`compressed` at run time.**  `misa.c` stays 1, and no two instructions of
  the code overlap (`CodeAssumption`).
* **The predictor in hardware.**  The build without `compressed` and without
  `bpu_ras`, the predictor enabled, jump targets aligned.  What a change of
  epoch makes stages 1 to 3 drop is dropped at once.  The next pc that stage3
  needs is there when another instruction is in flight.  The register files of
  the tables have no reset value (`PowerUp`).  When write-back takes a trap,
  dropped predictions stay in the history; `outcomes`, which says what the
  history should be, starts anew there, and with the clearing at a fence.i.
  `HistoryFollowsPath` states the repair as a chain: every instruction under
  way carries the history that its predecessor left, the oldest that of the
  outcomes, and `rg_ghr` is what the newest left.
* **The bus.**  A line is `BEATS` parts, each with its number and one of two
  values, so that a part of an old version is seen.  The cache has one fill
  under way at a time.  The fabric serves writes in the order of their
  addresses and each burst when its last beat is there, reads of one id in
  order, and reads and writes in any order, as AXI allows.  A line is its
  address without the low `dwords + dblocks` bits.
* **The data cache** answers requests in order, with data, a fault, or an entry
  of its buffers that write-back has to release; `ma_commit_store` and
  `ma_commit_io` act on the oldest entry and drop it if its epoch is not that
  of write-back.
* **mbox.**  `DIVSTAGES` is a power of two from 2 and at most `XLEN`, as the two
  assertions of `mkrestoring_div` have it, and divides `XLEN`.  `RV64`'s
  half-word operations are operations on half of `XLEN` bits; of the
  multiplications there is only the one of the low word, as for the decoder
  (`decoder.bsv:573`).  The bits of `fn_single_div` are taken one by one, with
  the sign-extended subtrahend the code uses.  ff_mbox_out and the FIFO of trap
  flags are filled and emptied together and are one queue.
* **Devices.**  The abstract machine of `DeviceOnce` keeps the operations that
  are not over, which of them came first, and how far the oldest has come.
  Under the refinement mapping the first two are read off the I/O operations in
  flight, the last off the place of the request, the data or the response.  The
  tags `Op` exist in the model only and serve to tell operations apart;
  `PathAssumption` asks for as many as there are places in the pipeline.
* **The cache's buffers.**  `BuffersInStep` compares them with the instructions
  whose entry they hold (`Held`), oldest first, one kind at a time (`Picks`).
* **Python runners.**  `bpu_enable` and `compressed_enabled` are constant,
  `STATESIZE` is 2, statistics are left out.  The target of an entry is an
  integer: the offset of a branch in a trace may lead anywhere.  Traces are concatenated files and
  contain traps, so in `GShareTrace` any record may follow any other.

## 3. Runs

| Run | States | Question | Properties |
|---|---|---|---|
| `core` | 896,829 | Do five stages with one-bit epochs behave as one instruction at a time, and never wedge? | `TypeOK`, `CommitsInOrder`, `ExecutesInOrder`, `NextPCIsSuccessor`, `SerialisesSystemOps`, `FenceNotOverwritten`, `ImplementsISA`, `AlwaysProgress` |
| `fetch` | 844,044 | Does fetch hand on whole instructions in order, with their own prediction, and is the fault of the word that completes one reported at the right half? | `HitIsOwn`, `FaultsReported`, `ImplementsStream` |
| `fetch_upper_err` | violation | Is a fault marked as one of the second half only if the first did not fault? | `UpperErrIsUpper` |
| `bypass` | 629,544 | Is every operand the latest, every lock given back, every id unique, and does every wait end (`no_wawstalls`)? | `OperandsAreLatest`, `LocksAreHeld`, `IdsAreUnique`, `StallsEnd` |
| `bypass_waw` | violation | Are operands the latest in the build with `waw_stalls`? | `OperandsAreLatest` |
| `gshare` | 320,676 | Do buffer, history and counters stay consistent over every trace, and is a settled trace learned? | `TypeOK`, `OneEntryPerWord`, `HistoryIsOutcomes`, `TrainsPredictedCounter`, `EvictsOnlyWhenFull`, `EventuallyLearned` |
| `utage` | 201,747 | Is the history right, and the provider found again when nothing is lost? | `HistoryIsOutcomes`, `ProviderFoundIfZeroDropped` |
| `utage_hw` | 231,739 | Does the predictor survive predictions in flight, repairs, stale training and fence.i? | `HistoryFollowsPath`, `OneEntryPerWord`, `NothingRefused`, `HitsAreControl`, `AllocatesWhenWrong`, `ForgetsAtFence`, `FetchResumes` |
| `memory` | 139,368 | Are I/O operations performed once and in order, do evictions land, do waits end? | `BuffersInStep`, `EvictionsLand`, `NoReadIntoBurst`, `ImplementsDevice`, `RequestsAnswered` |
| `memory_stale` | violation | Does a read of a line wait for the response of its write? | `ReadsAwaitResponse` |
| `mbox` | 92,849 | Does every multiplication and division get its own, specified result, with its trap? | `ResultsAreSpecified`, `NoResultWhenFull`, `TrapsDelivered`, `ResultsCome` |
| `mbox_trap` | violation | The same for a multiplier of four stages | `TrapsDelivered` |

`TypeOK` is part of a run where a theorem states it or counters may leave their
range; the type invariants of the other modules describe their state and hold on
the same instances.  Where the initial state and the actions of `Mbox` meet
those of `OperandBypass` in one module of proofs, they have the prefix `Mbox`.

### Bounds and why they are enough

* `core`: an eleven-instruction program with one of every class, a loop, an
  indirect jump with two targets, BTB entries with an old target, and a trap
  handler that returns.  Depths 1, 2, 2, 1: two of the buffers hold an old and
  a new path at once, so that four paths are in flight together and every
  epoch value is met by instructions of two different paths.  The theorems of
  section 6 remove the bound.
* `core` has the default of one or two places a buffer, so that stage3 has to
  wait for room and for an entry at once, which is what liveness is about.
* `fetch`: three words with a 16-bit and a 32-bit branch in one word, the
  latter across two words, a jump in an upper half, and an aligned 32-bit jump;
  two words in flight.  All four shapes of an instruction in a word occur, next
  to each other, as does a BTB entry of the neighbour.
* `bypass`: every kind of instruction on two registers, so that an instruction
  reads one and writes the other or the same; two values; three ids for three
  entries in flight, the tightest legal setting, in which ids wrap while all
  are in use.  `OnOneReg` is a smaller set for deeper buffers.
* `gshare`: four words that compete for one set of two ways (replacement and
  hits on replaced entries), a history of three bits of which two are hashed
  into one index bit (aliasing), and a return stack of one entry (overflow and
  underflow).  One branch to a word: with two, `HistoryIsOutcomes` does not
  hold, see section 5.
  The trace may settle at any time into two branches that go one way each: the
  buffer holds both and they train different counters, without which a
  predictor cannot be expected to settle.  Before that it has gone any way.
* `utage`: histories of 1, 2 and 3 bits with tags of 2, so that three tables
  compete, folding and aliasing occur and entries are reallocated; three
  branches that share a BTB entry, two of them a bank of counters and the third
  in the other half of the word.
* `utage_hw`: two instructions in flight, a loop of a branch and a jump, the
  branch taken twice and then not; a store may replace the branch by another
  instruction before a fence.i.  Tables of two rows with histories of one and
  two bits: entries are allocated, taken over by aliases, trained while a
  second prediction of the same branch is in flight, and cleared in two
  cycles.  Three in flight (321,561 states) changed no verdict.
* `memory`: one line that is evicted and fetched again and again, in two beats,
  with one place in each FIFO of the transactor and of the cache; two
  operations in flight.  Every kind of operation, a fault of any, and traps
  that squash the second.  `memory_stale` has two lines and no operations.
* `mbox`: all pairs of four-bit words for all divisions, full and half words,
  with a multiplication in between; all first operands of multiplications, with
  second operands of each sign; mixtures of four.  Four bits hold every case of
  the arithmetic: both signs, zero, the most negative number, an exact and an
  inexact quotient.  Two steps a division, as `DIVSTAGES` of 2 asks, of two bits
  each; in `mbox_trap` the multiplier stages of the sample configurations.

### Fairness

* `CorePipeline!LiveSpec`: weak fairness of each stage.  The scheduler that
  the Bluespec compiler builds fires a rule in every cycle in which its guard
  holds and no conflicting rule fires, and the rules of one stage are mutually
  exclusive by their guards, so no stage is idle for ever with a rule ready.
  External units (caches, csrbox) are assumed to answer.  The interrupt that
  ends a WFI is *not* assumed: `AlwaysProgress` allows waiting for ever there.
* `OperandBypass!FairSpec`: weak fairness of stage3, stage4 and stage5, for
  the same reason; decode need not deliver anything.
* `GShareTrace!FairSpec`: the trace goes on, as a loop over a long file does.

* `MemoryPath!FairSpec`: weak fairness of each rule, as above, and of the cache
  and the fabric; strong fairness where two rules or an I/O request compete for
  a place in a channel.  The compiler resolves such a conflict by a fixed
  urgency; an I/O request cannot come again before its answer, and evictions
  are excluded where they could win for ever (`RequestsAnswered`).
* `Mbox!MboxFairSpec`: the clock runs.  `UTageInFlight!FairSpec`: the stages do not
  all stand still for ever; after a flush only fetch can move.

Deadlock is checked in every run.

## 4. Disagreements between the code and what is said of it

1. **`bypass_waw`, `stage3.bsv:506`.**  `rl_trap_from_prev` locks `rd` without
   the guard against a locked destination the other rules have.  With
   `waw_stalls` a release carries no id, so the release of that trap, dropped
   as one of an old path, unlocks the register a load of the new path is to
   write; the next reader takes the old value.  The run needs the option
   `waw_stalls: True` (`sample_config/c32_imafc/core32.yaml:8`).  With a trap
   that locks nothing `OperandsAreLatest` was found to hold in that build too,
   so this lock is the whole difference.
2. **`fetch_upper_err`, `stage1.bsv:297`.**  When the path enters a word in its
   upper half and that looks like the start of a 32-bit instruction, the fault
   of the word is assigned to `trap` and then forgotten: nothing is enqueued,
   and `rg_prev` keeps the half-word alone.  The instruction is completed from
   the next word.  If that faults as well, `upper_err` is set and the trap
   reports `pc + 2` although the fault was at `pc`; if not, no fault is
   reported, which is what `FaultsReported` says of this case.  It depends on
   the bits of a faulting answer of the I-cache, a submodule: if they never
   look like such a start, a fault in an upper half is always reported at once.

3. **`memory_stale`, `ccore.bsv:450`.**  The comment before
   `rl_handle_dmem_line_read_request` wants reads of a line to wait until the
   response of its write has arrived.  `wr_write_req`, which makes them wait, is
   invalidated when the last beat is *sent*.  A read that comes then, or was
   parked before, may overtake the write in the fabric and fetch the line as it
   was before the eviction.  `NoReadIntoBurst` is what the register does give.
   A read that comes while the eviction still waits in the cache's FIFO, before
   its first beat, is not held back either.
4. **`mbox_trap`, `mbox/restoring_div.bsv:115`.**  With `arith_trap` a division
   by zero raises `rg_trap`, a register that falls back after a cycle, while
   `rg_valid` waits for `rl_capture_output`.  A division by zero takes one
   step, so that behind a multiplication of four stages it has to wait, and its
   result is taken without the trap.  With a multiplier of two stages, as in
   the run `mbox`, the trap is always delivered.

## 5. Other observations

Met while reading and not the subject of a run:

* Decoding a CSR operation sets `rg_microtrap`; `rg_stall` is set when the next
  instruction becomes the trap that re-runs it (`stage2.bsv:393-404`).
  `ma_clear_stall` does nothing unless `rg_stall` is set, so that a write-back
  flush in between leaves `rg_microtrap` set and the first instruction of the
  new path is re-run without a cause.  It costs a flush and is otherwise
  harmless: `ImplementsISA` holds.
* `u_tage_py_model.py:201-213` reconstructs the history to "FIND THE PROVIDER
  AGAIN".  `predict` has shifted the oldest bit out and `train` shifts a zero
  in, although the longest table uses that bit; when it was one, another counter
  is trained than the one that predicted.  `u_tage.bsv:468` does the same.
  Besides, `predict` takes the half of the word, which names the bank of the
  counters, from the entry, and `train` from the address: a branch that hits
  the entry of a branch in the other half of its word trains a bank that did
  not predict.  `ProviderFoundIfZeroDropped` is what remains.
* `u_tage.bsv:505` says "Allocate a new entry on a misprediction".  Training
  compares the counter carried along with the entry as it is now; if another
  training has moved it since the prediction, an entry is allocated for a right
  prediction (a trace of eleven states with two predictions in flight).
  `AllocatesWhenWrong` states the rest.
* With `DIVSTAGES` 1, which passes the assertions of the divider, `rg_count`
  has one bit and a division never ends.  With `MULSTAGES_OUT` 0 a product is
  offered for one cycle only (`wr_valid`) and is lost behind a division.
  `WidthAssumption` and `MboxAssumption` leave both out.
* `trace_runner_rtldump.py:54` masks the offset of c.j with `0x5` and loses a
  bit of it, which is harmless, as jumps are trained with the next pc.  A JALR
  that links is never a call there, whereas stage3 makes it one, and c.jalr
  through a link register is a return.
* `stage4.bsv:315` does not dequeue the commit log of a division that traps.
* `HistoryIsOutcomes` (gshare) needs at most one branch to a word: two
  branches share an entry and its target, and the runner repairs the direction
  whenever the next pc is wrong, also when only the target was.
* In the gshare model a call in the upper half of a word pushes an offset that
  fits the pc of the *word* unless `discard` is given.  stage0 passes `discard`
  and is consistent; the runner passes the full pc without it, so that the
  address on the stack is two bytes too far.  No property is stated of that
  stack: for calls in a lower half the address is the offset by definition.
* `fn_hash` shifts in the width of the history and keeps
  `2 * HISTBITS - log2(BHT_DEPTH)` of the hashed bits: one of five with the
  defaults.  `gshare_fa.bsv:83` does the same.
* In stage3 the comparison of a jump's target (`stage3.bsv:752-775`) subtracts
  the offset from the next pc and compares with the base.  For a JALR with an
  odd base and an even offset the difference is even and never equal, so that a
  right prediction is redirected, to the same address.  `ControlRedirects` may
  do so for any JALR; no property of the run `core` minds.
* In the cycle of a delayed redirection (`compressed`) the predictor is asked
  for the next word as well, and may shift its history or its stack for an
  instruction that is not on the path.
* The comments on `rl_drop_instr` (`stage3.bsv:453-459`), on the access to the
  predictor during a fence in stage0 and on the order of bits in `gshare_fa.bsv`
  do not describe the code.
* `trace_runner_rtldump.py` uses a pc before it tests it for `None`;
  `trace_runner_champsim.py` trains not-taken branches with the address behind
  them as their target.

## 6. What is proved

Every theorem below holds for all values of the constants that the named
ASSUMEs of its module allow.  Each is proved from an inductive invariant that
TLC has checked on the instances of section 3 first; the type invariants are
part of it and are theorems (`TypeCorrect`) of every module.  Every safety
property that a run checks and finds true is stated by a theorem.

### Pipeline control (`CorePipeline_proofs`)

For every program, every prediction and all depths, from `ProgramAssumption`,
`BranchTargetAssumption` (a direct branch has one target and its BTB entry
holds it) and `DepthAssumption`:

| Theorem | States |
|---|---|
| `CommitOrder` | `Spec => []CommitsInOrder` |
| `ExecuteOrder` | `Spec => []ExecutesInOrder` |
| `SuccessorAtHand` | `Spec => []NextPCIsSuccessor` |
| `FenceKept` | `Spec => []FenceNotOverwritten` |
| `Serialisation` | `Spec => []SerialisesSystemOps` |
| `Refinement` | `Spec => ImplementsISA` |

None of the safety properties is inductive: that the head of the last buffer is
the next instruction says nothing of the entries behind it.  `IInv` has six
parts:

* `TypeOK` and `EpochsAgree`: the copies of an epoch are equal.
* `Path`: in every buffer the stale entries come before the live ones, and the
  live entries of all buffers, from write-back to fetch, are a path of the
  program from `arch` to `rg_pc`.
* `Behind`: everything behind a live entry is live.  This is why one bit is
  enough: a redirection flips an epoch only when its own instruction is live,
  everything behind it then carries the old value, and nothing the new one.
* `FenceAlone`: while a fence waits to be sent nothing live is in flight.
* `Contents`: what fetch predicted, what decode made of it, what execute
  resolved; needed for the refinement, where the next pc of a retired
  instruction must be one of its successors.

Each action has its step, most of them instances of a few lemmas on what
enqueuing, dequeuing and flushing do to `Path` and `Behind`.  `Serialisation`
adds `SerialInv`: as long as a system operation that serialises is live, only
traps that re-run an instruction may be behind it, and stage2 has a cause to
re-run (`rg_microtrap`) or stands still (`rg_stall`).

### Operands (`Execution_proofs`)

For every set of registers and instructions and all depths, from
`BypassAssumption`:

| Theorem | States |
|---|---|
| `UniqueIds` | `Spec => []IdsAreUnique` |
| `NoLostLock` | `Spec => []LocksAreHeld` |
| `LatestOperands` | `~WAW_STALLS` implies `Spec => []OperandsAreLatest` |

With `waw_stalls` the last one is false, which is disagreement 1 of section 4;
the hypothesis is the build option.  The two buffers behind stage3 are read as
one queue in program order, `InOrder`.  The invariant says that ids count up
along it (`Numbered`), that a register is locked if and only if something in it
writes the register, and then the lock has the id of the *last* writer
(`Owned`), and about the values (`Valued`) that the entries of an old path come
first, that a register no live entry writes has its latest value in the register
file, and that the last writer's result is the latest.  That fn_bypass looks at
the oldest result of a buffer only is harmless for this reason alone: an id that
matches the lock belongs to the last writer.

### Fetch (`FetchAlign_proofs`)

For every code whose instructions do not overlap (`CodeAssumption`), every
prediction and every depth of two or more (`DepthAssumption`):

| Theorem | States |
|---|---|
| `OwnHit` | `Spec => []HitIsOwn` |
| `FaultsKept` | `Spec => []FaultsReported` |
| `Refinement` | `Spec => ImplementsStream` |

The words that are still wanted are the last ones in flight, each where its
predecessor leads.  Where that is depends on a redirection that may have waited
when the predecessor was fetched, and which nothing keeps: `PathInv` says that
*there are* such redirections that explain every fetch and agree with the half
of an instruction that stage1 keeps.  `EpochInv` says which epochs can be
around, given who may still redirect.  For the faults `MarkInv` says what the
register `rg_receiving_upper` can meet: it is of the half that is kept, or the
word at the head is of an older path and clears it; and a kept half that
faulted and is an instruction of its own comes from a word whose lower half
went on with the fault.

### The gshare model (`GShareTrace_proofs`)

For every size of the buffer, every history and trace, from `SizeAssumption`,
`HistoryAssumption` and `TraceAssumption`:

| Theorem | States | if the trace |
|---|---|---|
| `OneEntry` | `Spec => []OneEntryPerWord` | |
| `NoEarlyEviction` | `Spec => EvictsOnlyWhenFull` | |
| `HistoryKept` | `Spec => []HistoryIsOutcomes` | has one control instruction to a word (`OneControlPerWord`) and a branch goes to its target or to the next instruction (`BranchesGoTwoWays`) |
| `CounterKept` | `Spec => []TrainsPredictedCounter` | has one control instruction to a word; and the hash leaves out the oldest bit of the history (`HISTBITS < HISTLEN`) |

The hypotheses are the limits of the code that section 5 describes; the trace of
the run `gshare` fulfils them, which TLC evaluates (`OneProgram`).  `BufferInv`
adds to the uniqueness of entries `FilledInOrder`: the valid ways of a set are
those before its round-robin pointer until the set is full.  `EntriesAreTrained`
says that an entry is that of an instruction of the trace, and `Ahead` what the
speculative history is in each phase of the runner's loop: the outcomes, with
the last one as predicted until the misprediction is repaired.

### The micro-TAGE model (`UTageTrace_proofs`)

For every trace and all sizes, from `RecordAssumption` and `TableAssumption`:

| Theorem | States |
|---|---|
| `HistoryKept` | `Spec => []HistoryIsOutcomes` |
| `ProviderFound` | `Spec => []ProviderFoundIfZeroDropped` |

This runner passes every transfer as a branch, so every entry is a branch's
(`OnlyBranches`) and a hit always shifts one bit in; no condition on the trace
is needed.

### Micro-TAGE in hardware (`UTageInFlight_proofs`)

For every program, all sizes, any number in flight, from `HardwareAssumption`:

| Theorem | States |
|---|---|
| `History` | `Spec => []HistoryFollowsPath` |
| `AcceptsAll` | `Spec => []NothingRefused` |
| `OnlyControlHits` | `Spec => []HitsAreControl` |
| `OneEntry` | `Spec => []OneEntryPerWord` |
| `Allocation` | `Spec => []AllocatesWhenWrong` |
| `Forgets` | `Spec => ForgetsAtFence` |

`HitsAreControl` needs that, until a fence, every entry and everything that is
still to be trained speaks of the program as it is (`EntriesOfCode`,
`DataOfCode`), and that a fence waits for what is before it (`Quiet`): a store
into the code may be seen only behind the fence, where the buffer is empty
(`ClearedFirst`).  `NothingRefused` follows from `Quiet`, `AllocatesWhenWrong`
from `Directions`, which ties the direction an instruction was predicted in to
the history it carries.  `Forgets` needs that the row counter of the clearing
meets every row: the rows, which are vectors of bits, are counted with powers of
two and their numbers fill `0 .. LastRow`.

`PredictorLemmas` holds what the three share: shifting and repairing a history,
saturating counters, types of hashed indices, look-up and training of the
buffer, the type of the stack.

### Memory path (`MemoryPath_proofs`)

For any number of lines, beats, evictions and places, from `LineAssumption` and
`PathAssumption`:

| Theorem | States |
|---|---|
| `BuffersAgree` | `Spec => []BuffersInStep` |
| `LinesLand` | `Spec => []EvictionsLand` |
| `ReadsStayOut` | `Spec => NoReadIntoBurst` |
| `Refinement` | `Spec => ImplementsDevice` |

* Lines (`LinesInv`).  Beats and addresses travel in two channels that nothing
  ties together.  The invariant says that there is an assignment of each beat
  in flight to an address in flight, in order and complete, but for the burst
  under way; and that the newest version of a line is in the last of its
  evictions, if none waits in the last of its messages, and else in memory.
* Operations (`IoInv`).  An I/O operation that was started is in exactly one of
  six places: request, read or write channel, data or response channel, answer;
  and it is that of the instruction at the head of write-back.  The refinement
  rests on this: each rule is then one step of `DeviceOnce` or a stutter.
* Buffers (`AnswersInv`, `UniqueTags`).  Answers of the cache pair with the
  memory operations in flight, in order.

The invariant was also checked by TLC on two larger instances before the proof:
lines alone with two lines, three beats, two evictions and channels of two
(43,728 states), and operations with buffers of two places and four tags
(339,922 states).

### Multiplications and divisions (`Execution_proofs`)

For every width, number of steps of the divider, numbers of registers in the
multiplier, depth and program, from `WidthAssumption` and `MboxAssumption`:

| Theorem | States |
|---|---|
| `MboxTypeCorrect` | `MboxSpec => []MboxTypeOK` |
| `MboxResults` | `MboxSpec => []ResultsAreSpecified` |
| `MboxFull` | `MboxSpec => []NoResultWhenFull` |
| `MboxTraps` | `MULSTAGES_TOTAL = 2` implies `MboxSpec => []TrapsDelivered` |

`MboxResults` says two things: the units compute what the instruction set
specifies, and each result reaches its own instruction.  Neither is inductive
without what is under way.

* *The arithmetic.*  `Brought(p, n, d, k)` says what the pair of registers
  `partial` holds when `k` bits of the quotient of `n` by `d` have been brought
  in: the high bits of `n` are divided, the low ones still to come.  One
  bit (`OneBit`) takes it from `k` to `k + 1`, a cycle
  (`fn_single_div`) from `k` to `k + StepBits`; for `k = XLEN` it is quotient
  and remainder.  The remainder register is one bit wider than a word and the
  code compares without that bit: in every step but the last it is zero, and in
  the last, with a divisor of more than half the range, it may be set in what is
  left over and is cut off.  What the divider does with signs before and after
  (`fn_fix_inputs`, `Complements`) then gives the division that rounds towards
  zero, for every word, the most negative one and half words included
  (`QuotientSpecified`, `ByZeroSpecified`), and one signed multiplier of
  `XLEN + 1` bits serves all four products (`ProductSpecified`).  The facts on
  powers of two, quotients and remainders that this needs come first; powers of
  two are counted as the subsets of `1..n`, and what a recursive function
  computes for every width is obtained from the naturals being well founded
  (`NoSmallestMissing`).
* *The order.*  `MboxInv` has five parts.  Besides `MboxTypeOK` and
  `ResultsAreSpecified`: `Counted`, the results waiting and the places of
  `ff_ordering` make up `isb_s3s4`, and the places say which unit; `Pipeline`,
  there is an assignment of the multiplications of the queue to registers, the
  older ahead, that covers every register in use; `DividerInv`, there is at most
  one division, the divider works for it, and after `n` steps `Brought` holds
  for `n * StepBits`.  `NoResultWhenFull` follows: whatever is under way has
  its place in `isb_s3s4`, of the same depth as the FIFO of results.
* *The traps.*  `TrapTimed`: a division by zero is at the head of the queue in
  the one cycle in which `rg_trap` holds its trap.  With two registers a
  multiplication ahead of it leaves in time.  The hypothesis is needed:
  with four the property is false, which is disagreement 4 of section 4.

### What is only model-checked

Liveness (`AlwaysProgress`, `StallsEnd`, `EventuallyLearned`, `FetchResumes`,
`RequestsAnswered`, `ResultsCome`): liveness under fairness is out of the
prover's reach.  For `ResultsCome` the theorems give part of the argument:
a division that is under way is at most at step `DIVSTAGES + 1` (`DividerInv`),
and its result always finds room (`MboxFull`).

## 7. Plan

Done, in this order: the pipeline control and the machine it implements; its
proofs; the gshare model with its runner and the proofs about the buffer; the
micro-TAGE model with its runner; operands; fetch with `compressed`; the memory
path and the machine it implements; multiplier and divider; the micro-TAGE
predictor in hardware; the proofs of all these, the arithmetic of the multiplier
and divider included.

Next, by importance:

1. Base arithmetic, the JALR comparison and the decompressor as functions
   against reference definitions over bounded words.
2. `UTageInFlight` with `compressed` (two banks, entries of half-words, the
   history of a delayed redirection) and with the return address stack.
3. The decoder's choice of class and the commit log, so that the dequeue that
   `stage4.bsv:315` leaves out becomes a property.

## 8. What is not modelled

* csrbox, the caches, the floating-point units and the interrupt controllers
  are generated or in submodules whose directories are empty.  Their answers
  are nondeterministic where the modelled code looks at them.
* The data cache, the AXI transactors and the fabric, beyond the use that
  `LineTraffic` and `MemoryPath` say they make of them; fetch requests of the
  I-cache, whose rules only forward; atomics and address translation.
* Debug, triggers, commit logs and trace encoding are optional features that
  add causes of a trap, which `CorePipeline` has, or only observe.
* The `.bsv` sources of the gshare, bimodal and TAGE predictors: nothing
  instantiates them.  Sources kept for reference and not built.
* The initialisation of the register file (32 cycles after reset) is the
  initial state of `OperandBypass`; only the integer registers are modelled.
* Liveness of fetch alone (an instruction is handed on again and again under
  weak fairness of both stages) holds on the instance of `fetch`, and is left
  out of the runs for its cost.
