# Ld in TLA+

Ld turns a request in Korean, or an answered questionnaire, into a ladder
program: a state-machine specification is *synthesised* to IEC 61131-3
structured text (ST), *verified*, *simulated*, *translated* to vendor
instruction lists, and a running PLC is *driven* through adapters behind a
software safety kernel.  This directory holds the TLA+ models of that code, the
TLC configurations that check them and the theorems that TLAPS proves of them.

Contents: [1 inventory](#1-inventory) · [2 plan](#2-plan) ·
[3 modules](#3-modules-and-the-code) · [4 runs](#4-runs) ·
[5 what the code does not keep](#5-where-code-and-documents-disagree) ·
[6 proofs](#6-proofs) · [7 not modelled](#7-not-modelled)

## 1 Inventory

Paths are under `src/app/` unless they say otherwise.

| Component | State it keeps | Operations | What is hard | What makes it correct |
|---|---|---|---|---|
| Expressions `boolexpr.py` | none (trees) | parse, NNF, DNF | precedence, negation of comparisons, TRUE/FALSE | every form has the value of the tree |
| Specification `models.py` | none (data) | validation | references between parts | – |
| Synthesiser `synth.py` | none (pure) | `_synth_one`, `synthesize_st`, `covers_all_outputs` | seal, stop and guard of several states and transitions on one output | interlocked state-driven outputs are never ON together |
| ST simulator `simulator.py` | symbol table, timers, counters, input timeline | `simulate`, `eval_assign_block` | in-place evaluation: line order is semantics | a scan is what the verifier thinks it is |
| Verifier `verifier.py` | none (queries) | `check_interlocks_st`, `check_interlocks_kinduction`, `check_double_coils`, reachability | bounded queries standing for all scans | "no issue" means no reachable violation |
| Safety kernel `comms/safety_kernel.py` | `_seq`, `_last_write_at`, audit log | `write_inputs`, `read_outputs`, `close` | link failures after the checks, unmentioned inputs, clock | unsafe commands never reach the PLC; every call is audited |
| FEnet / MELSEC / Modbus clients `comms/*.py` | socket, id counter | `_transaction`, `write_inputs`, `read_outputs`, `close` | timeouts that leave the socket open, partial reads | an answer belongs to its request |
| XGK interpreter `xgk/interpreter.py` | table, blocks | `simulate_xgk` | order of blocks and rungs | agrees with the ST simulator |
| Transpiler, emitters `transpiler.py`, `emit/`, `export/` | none | ST → ladder → IL | blocks without a counterpart | nothing is dropped silently |
| Allocator `memory_map.py` | two maps, next indices | `allocate`, `build_from_spec`, `merge_double_coils` | fixed and automatic addresses share a space | one address, one symbol |
| Pipeline `graph.py`, `agents.py` | `PipelineState` | analyst → architect → verifier → renderer | retries, revision limit | ends; a result is passed or has an error, never both |
| Project generator `generate.py` | files, manifest | `generate_project` | failure half way, two runs at once | a manifest means a complete project |
| Co-simulation `cosim.py` | session, trace | init, set, step, state, trace | failed init, bad input, trace limit | a refused message changes nothing |
| Server `server.py` | requests | HTTP, SSE, websocket | progress queue across threads | the stream ends |
| Wizard, patterns `wizard.py`, `patterns/` | none | questionnaire → specification | sequencer | one step active at a time |
| OpenPLC drivers `src/openplc_driver/*.cpp` | socket, buffers, mutex | init, cycle_start, cycle_end | writes outside the lock, ignored failures | the field sees one output image |
| Twin, datasets, matching, retrieval, training, frontend, desktop | – | – | external processes, wording | – |

**How they interact.** Synthesiser, simulator and verifier communicate through
the ST *text*: each parses it with its own patterns, which is where they can
disagree.  The kernel wraps a `PlcLink` and calls synthesiser and simulator for
its dry run; a link is one client with one socket; on the other side of the
socket the PLC applies requests in order and scans whenever it likes.  Nothing
in the kernel or in a client is shared between threads; the concurrency is that
of the PLC, the network and the clock with one caller.

Around the compiler there is more concurrency: HTTP requests generate projects in
one directory tree at the same time, a worker thread feeds the event loop of the
server, and the OpenPLC drivers share buffers and their mutex with the runtime's
threads while they block on a socket.

The hazards that follow from this, each with its line and the properties that
watch it, are listed in `PROJECT.json`.

## 2 Plan

Done, in this order (⟶ reads "implements"):

1. The logic core `LadderLogic`, `Synth`, `ScanCycle` ⟶ `ScanRelation`,
   `InterlockVerifier`; the write path `WriteGate`, `SafetyKernel` ⟶ `GatedPlc`; the
   transport `FieldClient`; the first proofs about them.
2. Timers and counters, the wizard's recipes as specifications, their programs ⟶
   the step chart they were built from; the XGK instructions beside the ST.
3. The links with their device maps, the OpenPLC drivers.
4. Expressions, specification checks, device allocator, double coil merge.
5. Pipeline, project files, progress stream, co-simulation.
6. Proofs about allocator, kernel, client and driver.
7. Proofs about k-induction, timers and counters, synthesised specifications and
   their charts, the instruction lists, the checks of specifications, the device
   maps of the links, and every part of the service, the merge of double coils last.

Left: composition of `SafetyKernel` with `FieldClient`, so that
`AnswersOwnRequest` discharges what `Acknowledge` takes for granted.

## 3 Modules and the code

### Programs and what is known of them

**`LadderLogic`** (pure).  A program is its coil lines in order.  A condition is
a set of product terms, the form `boolexpr.to_dnf` yields; a comparison with a
constant is a literal of its own (as it is there), and all comparisons of a
program refer to one analog register.  `CoilValue` is the value of
`OUT := (on OR OUT) AND NOT (cut) AND NOT partner …`, and of a plain derived
assignment.  `IsScan` is one whole scan as a relation between two output images
(`_trans_at`).  A program also records which of its lines end in a comment
(`hidden`) and whether synthesis raises (`broken`).

**`Synth`** is `synth.py` on specifications: which transitions turn an output on
and off, which outputs get a line, whose `NOT` is on it.

**`ScanCycle`** is the loop of `simulate()`: `ReadInputs` (inputs and block bits
enter the table), then one `EvalCoil` per line; the last one records the sample.
Timer and counter bits take any value in any scan: a superset of what the code
does, so every safety property holds of it.  **`ScanRelation`** is the transition
system of the verifier, and `ScanCycle` is shown to implement it.

**`InterlockVerifier`** evaluates both ST-level interlock checks as the
existential questions Z3 is asked – one step from any safe image; an unfolding of
`K` scans from all OFF; `K` distinct safe images followed by a clash – and then
lets the program scan.  `View` is what the line pattern of `_coil_equations`
lets the checks see.  The frames of one unfolding share the value of a
comparison, as the code's `z3.Int` do; the running program does not.

**`FunctionBlocks`** is TON, TOF, TP, CTU and CTD as `simulator.py` steps them, time
in units of the shortest scan; **`BlockTimeline`** drives one block with any input
sequence and keeps, beside it, how long the input has been ON or OFF – what the
standard's definitions speak of – and says which bits follow it: TON, TOF and TP to
the scan (an edge that comes while a pulse runs is not remembered), CTU with its
edge memory up to one edge, CTD not at all (`simulator.py:132` never loads its
preset).  **`StEngine`** is a whole scan with blocks: sense
the inputs, run the blocks in order, evaluate the coils; **`SpecScan`** scans a
synthesised specification for ever.

**`Recipes`** is the wizard: one operator per recipe of `wizard.py`, from the
answers to the specification, with the fallbacks of `_val` and the checks of
`_validate_spec`.  **`RecipeInstances`** makes the specifications that are checked,
the default answers and every pair of signals with one name that the wizard lets
through.  **`SequenceChart`** is the abstract specification: one step active at a
time, left only through a declared transition whose condition holds.
`SpecScan` ⟶ `SequenceChart`, although coil lines know no steps.
**`RecipeClaims`** is what forms and docstrings say of single recipes, and the
shapes that the charts of the library have.

**`XgkEngine`** is the way to the XGK controller: transpiler (a rung per coil, a
product term per branch), `_emit_orb`, and the interpreter's stack of contacts;
**`XgkScan`** runs it beside `SpecScan` on the same inputs and says what a
specification must be like to be translated without loss (`Translatable`).

**`BoolExpr`** is `boolexpr.py` on tokens: the recursive-descent parser with what it
raises, `_to_nnf`, `dist` and the guard against too many terms, and `Unparse`
for the opposite direction.  A tree is the sequence of its nodes, operands before
the node that refers to them; what the code does by recursion is a recursive
function over their places.  What `parse_not`, `parse_and` and `parse_or` return
depends only on where in the tokens they are called, so the parser is a table of
one result per level and position (`Parsed`), filled from the last token to the
first; a call that raises leaves its place empty.  The loops of `parse_and` and
`parse_or` become "an operand and, after the word, the rest of the list", with the
operands collected in one node as the loops do.  Nodes the result does not refer
to stay in the sequence and have no effect on its value.  **`SpecChecks`** is `check_interlocks_z3` and
`check_reachability` on a specification, beside the chart that moves.

### From programs to devices

**`Allocator`** is `DeviceAllocator`: two dictionaries and an index per letter.  An
address keeps how it is spelled, since the code compares texts.  An answer is
`None` when the call raises.  **`DoubleCoil`** is `merge_double_coils` on lines of
statements, with that allocator: `BeginMerge` detects the double coils and fixes
the `order` of the dictionary (by first assignment), `IssueRelay` is one pass of
the inner loop, `Rewrite` builds the result.  `Scan` says what a program means: the
names that are TRUE after it, given those that are TRUE before.

**`WriteGate`** holds the checks on a single command (`Safe`), with both dry runs.
**`SafetyKernel`** is `write_inputs` as its steps: `Refuse` or `Admit`, then `Send`
and `Acknowledge` for each frame, `Finish` or `LinkFails`.  `Apply`, `PlcScan` and
`Tick` are the PLC and the clock, enabled throughout.  `LinkFails` covers a failed
connection or send, a refusing PLC, a broken connection and a late answer: in
the last case the frame stays in `net` and may still be applied.  The verdict is
one atomic step because nothing it reads changes during it.  `calls` is a
history variable.  **`GatedPlc`** is the abstract promise.  `Acknowledge` waits
until everything sent is applied: the answer it stands for belongs to its frame.
`FieldClient` checks that for tagged protocols and refutes it for MELSEC.

**`FieldClient`** is one connection: request queue, reply stream cut into units
that arrive one by one, the two `_recv_exact` calls, the checks of the header,
the error reply, timeouts that throw away what was read, a peer that closes, and
`close()`.  Neither a timeout nor a bad header closes the socket, as in the code.
The constant `Tagged` distinguishes FEnet (and Modbus TCP) from MELSEC.

**`PlcLinks`** is the layer above: `ModbusPlcLink`, `FenetPlcLink` and
`MelsecPlcLink` with the maps they make of sorted symbols (Modbus with outputs as
coils, its default, and as discrete inputs), the packing of bits in bytes and half
bytes, the requests of `write_inputs` and `read_outputs` with their limits, and the
device that executes them, scanning between any two.  `_transaction` is `Send`,
then `TakeReply`, `Refused` or `LinkFails`; `Serve` is the device.  A call that fails
leaves its request and the answer on the connection, as the code leaves the socket
open: the device may execute the request at any later time, and the next
transaction finds the answer.  Modbus and FEnet raise on it, since its id is not
theirs, and every further call is a `LinkFails`; MELSEC takes it for its own.  A
broken header and a reply that is cut are `LinkFails` as well; the bytes are
`FieldClient`'s subject.  So is the accident that timeouts throw away just the
bytes left over while the device owes nothing: a connection that gets back into
step that way stays out of it in this module.  A behaviour is the
life of one connection: nothing in the code calls `close()` between two calls of
a link.

**`HalDriver`** is `fenet_hal.cpp` and `melsec_hal.cpp`: `init`, `cycle_start`,
`cycle_end`, `cleanup`, with one step between any two uses of socket, buffers and
mutex, another thread of the runtime that wants the mutex, and a field PLC that
answers, misanswers, hangs up or is silent.  Values are ages, so that "of one
moment" and "at least as recent as" can be said.

### The service

**`Pipeline`** is `graph.run_pipeline` with `agents.py`: each model call may raise, be
unusable or answer; retries, the synthesiser instead of the model, the verifier,
feedback, the revision limit, the renderer.  What `run_pipeline` does not catch ends
the run with an exception: conditions of the model's specification that the
verifier cannot parse (`VerifierRaises`); what the architect raises before or behind
the model call it does catch (`ArchitectAllocatesInVain`).  **`ProjectFiles`** is
`generate_project` as its operations on the file system, for several calls, each
of which may be killed between two; `rmtree` removes in any order.  A call that is
set up with faults may also find any of them raising: `MkDirFails`, `WriteFails`
(which leaves the file as it was or with content of nobody, `Torn`) and
`RmTreeFails`, after which the rest of the old project stays; nothing in the code
repairs what they leave.
**`ProgressStream`** is `generate_files`: a worker thread that calls `put_nowait` of
an `asyncio.Queue`, the loop with its callbacks, futures and the selector it
sleeps in.  **`CosimSession`** is the message handler and its session, on the
engine of `StEngine`.

### Composition

`MC*` modules give the constants their values.  Four modules put several
components side by side: `MCPrograms` (programs of recipes; single blocks),
`Field` (client; links; driver), `MCAuthoring` (expressions; charts; allocator),
`Service` (co-simulation; pipeline; merge; files; stream).  `Field` and `Service`
are specifications for any constants, which `MCField` and `MCService`
instantiate, so that what the runs check is what the theorems state.  These components
share no state in the code, so nothing is lost when only one of them, `part`,
moves in a behaviour and the others wait in an initial state; what *is* shared
is composed inside the modules above.  Where a module is checked under several
settings (family of a link, interface of a driver, directories and force flags of
the calls), the setting is a variable that is chosen at the start and never
changes.  `*_proofs` hold the theorems.  Definitions marked *Mutation* are faulty
variants of the definition below them, there to show that a property would
notice; no specification uses them.

## 4 Runs

| Run | Question | States | Properties |
|---|---|---|---|
| `scan` | Do synthesised programs keep their interlocks, and is the scan the verifier's step? | 8 378 | `GuardedPairsExclude`, `StateDrivenPairsExclude`, `RefinesVerifier` |
| `verifier` | Does "no issue" mean no reachable clash? | 1 496 | `OneStepIsSound`, `BooleanKindIsSound`, `LayersAgree` |
| `kernel` | What does the kernel guarantee on an unreliable link? | 33 836 | `AuditIsComplete`, `AllowMeansDelivered`, `AllowedCallsAreSpaced`, `RefinesGatedPlc` |
| `kernel_complete` | When does it keep interlocks? | 17 926 | `CompleteCommandsKeepInterlocks` |
| `field`: client | Do answers match requests, do transactions end? | 351 000 in all | `AnswersOwnRequest`, `CleanConnectionsAreInStep`, `TransactionsEnd` |
| `field`: links | Do commands arrive bit for bit; of when are the outputs read? | | `InputsStayWritten`, `ReadsAreTrue` |
| `field`: driver | Does the runtime see one moment of the field and the field the latest image; is the mutex given back? | | `ImagesAreOneMoment`, `CleanCycleReachesField`, `HooksComeBack` |
| `programs`: recipes | Does every program of the library keep interlocks, stop, follow its chart, end its steps; does the XGK text do the same? | 8 400 in all | `InterlocksHold`, `StopCutsOutputs`, `RefinesChart`, `StepsEndOnTime`, `SameOutputs` |
| `programs`: blocks | Which bits of timers and counters follow their inputs, and how closely? | | `BlockBitsFollowInputs` |
| `authoring`: expressions | Do parsing and normal forms keep the meaning? | 128 000 in all | `FormsKeepTheMeaning` |
| `authoring`: charts | Is what the specification checks say true of the chart? | | `ChecksAreSound` |
| `authoring`: allocator | Is an address one symbol's, for good? | | `OneToOne`, `AddressesAreStable` |
| `service`: co-simulation | Does the trace show the scans of the simulation, and do refused messages change nothing? | 65 000 in all | `TraceShowsSimulatedScans`, `ErrorsChangeNothing` |
| `service`: pipeline | Does it end, with a report on the program it returns, after how many calls? | | `PassedMeansThisProgram`, `RevisionsAreBounded`, `EverythingEnds` |
| `service`: merge | Is every coil of the result assigned once, and the OR of its assignments? | | `MergeKeepsTheProgram` |
| `service`: files | What does a manifest stand for; what may a call touch? | | `ProjectsAreWhole`, `UnforcedCallsKeepProjects`, `EverythingEnds` |
| `service`: stream | Are events sent in order, and does the stream end? | | `SentInOrder`, `EverythingEnds` |

Some properties are conjunctions of smaller ones that answer one question
together; the text and the comments name the parts:

| Property | Parts |
|---|---|
| `ReadsAreTrue` | `OutputsAreOneMoment`, `OutputsAreOfThisCall`, `MappedCallsReturn` |
| `ImagesAreOneMoment` | `InputsAreOneMoment`, `SnapshotIsOneMoment` |
| `HooksComeBack` | `OthersAreLetIn`, `CyclesEnd` |
| `BlockBitsFollowInputs` | `TonMeansHeld`, `TofMeansRecent`, `TpPulseIsExact`, `CountIsOffByAtMostOne`, `CtdIsAlwaysOn` |
| `FormsKeepTheMeaning` | `ParsedMeansTheSame`, `NormalFormMeansTheSame`, `DnfMeansTheSame`, `ProductsCanBeDrawn` |
| `ChecksAreSound` | `WarnedStatesAreNeverEntered`, `ConditionCheckIsSound` |
| `RevisionsAreBounded` | `HopelessSpecsUseUpTheLimit`, `CallsAreBounded`, the pipeline's types |
| `MergeKeepsTheProgram` | `MergeIsOr`, `MergedOnce` |
| `ProjectsAreWhole` | `ManifestMeansComplete`, `QuietProjectsAreWhole`, the files' types |
| `EverythingEnds` | `RequestsEnd`, `CallsEnd`, `StreamsEnd` |

The types of the kernel and of everything on the wire are checked beside them
(`TypeOK`, `FieldTypeOK`); most types are also proved (section 6).  The four runs that expect a violation are in section 5.

**Bounds.**

* `scan`: 72 programs, all combinations of three start conditions for either
  direction, two stop conditions, both declaration orders, and the reverse output
  state-driven or derived; an input, a timer bit and a comparison occur in them.
  The state space is finite without a cut.
* `verifier`: 300 combinations of coil lines in four arrangements, with an auxiliary
  relay before or after the pair; `K = 3` as in the code; image spaces have at most
  eight elements, so three distinct images exhaust the paths that matter.
* `kernel`: two calls, clock 0..2 with `MinInterval = 2` (a call exactly at the
  limit and one short of it), seven commands (empty, partial, complete, foreign
  symbol, wrong type), four programs; two calls are enough for every property that
  relates a call to an earlier one.
* `field`: four transactions on ids modulo four, replies of three units, at most
  six units left unread before a new request (`MaxUnread`), so two complete stale
  replies can be ahead of the right one.  Links: three inputs and two outputs with
  two bits to a byte and two blocks to a request, so a command fills a byte and
  starts another, and a read is as long as a request may be; four commands (none,
  two inputs with a gap, three in a row, one with an unmapped symbol), in any order
  with reads, for ever; one request of an earlier call may still be on the connection
  when the next is sent (`MaxLate`), enough to be executed late and to be answered
  in place of the next.  Driver: two inputs and two outputs, enough for a torn image; the field
  changes once and outputs are written twice (`MaxField`, `MaxGen`), enough for old
  and new to meet; cycles repeat without bound.
* `programs`: all recipes, all input sequences, for ever; presets are the answers'
  defaults cut to a few scans, so timers elapse, are reset and elapse again.
  `Charted` leaves out two recipes whose conditions do not imply the step they
  leave (section 5 has one of them), `Stoppable` three whose stop is no stop of
  outputs.  Blocks: presets 0..3 and 5, scans of one or two units, histories up to
  eight units (`Horizon`): longer than any preset twice, so nothing new can come.
* `authoring`: all trees of depth one over six leaves (two names, the constants, two
  comparisons), their negations, the AND of any two, the OR of any two with a third
  name, so every operator stands above and below every other; all texts of four
  tokens over nine; at most three terms (`MaxTerms`), in 13 worlds: the names ON and
  OFF in every combination, the level below, at and above the constant; all transition relations on three states with zero to two
  initial ones; three symbols, a hint, two indices per letter, every fixed address.
* `service`: two scans to a step message, two samples of trace kept, a history of
  three scans; two revisions and three attempts (the code's default of attempts);
  merges of four assignments to two coils, each reading an input or the first coil
  (so both coils are double, in either order, or one is assigned up to four times),
  or of three lines with function block calls among them, scanned from every set of
  names the last scan may have left; three calls in own directories, in one
  directory at once, and in turn, with and without failing operations; three events and two wake-ups of the loop by
  other traffic.

`CHECK_DEADLOCK FALSE` is set where a bound ends the behaviour (`kernel`: calls;
`field`: transactions and changes; `authoring`: indices) or the code itself does
(a pipeline that has ended, calls that have returned, a closed stream, one
parse); `scan`, `verifier` and `programs` never stop and are checked for deadlock.

**Fairness.**

* `FieldClient`: weak fairness of the client's own steps; a blocked `recv` returns,
  with data or with the exception of the socket timeout that `_connect` sets (three
  seconds).  The device owes nothing.
* `HalDriver`: strong fairness of a cycle that has begun and of the other thread:
  hooks return, and a pthread mutex under two threads is passed on.  Nobody is
  obliged to begin a cycle.  `CyclesEnd` also assumes that the field PLC answers or
  hangs up – the drivers set no timeout on their sockets – and is stated for that
  setting only; `OthersAreLetIn` does not.
* `Pipeline`: weak fairness of the whole: a call of the model returns or raises.
* `ProjectFiles`: weak fairness of each call's next file operation; a kill ends it.
* `ProgressStream`: weak fairness of the event loop, and of the worker's end: the
  generation it runs ends (that is `Pipeline`'s and `ProjectFiles`' subject).  A
  wake-up by other traffic is not fair.

**What the properties mean.**  `GuardedPairsExclude` says which guard carries the
interlock: that of the coil evaluated later.  `CompleteCommandsKeepInterlocks`
delimits the promise that section 5 shows to be too wide: for combinational
programs, commands that mention every input and travel in one frame keep the
interlocks.  `LayersAgree` makes a k-induction warning a mere repetition of the
one-step error.  `RefinesChart` is the correctness of synthesis: nobody wrote a
state variable, yet the outputs move as if there were one.  `TofMeansRecent`,
`TpPulseIsExact`, `CountIsOffByAtMostOne` and `CtdIsAlwaysOn` say exactly how far the
blocks are from the standard (a counter sees an edge that came during a reset).
`InputsStayWritten` and `OutputsAreOfThisCall` are about an input whose device no
output shares, and about a MELSEC link only while it is `InStep`, that is, until a
call gives up and leaves its answer behind (`melsec_stale` shows what comes then).
`TraceShowsSimulatedScans` compares scan by scan; the session stamps a sample with
the end of its scan (`cosim.py:93`), `simulate()` with the beginning.
`HopelessSpecsUseUpTheLimit`: what only the specification can cure is not cured by
revising the program, so such a run ends at the limit with an error and is never
passed; if the verifier cannot even parse the specification, it ends in an exception
before there is a report.  `ManifestMeansComplete` holds for a project of one call even if the
process dies at any point and any write raises; section 5 says what breaks it.

## 5 Where code and documents disagree

| Run | The claim | What happens |
|---|---|---|
| `kind_shared_level` | `verifier.py:274`: the k-induction proves the exclusion for every reachable scan | One integer stands for the register in all scans, so a program that needs the level to change between two scans to break the interlock is "proved".  The one-step check still reports it. |
| `kernel_partial` | `safety_kernel.py:10`: unsafe commands are suppressed before the link | Inputs a command does not mention count as OFF in the dry run; the PLC holds what was written before. |
| `melsec_stale` | `melsec.py:268`: returns the response to the request | After a timeout, the late response to the previous one. |
| `recipe_duty` | `wizard.py:1112`: the lead pump follows demand | The transition from the lag step back to the lead step carries `NOT HIGH_DEMAND` only, and a start condition keeps nothing of its source state: the lead pump starts without demand. |

Further claims of documents and comments are stated as definitions that no run
lists, because they do not hold.  Each can be reproduced by naming it as the
INVARIANT or PROPERTY of the module with the constants given here.

| Definition | Claim | Where it fails |
|---|---|---|
| `InterlockVerifier!LostGuardsAreCaught` | `verifier.py:179` | constants of `kind_shared_level` with `Programs <- Commented`: a trailing comment hides a line from the checks |
| `SafetyKernel!RejectedMeansBlocked` | `protocols.py:14` | constants of `kernel`: also raised after points were applied |
| `SafetyKernel!EffectiveWritesAreSpaced` | `safety_kernel.py:74` | constants of `kernel`: a write answered late starts no interval |
| `SafetyKernel!InterlocksHoldOnPlc` | `safety_kernel.py:10` | constants of `kernel_complete` with `Blocks = {}`: whole commands that travel point by point are scanned half way |
| `RecipeClaims!CoilsSettleInOnePass` | `simulator.py:340` | constants of `recipe_duty`, only `fwd_rev`: reversal in one scan |
| `RecipeClaims!CascadeStopsUpstreamFirst` | `wizard.py:712` | only `cascade_conveyor` |
| `RecipeClaims!PulseIsOneScan` | `wizard.py:871` | only `one_shot`: sealed, ON for two scans |
| `XgkScan!SameOutputs` | `interpreter.py:5` | `Allocated = TRUE`: block and contact have different operands |
| `XgkScan!SclSaysTheSame` | `ladder_il.py:168` | an output without a transition into its states: `:= TRUE` |
| `Allocator!DevicesAreNotShared` | `memory_map.py:3` | constants of `authoring`: `P3` and `P0003` |
| `DoubleCoil!MergeIsOrInEveryLayout` | `memory_map.py:170` | two assignments on a line, or a comment behind one |
| `SpecChecks!StatesWithoutWarningAreReachable` | `verifier.py:408` | charts of `authoring`: two states that enter each other |
| `SpecChecks!SkippedPairsStayApart` | `verifier.py:137` | a derived output in an interlock |
| `ProgressStream!ProgressIsLive` | `server.py:238` | `put_nowait` from the thread does not wake the loop: an event may wait until something else does |
| `CosimSession!SetIsReflected` | `cosim.py:5` | the reply to `set` shows the last scan |
| `PlcLinks!InputsStayWritten` without its condition on outputs | `modbus_tcp.py:134` | constants of `field`: on the default Modbus map inputs and outputs share coils |
| `PlcLinks!MappedCallsReturn` | `fenet_xgt.py:399` | more outputs than `MaxBlocks`: every read raises |
| `BlockTimeline!CtdCountsDown` | `models.py:59` | `CTD` of any preset above zero: its bit is ON from the first scan |
| `ProjectFiles!CompletionSignal` | `generate.py:285` | calls in turn, one forced and killed or failing in `rmtree`: the old manifest stays beside a part of its files |

Three properties carry a condition for the same reason.  `OutputsAreOneMoment`
leaves out the MELSEC link, which reads one point per transaction against
`melsec.py:410`; `InputsAreOneMoment` leaves out the MELSEC driver, which does the
same against `openplc_driver/README.md:29`; `CleanCycleReachesField` leaves out the
v3 entry points, through which `init` gets no buffers and every cycle returns at
once, against `fenet_hal.cpp:426`.  `UnforcedCallsKeepProjects` and
`QuietProjectsAreWhole` are about calls in turn: two at once both pass the check of
`generate.py:222`, and forced calls on one name leave a mixture of files.
`QuietProjectsAreWhole` also leaves out projects a call was killed in or could not
clear, as `CompletionSignal` shows it must.

## 6 Proofs

TLC checks the instances above; the following hold for all values of the
constants that satisfy the modules' assumptions (any symbols, programs, commands,
bounds).

* **`ScanCycle_proofs`.**  `GuardedPairsNeverClash` and `ScanRefinesVerifier`, for
  any set of programs with one coil line per output (what `check_double_coils`
  demands).  Neither property is inductive: in mid-scan the table is a mixture.
  The invariant `ScanInv` describes the mixture – lines done hold the value their
  frame gives them, lines not yet done still hold the published image – and with
  it the last coil of a scan is exactly a step of the verifier's relation
  (`FinishedScan`), whose images `ScanExcludes` shows free of guarded clashes.
  The synthesiser puts each partner's `NOT` on both coils of a state-driven pair,
  so whichever is later has it: `SynthesisedPairsNeverClash` for every set of
  specifications.
* **`Programs_proofs`.**  A scan is a loop over the block calls and one over the
  coil lines, a recursive function of the position; what a loop does is proved by
  induction along the list.  `LineDecides` takes the loop away: a coil ends with the
  value its line has over the outputs above at their final values and everything
  else at the values the coil block began with.
  `InterlocksAlwaysHold`, with timers and counters and for every declared interlock
  of a valid specification: the later line of a pair finds the earlier one ON or
  stays OFF, and nothing changes either of them afterwards (`CoilsExclude`).
  `StopAlwaysWins`: a condition that is a way out by itself, on a name no coil
  writes, cuts the output wherever its line stands (`CutWins`); that the stop
  buttons are such conditions is `StopsAreWaysOut`, evaluated by TLC on every
  specification of `Stoppable`.
  `ProgramsFollowTheirCharts` is a refinement proof per *shape* of chart, because
  nothing general is true (section 5): latches and selectors, whose states exclude
  one another (152 of the 176 charted specifications), sequences, whose steps follow
  one another in the order of the outputs (21), and the star-delta starter (3).
  `ChartShapes` says that every charted specification has one of the shapes, and
  TLC evaluates it on all of them.  The invariant is that the outputs are those of
  one state and that the bit of a step's timer is ON only while its step is: so no
  two ways into steps can be open at once, and what switches one step off is what
  switches the next one on.
  `StepsAlwaysEnd` follows from that and from `TimersEndSteps`, the starter by its
  chart.
  `InstructionsKeepTheMeaning` (XGK text and ST program have the same outputs ON)
  has three parts.  The sums of products of the transpiler have the value of the
  coil line in every table (`RungsMean`); the instructions of such a sum leave its
  value on the stack of the interpreter (`SeriesStacks`, `PowerOfOrb`); and the
  loops of the two engines agree position by position (`RungsAreCalls`,
  `RungsAreLines`).  The invariant is equality of the whole state, blocks included.
  It needs `Translatable`, evaluated by TLC on every specification of the library:
  every product drawn has a contact, timers are on-delays, and no block reads the
  bit of a block above it – the interpreter takes the power of all blocks first.
  And it needs bits without device addresses (`~Allocated`): with them the
  property is false (section 5).
  `BlockBitsAlwaysFollow`: the history beside a block is cut at `Horizon`, the
  accumulators at the preset; the invariant ties each accumulator to the history
  through the same cut, one lemma per block for what a scan does.  A CTU count is
  one edge off at most: its edge memory is the input of the last scan, or nothing
  has been counted since the reset (`CtuInv`).  A CTD counts from 0 downwards.
* **`InterlockVerifier_proofs`.**  `OneStepSoundness`: the one-step check's
  quantification over all safe images is the induction step, all OFF its base.
  `KindSoundness`: the k-induction is not inductive, since its step case speaks of
  `K` different safe images in a row.  The invariant keeps a witness, a path of
  safe images from all OFF to the present one that visits none twice; a scan
  prolongs it or leads back onto it.  While it is shorter than `K` the base case
  keeps the next image safe, from then on its last `K` images are the path of the
  step case.  It is here that the frames of one unfolding may share a comparison
  and the program may not compare anything.
  `LayersAlwaysAgree`: the two queries of the second layer each contain a step of
  the first.  `VerdictTypeCorrect`: only declared interlocks get a report.
* **`SafetyKernel_proofs`.**  `BooksAreKept` (numbering of audit, calls and frames)
  carries `AuditNeverMissesACall`, `AllowedCallsSpaced` and
  `AllowedCallsAreDelivered`; the latter two need that the last write's time
  bounds the begin of every allowed call from above, and that a frame waits,
  travels or is applied and is never lost while its call is alive.
  `OnlySafeFrames` (every frame waiting or travelling belongs to a command that
  passes all checks) carries `KernelRefinesGate`.  `CompleteCommandsAreSafe` says
  when the dry run is enough: if commands mention every input, travel in one frame
  and no coil writes an input (`CompleteCommands`), frames are whole commands, so the
  PLC always holds one command that passed (`HeldIsSafe`), and the scan of a
  combinational program depends on nothing else (`SameImage`).
* **`FieldClient_proofs`.**  For any number of ids and transactions and any size of
  header and body.  `CleanConnectionsPairUp`: only lengths matter, the invariant
  `InStep` bounds what is in flight by the reply that is waited for.
  `TaggedAnswersOwnRequest` needs to know what a broken stream can look like:
  replies of which a failure has taken the beginning and only a closed connection
  the end (`Contiguous`, `EndsWhole`), each unit under the id of its request, no id
  used twice (`MaxOps <= IdMod`).  A header with the latest id is then followed by
  its own body or by the end of the stream.  That fails without ids, as run
  `melsec_stale` shows.
* **`Field_proofs`.**  The drivers first: `ImagesOfOneMoment` and
  `CleanCyclesReachField`, for any size of the maps and any misbehaviour of the
  device.  Neither is inductive: both speak of the end of a loop.  `HalInv` says
  who holds the lock at every place of the cycle, how far a copy or a
  transmission has come, and that what is done is of this cycle.  Then the links.
  `InputsAreKept`, for every command, number of symbols, family and failure and
  for any number of late requests: `CallInv` says which request of the connection
  is the call's own, `CommandInv` that while a link is `InStep` the requests to come
  and the devices already written make up the command, and that no request on the
  connection carries an input whose write has returned (`Undisturbed`).  For a
  tagged link that means: an answer with the right id is the last thing on the
  connection (`AnswerIsOwn`), so everything sent before it has been executed.
  An input that shares its device with an output is left out (`Apart`).
  `ReadsTellTheTruth`: `ReadInv` keeps, for each bit answered and for the answer on
  its way (`Tells`), a moment of this call at which it was so; under the hypothesis
  `MapsFit` (one request that names every symbol is within the limits of its
  family) no mapped read is refused.
  `FieldTypeCorrect` is the types of client and drivers in one system.
* **`Service_proofs`.**  Every part of the service for any values of its
  constants.
  *Pipeline*: `PassedIsVerified` and `RevisionsBounded` for any limit, number of
  attempts and drafts; `PipeInv` keeps a budget of model calls for each stage of
  the loop, ties the report to the program it is about between verifier and
  end, and says how far a specification gets that is at fault itself or cannot be
  parsed (`HopelessInv`).
  *Stream*: `EventsInOrder` for any number of events; `FlowInv` says that what is
  sent, followed by what is queued, is what has been emitted, with the end mark
  behind it once the worker has ended.
  *Files*: `ProjectsStayWhole` and `ForcedCallsAlone` for any calls, names and lists of
  files.  A manifest is written last and removed at any time, so the invariant
  has to say at every place of a call what is in its folder.  There are two:
  `AloneInv` for a folder only one call works in, which holds for calls that
  overlap elsewhere, die at any point and find any operation raising; `TurnInv` for
  calls in turn that share folders, where the folder may hold what earlier calls
  left, and nothing is said of it once a call was killed or stopped in `rmtree`
  there (`Spoiled`).  Lists of files name no file twice.
  *Co-simulation*: `TraceShowsSimulation` and `ErrorsAreHarmless` for any
  specifications, any length of trace and any messages; `SessionInv` says that
  every state of the history follows from the one before by a scan of the inputs
  that were set (`Follows`), and that the trace is its end, each sample with the time
  at the end of its scan.
  *Merge*: `MergesKeepPrograms` for any programs, coils, inputs and relays already
  taken.  `MergeInv` says which relays have been issued and that each is taken in
  the allocator and never issued twice; at the end the result is `Merged`, and the
  rest is about that operator.  A program of one assignment a line is a sequence of
  at most one statement a line (`ThinPlaces`), so the k-th assignment to a coil
  and the k-th rewritten line are the same one (`OccurrencesNumbered`, a bijection
  between occurrences and relays, built along the lines).  Every name of the result
  is then written at one line only (`WrittenOnce`, `ResultHasNoDoubles`), a relay
  keeps what that line gave it until the OR reads it (`LastWrite`), and what the
  line reads is read in the result where it stands.  It needs
  `CoilProgramsAreMade`: programs name symbols, not addresses, as the synthesiser
  writes them and the architect is told to (`prompts.py:72`; a model that writes
  `M0000` itself is outside it), and the hints are made from the coils.
* **`Authoring_proofs`.**  `FormsKeepMeaning`, for any expressions, tokens, numerals,
  limit of terms and worlds, from `ExprAssumption`: identifiers, keywords, numerals
  and signs are different tokens, the trees are well formed and can be written.
  `ExprInv` says that at every stage `node` and `terms` are what the operators make
  of the text, and that the text is a tree's where a tree is meant; the rest is
  about the operators.
  *Round trip* (`ParseMeansTheSame`): every place of the parser's table refers to
  places filled before it and moves forward (`IsResult`, `ParsedIsFilled`), so the
  table is an expression (`ParseIsWhole`).  A text reads as a value on a level if,
  wherever it stands in the tokens before a token that ends that level, the call
  returns a node of that value just behind it (`Reads`).  The induction over the
  nodes of the tree carries three such facts (`NodeReads`): in parentheses as an
  operand, below an OR as a product, and on its own, which is where precedence is
  decided; the one over the operands of a node goes along the rest of the list
  (`JoinReads`), as the loops do.
  *Normal form* (`FormsMeanTheSame`): both forms of a node, plain and negated, have
  its value and the opposite one, by induction over the nodes; a NOT is left before
  variables only (`NotsAreInside`).
  *Products*: adding is OR and multiplying is AND (`AddedIsOr`, `MultipliedIsAnd`),
  also when the loop stops at an empty product and does not look at the rest; that
  needs the invariant that the counted list is empty exactly when the set is
  (`AreProducts`).  Dropping contradictions changes no value, and no comparison is
  negated, because a normal form has no NOT before one.
  `SpecificationChecksAreSound`, for any specification: the
  active state was entered by a transition whose condition the table of that step
  satisfies (`EnteredInv`), so a warned state is not among the targets, and if two
  outputs are ON together, this very table is the model the solver is asked for.
  `AddressesAreOneToOne` and `AddressesNeverChange`, for any
  symbols, hints, profile and order of requests.  `OneToOne` is inductive with
  the types: `_claim` is reached only for a symbol without an address, so an owner
  of the address that is not somebody else would be that symbol, and the inverse
  dictionary says it has none (`ClaimKeepsInverse`).  That the two directions are
  both in the invariant is what makes this work: the code checks one of them.

Types are proved beside them, by themselves (`TypeCorrect`, `KernelTypeCorrect`,
`ClientTypeCorrect`, `DriverTypeCorrect`, `FieldTypeCorrect`, `AllocTypeCorrect`) or
with the property they are part of (`RevisionsBounded`, `ProjectsStayWhole`).

**Induction over data** is done with the set form of the library's theorem
(`SetInduction`, and `WFInduction` on the order of the naturals), in which the
formula is the set of numbers for which it holds: for the lines of a program, the
requests of a command, the scans of a history, the length of a path, the nodes of
an expression, the places of the parser's table.  The same form shows that a
recursive function exists and satisfies its equation (`ValuesExist`, `FormsExist`).

**Only model-checked.**  `TransactionsEnd`, `HooksComeBack` and `EverythingEnds`
are liveness under fairness, which is out of the prover's reach, as is enabledness.
Every invariant and action property of the passing runs is stated by a theorem.

## 7 Not modelled

Texts: names are symbols, lines are records, and the only facts about formatting
kept are those that change what a line *does* (a comment, two statements on a
line, the spelling of an address).  Two symbols of a specification may have the
same name where the wizard allows it (`RecipeInstances`).  Word values (16 bits)
beside the bits of links and drivers, which take the same path.
`check_timers_counters`, which compares names.  Emitters other than XGK and SCL,
and the PLCopen export: other texts of the same rungs.  `patterns/library.py`,
texts and forms of the wizard.  Malformed requests to the mock servers.  HTTP
handlers of the server that only call what is modelled elsewhere.
`compile_gate.py`, the OpenPLC twin and the live differential run: external
processes.  The dataset bootstrap, matching, retrieval, wording, training,
benchmarks and user interfaces keep no state whose evolution could go wrong.

Assumed: Z3 is installed (without it the checks of the verifier return no
issue); a specification defines a derived output once (of two definitions the
code keeps the last); the blocks of a program the kernel runs dry are those whose
bit is OFF after a first scan, on-delays and up-counters of more than one scan or
edge (the dry run also sets the bits of off-delays, pulses, down-counters and
counters with a preset of one, which `WriteGate!DryInputs` does not); one caller per kernel and client
(the code gives them no locks, no caller in the repository shares one).  External
and modelled by what the code relies on: the language model (any program, or an
exception), `asyncio.Queue` and its loop, `shutil.rmtree`, the OpenPLC runtime and
its mutex, the field PLC.  The parser of expressions accepts any leftover token as
an operand, and the guard against long normal forms counts conjunctions only;
both are modelled as they are.  The FEnet mock takes its lock per bit while the
model executes a request at once; a FEnet PLC does the same.

Known limits of the models: `SafetyKernel!Acknowledge` waits until everything sent
is applied, which the stale answers of a MELSEC link break (`melsec_stale`), so the
theorems of the kernel are about tagged links.  `HalDriver!Send` fails like any other
request when the field PLC has closed the connection; `send()` at
`fenet_hal.cpp:239` is called without `MSG_NOSIGNAL`, and where the runtime does not
ignore `SIGPIPE` the process ends there instead.  `PlcLinks` does not close and reopen
connections.
