# A formal model of sim65-test

This directory specifies, model-checks and proves properties of the program in
this repository: `6502.c`, the 6502/6502X/65C02 simulator of cc65's sim65, its
memory and counter peripheral; `sim65-test`, the program that runs JSON test
cases through the simulator one instruction at a time; cJSON, the library that
reads them; and the scripts that run the test program for every processor and
make a page of the results.

* `PROJECT.json` lists components, runs, mutants, theorems, findings, hazards, and
  for every definition the source lines it stands for.
* Model-check a run: `tlc -config MCInsn.cfg MCInsn.tla`. Check the proofs of a
  module: `tlapm Cpu6502Proofs.tla`.

## 1. The system

| Component | State it keeps | Operations | Talks to |
|---|---|---|---|
| Arithmetic (`6502.c:410-1116`, macros) | none | ADC/SBC binary and decimal for NMOS and CMOS parts, compare, shifts, bit tests, undocumented combinations | called by the handlers |
| Opcode handlers and tables (`6502.c:1120-4685`) | `Regs`, `CPU`, static `Cycles` | 3 tables of 256 handlers | memory; `Error`, `Warning`, `ParaVirtHooks` |
| Interrupts and reset (`6502.c:4695-4780`) | `HaveIRQRequest`, `HaveNMIRequest` | `IRQRequest`, `NMIRequest`, `Reset`, `ExecuteInsn` | handlers, memory, event counters |
| Memory (`memory.c`) | `Mem`, 64 KiB | byte, word and zero-page word access | everybody |
| Counter peripheral (`peripherals.c`) | running counters, six latches, selection register | `PeripheralsWriteByte`, `PeripheralsReadByte`, `PeripheralsInit` | `ExecuteInsn` drives the running counters; the host's clock |
| Test case execution (`sim65-testcase.c`) | report flags | `execute_testcase`, and the replacements of `Error`, `Warning`, `ParaVirtHooks` | sets and reads the simulator's globals directly |
| Test driver (`sim65-test.c`) | argument loop, mode, flags, counts, the test case on the stack | `main`, files, arrays, test cases | cJSON, test case execution |
| JSON library (`cJSON.c`) | none of its own but `global_error`; trees of items in doubly linked lists, whose head points back to the last element; names that are constant or allocated; the printer's buffer | parse, create, add, insert, detach, replace, delete, duplicate, compare, print, minify | the test driver parses with it; the allocator, which may fail |
| Test scripts (`test_opcodes.py`, `make_testresult_dashboard.py`) | result files, the page | a pool of processes that run the test program; the page made from their files | test program, file system |
| Makefile, documentation | -- | -- | not modelled, section 8 |

The C programs run in one thread and all state is global: what one call leaves
behind the next call sees. Concurrency exists inside the simulated machine:
the host may request an interrupt or a reset between any two instructions, and
an interrupt handler runs between any two instructions of the program it
interrupts and shares the stack, the status register and the counter peripheral
with it. The scripts are concurrent: a pool of processes, each with a result file,
any of which may fail, and a script that may be killed and started again over the
files of the run before.

What is hard, and what correct means, by component:

* **Arithmetic.** Two decimal algorithms with intermediate sums from which
  different flags are taken, on operands that need not be decimal digits.
  Correct: agreement with arithmetic on signed, unsigned and packed decimal
  numbers wherever these are defined, and between the parts where they promise to
  agree.
* **Handlers.** 768 table slots filled by hand, boundary arithmetic on pages,
  addresses, stack pointer and PC, hardware oddities that are reproduced on purpose.
  Correct: agreement with the header tables and the test script's opcode lists,
  with the regular structure of the opcode map, and no write outside the
  cells an instruction is entitled to.
* **Interrupts.** Two one-place latches, priority, masking, two status bits that
  do not exist in hardware. Correct: an abstract contract of five variables,
  intact stack frames under nesting, and no unmasked request waiting for ever.
* **Counters.** Multi-byte values read a byte at a time while they run.
  Correct: no tearing, with a handler interfering.
* **Harness.** Globals that survive from one test case to the next, failures at
  every layer, options that take effect from left to right. Correct: each
  requested test case is reported once, in order, under the right options, its
  verdict depends on nothing that ran before, summaries add up, and the program
  ends.
* **JSON library.** A recursive parser whose offset steps back in two places, with an
  error path behind every allocation; lists in which each change mends three or
  four pointers that others rely on; ownership that hangs on two bits of a type; a
  printer in which each function says how much room it needs and some leave
  the offset to others; a minifier that writes into the text it reads. Correct: the
  parser accepts values and builds their tree, inside the text, with every block
  freed once whatever fails; changes to trees are changes to a forest; a copy is
  a copy and comparison is equality; what is printed fits and parses back.
* **Scripts.** Files outlive runs. Correct: a finished page shows the run that made it,
  and is not begun before every test of that run has succeeded.

The full list of hazards, each at its line and with the properties that would
notice, is under `hazards` in `PROJECT.json`.

## 2. The modules

```
Bytes ── Memory, Alu, Opcodes ── Cpu6502 ──┬── CpuProperties, AluProperties, CpuInterrupts ── MCInsn
                                           ├── CpuInterrupts, CpuStack ── MCInterrupts
                                           │      (CpuInterrupts: instances of Interrupts, Counters)
                                           └── TestHarness ── HarnessProperties ──┐
JsonTestcases ────────────────────────────────────────────────────────────────────┼── MCHarness
TestScripts, SupportedOpcodes ────────────────────────────────────────────────────┘
Interrupts (abstract)
Counters (abstract) ── Peripherals ── CounterProgram ── SharedLatches ── MCCounters

JsonText ──┐
JsonItems ─┼── JsonParser ── JsonProperties ── MCJsonParser
           └── JsonTree ── JsonCalls ── MCJsonCalls          (instance of JsonForest, abstract)
JsonPrinter, JsonMinify ── JsonRoundTrip ── MCJsonRoundTrip  (instance of JsonParser)

proofs: Cpu6502Proofs ── HarnessProofs
        ProofLemmas ── HarnessProofs, CounterProofs, ParserProofs, PrinterProofs, TestcaseProofs
        ScriptProofs
```

| Module | Models | Correspondence |
|---|---|---|
| `Bytes` | widths, halves, signs, status byte | The status register is the set of its bit numbers (`CF`, `ZF`, ...); `ToByte` and `Bits` convert where the code pushes and pulls it |
| `Memory` | `memory.c` | `Mem` is a function from the addresses that matter to bytes; a read elsewhere is 0, a write extends the function; addresses wrap |
| `Alu` | operation macros | One operator per macro, from register file and operand to register file (and result byte), flags included |
| `Opcodes` | the three dispatch tables | `Handlers[cpu][opcode]` is an operation and an addressing mode; the handlers are generated from these two by the same macros as in the code |
| `Cpu6502` | handlers, `ExecuteInsn`, `Reset`, `IRQRequest`, `NMIRequest` | Variables are the code's statics; one action per handler family; `Reported` are the calls to `Error` and `Warning`; `Counter` are the running counters modulo `CounterMod` |
| `Interrupts` | what the processor promises to whoever raises interrupts | abstract: two latches, a mask, two counts |
| `CpuInterrupts` | the refinement mapping, and liveness | latches are the request flags, the mask is bit I |
| `CpuStack` | `Cpu6502` with a history variable `frames`: the calls and interrupts that have not returned | the processor is unchanged |
| `Counters` | what the processor promises to whoever reads counters | abstract; `Cpu6502` is shown to implement it, `CounterProgram` runs against it |
| `Peripherals` | `peripherals.c` | parametric in bytes per counter and values per byte |
| `CounterProgram` | a reader, a handler, the processor's ticks | the reader and the handler are external programs that use the peripheral as `peripherals.h` describes |
| `TestHarness` | `sim65-test.c`, `sim65-testcase.c` | `phase` is the place in the control flow, `log` what is printed; `RunInsn` is `Cpu6502!ExecuteInsn`, the real processor |
| `SharedLatches` | handlers that latch too, and a reader that looks at the interrupt counters before and after | the same peripheral and processor as in `CounterProgram`; the programs are external. This way of reading is one that the peripheral allows, not one that `peripherals.h` prescribes |
| `JsonText` | numbers, strings, escapes, white space | operators on a text and an offset; the two passes of `parse_string` are functions of the offset |
| `JsonItems` | `cJSON` structures, `cJSON_New_Item`, `cJSON_Delete` | `mem` is what is allocated; addresses are reused like an allocator would; freeing or writing what is not allocated is recorded in `faults` |
| `JsonParser` | `cJSON_ParseWithLengthOpts`, `parse_value`, `parse_array`, `parse_object` | `frames` is the C stack; one action per way through a turn of a loop; every allocation may fail |
| `JsonTree` | add, insert, detach, replace, set text, duplicate, compare | operators from memory to memory, assignment by assignment in the order of the code |
| `JsonCalls` | the functions that create items, and a program that calls these and those of `JsonTree` | one action per kind of call, on any items the rules of `cJSON.h` allow; `program` is what it uses of cJSON |
| `JsonForest` | what these calls promise | abstract: each node has a sequence of children |
| `JsonPrinter` | `print_value` and below, `ensure`, `update_offset`, the three kinds of call | `print_value` is the list of pieces that the functions write, with what they ask for, and a recursive function over the trees (`Values`, each with its `Nesting`); the actions work the pieces off |
| `JsonRoundTrip` | printer, then parser, or first `cJSON_Minify` and then the parser | the text is handed over |
| `JsonMinify` | `cJSON_Minify` | one action for each turn of each loop |
| `JsonTestcases` | `parse_json_testcase` and below, `get_object_item` | items are records, those that the parser makes (`IsItem`); the structure is not initialised between test cases. What a test case means is defined at the end of the module, for documents of any form |
| `TestScripts` | both scripts | one action per step of a job and of `main`; `Kill` at any time |
| `SupportedOpcodes` | the opcode lists of `test_opcodes.py` | by row and column |
| `HarnessProperties`, `CpuProperties`, `AluProperties`, `JsonProperties` | properties | what the code is judged by. The references of the processor and of the harness are written from documents and bit fields and share with the model only how memory is read, and the sets of bits of a byte. The grammar of JSON texts in `JsonProperties` is independent for arrays, objects and white space; for the leaves (`IsString`, `IsNumber`) it asks `parse_string` and `parse_number`, which `StringsAreDecoded` and `NumbersAreTaken` judge against the pieces a literal is put together from |
| `ProofLemmas` | facts about sequences, induction and functions defined by recursion that several proofs cite | none of the code |

Definitions ending in `_Fault`, `_Early`, `_Stale` and `_Raw` are plausible bugs (a missing reset, a dropped
mask, an off-by-one); no specification uses them. Put in the place of the
definition they are named after, each makes the property it is paired with in
`PROJECT.json` fail.

### Abstractions

* `Mem` holds the cells that differ from 0. Starts give programs, vectors and data.
* Registers and memory after a parse failure are *undefined* in the code (an
  uninitialised structure is read). `TestHarness` chooses any state of
  `Leftovers` there.
* Characters are numbers; a name or text in `JsonTree` is a sequence of a byte or two.
  Numbers are exact decimals where the code has doubles, and the printer prints
  integers: what separates a double from a decimal (rounding, NaN, the locale's
  decimal point) is left out.
* An allocation in the parser and the printer fails or not, by choice. In
  `JsonCalls` a call is given memory for so many blocks.
* A file either can be processed (`DOMAIN Files`) or not; the ten ways to fail in
  `process_testcase_file` all return -1 and have the same effect.
* `ParaVirtHooks` does nothing in this program and is left out. (`README.md` of
  the repository says that it copies the address of the registers and that the
  memory functions verify addresses; the code does neither.)
* The reset vector and the jump `execute_testcase` writes before `Reset` are
  overwritten, with all of memory, before anything executes: `Prepare` is the
  net effect.
* The wall clock is an argument: any time of `Times`, or none.

The translation was also compared with the compiled code: from the 21,504 machines of
`MCInsn` and from 15,360 pseudo-random starts, the model and `6502.c`
agreed on registers, memory, cycles and reports after one instruction, and the compiled
`sim65-test` printed for files like those of `MCHarness` the verdicts the
model logs. `JsonParser` and the compiled cJSON agreed on 16,830 texts (accepted or
not, tree, end, place of the error), and the compiled cJSON shows what section 7
says of it.

## 3. What is checked

| Run | Question | Bounds, and why they are enough |
|---|---|---|
| `insn` | Is the arithmetic arithmetic, does each opcode do what its bits and the documents in the repository say, and is each call counted as what it was? | All 256 accumulators x 256 operands x both carries, decimal and binary: exhaustive. 256 opcodes x 3 parts x 7 situations x 4 status values, one instruction. The situations put an index on, before and after a page boundary, wrap addresses, PC and stack, place the instruction in the stack page, and branch both ways across pages; every place where a mode finds an operand holds a byte of its own, and no two flags agree in all status values, so that another mode, operation or flag shows. Requests and resets come before a `NOP`, at which all orders of NMI, IRQ, mask and reset are tried. `CounterMod = 16` is above every cycle count: a wrong one cannot wrap to the right one |
| `interrupts` | Does the processor implement the interrupt contract, do frames survive nesting, and is no IRQ starved? | Five programs (idle, masking, `BRK`, illegal opcode, and a call of a subroutine with `BRK` in it) on an NMOS part and the 65C02; no request while 2 returns are outstanding, which together with the programs' own call and `BRK` gives calls, interrupts in calls and NMIs in handlers; stack pointers next to the wrap; `CounterMod = 2`, the counts of the contract only being compared modulo the width |
| `counters` | Can a program read a torn counter, and what does it get when handlers latch too? | Two bytes of four values, clock steps 3 and 8 that carry between bytes and wrap; 3 events, enough for one before, during and after a read, and for handlers within handlers |
| `harness` | Three parts that touch each other only through what one prints or makes, so that a behaviour runs one of them (`Parts`). Is a command line worked off correctly, and are verdicts independent? Is the test case that runs the one that is written? Does the page show the run that made it? | Every line of three out of three options and three files, and five special lines; the files hold passing, failing, illegal, warning, unparseable and repeated test cases. Two documents in a row, one of them with one thing missing, misspelt, out of range or of another type, in every place. Three jobs on two processes, two starts, a kill or failure at any step |
| `json_parser` | Does the parser accept exactly the values, mean by them what they say, and give back what it took? | All texts of five out of eleven pieces, and every text one edit away from seven documents; string literals of four out of eleven pieces, also cut off, and pairs of `\u` escapes on both sides of every boundary of UTF-16 and UTF-8; numbers of five characters at `IntMax` 1111 and a buffer of five, where cutting and saturating happen; nesting limit 2 under texts that nest deeper; each allocation may fail |
| `json_print` | Does what is printed fit, parse back, and survive Minify? | Every kind of piece alone, beside and in another, for all calls; buffers of every size from 1 to beyond the longest text (`DefaultSize` 8 stands for 256); `IntMax` 40, so that the largest buffers reach it; every kind of byte in texts and names, two levels of two children, both formats. For Minify also texts of three out of twelve pieces that look like each other, and an end that may be cut off |
| `json_trees` | Are changes of lists changes of a forest, who owns names, texts and children, and is comparison equality? | Five programs: five arrays, a list with a middle on both sides of which something can go; three objects with two names that differ in case; a reference to a member; texts, numbers and references that are copied with memory for any part of the copy (`CircularLimit` 2); all pairs of 98 trees to compare |
| `harness_illegal`, `harness_malformed`, `json_minify_escapes`, `insn_arr`, `json_hex_escapes` | Statements of the repository that do not hold, section 7 | those of the passing run of the same module; `json_minify_escapes` also minifies the text of a string that ends in a backslash, which `json_print` only prints and parses (`EscapedBackslash`) |

Deadlock is checked in every passing run but `harness`, where the program ends, the
documents are parsed, or the scripts have used up their starts. Where a call
returns (`MCInsn`, parser, printer, Minify) the model stutters explicitly.

`json_trees` has a `VIEW`: a state is what the next call depends on (`heap`), not which
call led to it. What the properties say of a call is said of the step, and TLC
checks every step from every state of the heap, so that nothing is lost by it.

Properties worth knowing:

* `RefinesInterrupts`: every step of the processor is a step of the abstract contract, or
  invisible to it. `RefinesCounters` says that of the contract that readers of the counters
  rely on, and which step counts what: a call of `ExecuteInsn` counts an NMI, an IRQ or an
  instruction, by what was pending when it began, and the cycles it returns; a
  request or a reset counts nothing.
* `IrqIsTaken`: if NMIs eventually stop, no IRQ waits for ever, in programs whose handlers
  return and that unmask what they mask.
* `FramesHold`: the frames of outstanding calls and interrupts are intact in page one,
  `RTI`/`RTS` come back to where they were left, with the stack pointer and (for `RTI`)
  the status register of then.
* `NoTearing`, `WallClocksAgree`: every byte of every counter read belongs to the instant
  of the latch; both views of the clock name the same time, and "no time" cannot be
  mistaken for one. `BytesOfLatches`: a reader that finds both interrupt counters as they
  were has bytes of one instant, whatever handlers latched; without looking it still has
  bytes of its register in the order of time.
* `ReportsWhatWasRequested` compares the log with what the command line asks for,
  computed from the line alone, summaries included. `VerdictIsLocal` compares the verdicts
  on equal test cases at different places and under different flags.
* `ParserDecides` compares the parser with a grammar of whole texts, and has a measure
  (`Advances`): with the deadlock check it shows that parsing ends. `TreeIsText` compares
  the tree with the text it came from, `ListsAreLinked` in it says that its lists are linked
  both ways; `StringsAreDecoded` and `NumbersAreTaken` the values of leaves
  with what their pieces mean. `NothingLeaks` and `OffsetsStayInside` hold for every
  combination of failures; a part of the latter, `StringsFit`, has every string of a text,
  wherever a quote is taken for its first, decoded into the block counted out for it.
* `EditsAForest`: each call is one change of one sequence of children, as in
  `JsonForest`. `BlocksHaveOneOwner`: lists are linked in both directions, and deleting
  all trees leaves nothing and frees nothing twice. `FailedCallsChangeNothing`: with two
  exceptions that the code has: a failed `ReplaceItemInObject` has taken the
  replacement's name, and `cJSON_AddItemReferenceToObject` loses the reference it made when
  there is no memory for its name (`cJSON.c:2105`; history variable `lost`). `BlocksHaveOneOwner`
  counts lost references as owned; that nothing else is ever lost is said by
  `FailedCallsChangeNothing`, of which such a call may add exactly one unnamed reference and
  change nothing else.
* `CompareIsEquality`: trees without repeated names compare equal exactly if they stand for
  the same value; for repeated names see section 7. The trees it is checked on hold no
  numbers: numbers are compared by `compare_double`, and doubles are left out.
* `PrintsAllOrFails`: a text is complete and the only block left, a failure leaves none,
  and nothing fails for which there is room. `cJSON_PrintPreallocated` needs one byte
  more than text and terminator (`cJSON.h` advises five).
* `ParsesBack`, `MinifiedIsDense`, `WritesBehindReads`: the tree comes back, minified or
  not, and Minify removes what it should, in place. No string that ends in a backslash is
  minified in `json_print`: with one the tree may not come back, which is what
  `json_minify_escapes` shows of the same property. A slash that begins no comment is
  removed as well, as the code does.
* `AsTheHarnessAssumes`: what `TestHarness` takes for granted of parsing, stated of the
  code that parses; `MemoryIsNotMixed` bounds what a malformed test case may inherit.
* `DashboardShowsThisRun`, `EndsForAReason`, `PageWaitsForTests`: files of earlier runs
  never show, and a run ends, in failure only if something failed.
  `TestsWhatIsImplemented` ties the script's lists to the dispatch tables.
* Single instructions are judged by what they do. `DispatchTables`: the opcode is taken
  apart into its three fields `aaabbbcc`, which say where the operand is (`Operand`) and
  what happens to it (`Regular`, `Combined`), and what has no such pattern has a line of its
  own (`Single`, `NmosOnly`, `CmosOnly`); registers an opcode is not about stay
  (`Untouched`). An operation or mode in the slot of another shows there.
  `PageBoundaries`: branches, `BRA`, `BBR` and `BBS` go where the tested flag or bit sends
  them and cost accordingly; indexed reads pay for leaving the page, writes do
  not. `UndocumentedOpcodes`: cycles and flags against the header of `6502.c`, the flags
  of ARR excepted, whose row the code contradicts (section 7, `FlagsAsDocumented`).
  `StackWrites`: what may be written at all.

## 4. Fairness

* `interrupts`: `WF_stackVars(StackExecuteInsn)`, which is `ExecuteInsn` with its history.
  The host of a simulator calls `ExecuteInsn` in a loop; it is enabled in every state.
  Requests are not fair: they may never come. NMIs may come for ever, hence the premise
  `<>[]~HaveNMIRequest`.
* `harness`: `WF` of the step of the test program, one thread with no blocking call the model
  knows of, and `WF` of `ScriptStep`: jobs are processes that end, and `main` waits for the
  pool; `Kill` and `Start` are not fair. `EndsForAReason` says that a run ends, also when
  jobs fail and there are fewer processes than jobs. The parser of documents needs no
  fairness, as nothing is said of its end.
* No other run has liveness properties: the parser ends by a measure, without fairness.

## 5. What is proved

All theorems hold for every value of the constants under the assumptions named in
the modules: `StartsAssumption` (starts are well-formed machines with bits 4 and
5 of the status register set), `CounterModAssumption` (a counter has at least one
value), `WidthAssumption` (a counter is some number of bytes, and nanoseconds fit
in half of it), `TimesAssumption`, `ProgramAssumption`, `FilesAssumption`,
`LeftoversAssumption`, `CommandLinesAssumption` (well-formed inputs), `DocumentsAssumption`
(documents are what the parser makes: members of objects have names and nothing else
has), `GarbageAssumption` (an uninitialised structure has the fields of the structure),
`PowersAssumption` (what powers are, for as many places as a counter has: the prover
knows nothing of `^`, and TLC evaluates it), `SharingAssumption` (fewer events than an
interrupt counter's low byte has values, or the counter would look unchanged),
`CharAssumption` (characters are natural numbers, and for Minify not zero),
`ValuesAssumption` (what is printed are trees of some depth each, without raw items,
with texts that are C strings), `SizesAssumption` (buffers have at least one byte),
`NestingLimitAssumption`, `NumberBufferAssumption` (limits are positive),
`ScriptAssumption` (there is some number of jobs).

| Theorem | Says |
|---|---|
| `Cpu6502Proofs!TypeCorrect` | For every program and memory image, registers stay bytes with bits 4 and 5 of the status register one, PC an address, memory bytes, cycles at most eight |
| `Cpu6502Proofs!StatusBits` | Bits 4 and 5 of the status register are always one |
| `Cpu6502Proofs!InterruptContract` | `Cpu6502` implements `Interrupts` |
| `Cpu6502Proofs!CountersContract` | `Cpu6502` implements `Counters`; each call counts the one event that it was and the cycles it returns, and nothing else counts |
| `Cpu6502Proofs!BinaryArithmeticIsExact` | Binary ADC, SBC and CMP agree, flags included, with unsigned and signed numbers, for every accumulator, operand and carry |
| `Cpu6502Proofs!DecimalArithmeticIsExact` | Decimal ADC and SBC of both kinds of parts agree with packed decimal numbers, and differ on other operands exactly as they are known to |
| `Cpu6502Proofs!TablesAreComplete` | Each table has a handler for exactly the opcodes that the tests call supported; each has the length that its opcode's column asks for, and does to registers and memory what the bits of its opcode, or the opcode's own line, ask for, whatever the operands |
| `Cpu6502Proofs!BoundariesOfPages` | A branch goes where its condition sends it and pays for going and for leaving the page, indexed reads pay for leaving it and writes do not, and an NMOS indirect jump warns exactly when it splits its pointer |
| `Cpu6502Proofs!WritesOfInstructions` | What pushes changes only the cells it pushes, wrapping included, anything else one cell at most, and JSR reads its operand around its pushes |
| `Cpu6502Proofs!UndocumentedAsDescribed` | Every undocumented opcode takes the cycles, and every one but ARR changes only the flags, that its row in the header of `6502.c` lists, for every operand and address |
| `Cpu6502Proofs!EffectsAreDetermined` | Registers, memory, reports and, unless the opcode is illegal, cycles after an instruction are a function of processor model, registers and memory before it |
| `CounterProofs!ReadsAreAtomic` | No byte a program reads is torn, for counters of any width |
| `CounterProofs!SelectionIsRestored` | The handler is invisible to the reader's selection |
| `CounterProofs!CheckedReadsAreWhole` | A reader that finds both interrupt counters as they were has bytes of one instant, whatever handlers latched |
| `CounterProofs!ClocksAreOneTime` | Both views of the wall clock name one time, and no time is mistaken for one, for counters of any width |
| `HarnessProofs!HarnessTypeCorrect` | Instructions run on well-formed machines of the requested model only, for all command lines and file contents |
| `HarnessProofs!ReportsAreComplete` | What is printed is what the command line asks for: every file and test case once, in order, under the options of its place, with summaries that add up |
| `HarnessProofs!VerdictsAreLocal` | Equal test cases get equal verdicts under equal flags, wherever they stand and whatever ran before |
| `TestcaseProofs!TestcaseIsTheOneWritten` | Exactly the well-formed test cases are accepted, and a machine state without an error means what the document says |
| `TestcaseProofs!MemoriesAreNotMixed` | No memory holds bytes of two test cases, or bytes of this one under registers of another |
| `ParserProofs!ParserStaysInside` | For every text, the parser looks for names only inside the text, an error is reported at one of its characters, and a decoded string fits in its block |
| `ParserProofs!DepthIsLimited` | For every text and limit, calls nest no deeper than the limit, and `depth` counts them |
| `ParserProofs!EverythingIsFreed` | Whatever the text, the error and the allocations that fail, a failed parse gives back all it allocated, each block once, and after success `cJSON_Delete` of the root does |
| `ParserProofs!ParsedListsAreLinked` | The lists of a parsed tree are linked both ways, whatever the text: along `next` from the child, `prev` leads back, and that of the first is the last |
| `ParserProofs!ParsingAdvances` | Each step of a parse brings the offset on, goes from a value to the element behind it or, after a failure, takes a call off the stack, whatever the text |
| `PrinterProofs!PrintingStaysInside` | For every tree, buffer and pattern of failing allocations, the printer writes only bytes of its buffer, and `update_offset` finds its terminator there |
| `PrinterProofs!PrintsAllOrNothing` | Whoever prints gets all of the text, in the only block that is left, or fails for want of memory, of room in its own buffer or of a size that `INT_MAX` allows, and no block is left |
| `PrinterProofs!MinifyStaysInside` | For every text, `cJSON_Minify` stays inside it and behind what it reads |
| `ScriptProofs!DashboardIsCurrent` | For any number of jobs, processes, opcodes and starts, a finished page shows the run that made it |
| `ScriptProofs!FailureKeepsPage` | No page is touched before every test of the run has succeeded |

The arguments:

* **Processor.** `IInv == TypeOK /\ SrHighBits` is inductive, and is `StateOK`. The two have to go
  together: `SrHighBits` is preserved by a handler only if registers are
  registers, and an interrupt's pushed status is a byte only if the status register
  is one. Every operation maps a register file to a register file with bits 4 and 5
  still set (`ALUSound`, `RMWSound`, one lemma per family); on top of that there is one
  lemma per handler family (`..Sound`) and one case per action (`NextInv`).
* **Single instructions.** The four properties are about a step, and follow from `IInv`
  and one argument about the tables. `Coverage` says for which opcodes the rows of the
  tables have an entry, and `Placement`, row by row, that each entry is where the
  opcode's digits want it (`InPlace`: its length; `Decoded`: operation and mode by the
  fields of the opcode); `SlotOfOpcode` concludes what is in the slot of any
  opcode. What remains is said per handler and not per opcode: its length
  (`HandlerLength`), its writes (`OneWrite`, `PushedCells`), its reports
  (`HandlerReports`), its cycles at a page boundary (`ReadsPay`), cycles and flags
  (`UndocumentedCycles`, and `DeltaChain` for flags that several operations change in
  turn). `OperandAt` shows that the fields and the addressing modes mean the same place;
  from there the lemmas of the families (`AluRuns`, `RmwRuns`, `StoRuns`, `GroupOneHolds`,
  `CombinedHolds`, `TestsBits`, ...) say what is found in registers and memory
  afterwards, and `InsnRegular`, `InsnSingle`, `InsnNmosOnly`, `InsnCmosOnly` put them
  together. `HandlerSpares` says which registers an operation leaves alone, for `Untouched`.
* **Arithmetic.** The code works on nibbles, with intermediate sums from which different
  flags come. The proofs do the same: `DecimalSumOfDigits` adds two digits at a time, and
  subtraction goes through the record `Difference`, which names the two digits before
  and after the corrections of both kinds of parts, so that what the parts have in common is
  proved once. Operands are not enumerated. The theorems hold of `BinaryNumbers` and
  `DecimalNumbers`, that is, of every state; the guard `Adding` of the properties
  only keeps TLC from trying 256 operands in every state.
* **Determinism.** A handler is an action, and that two handlers do not both apply, and
  that nothing else matters, is not visible in it. `Effect(c, r, m)` gives the
  outcome of an instruction as a function, with `At(c, r, m)`, a parameterised instance of
  the processor, in which every operator is evaluated where `c`, `r` and `m` are processor
  model, registers and memory. `HandlerEffect` shows that every handler has this effect and no
  other. Illegal opcodes leave `Cycles` as it was (section 7), hence the exception.
* **Contracts.** Both refinements use `IInv` as the invariant of the concrete side. A
  step of the processor maps to the contract's step of the same name, by cases on
  handler families; a handler does not mention the request latches, and
  `Count` is the only writer of `Counter`. `CallCounts` says what a call counts.
* **Reader.** `NoTearing` speaks of bytes already collected and is not inductive: it needs
  that the latches still hold the counters of the instant (`LatchesHold`), and
  that the selection register, or the handler that borrowed it, holds what the program
  selected (`SelectionHeld`). `ProgramInv` is their conjunction with the types.
  `CountersContract` and `ReadsAreAtomic` together cover reader, peripheral and
  processor: the reader is proved against more than the processor can do.
* **Latching handlers.** `SharedInv` says where each byte comes from: for each access of the
  reader there was a last latch (`LooksKept`, `OrderKept`), and a handler that has latched
  since was counted, so that two equal looks at the counters are of one latch
  (`EqualLooksAreOne`). Handlers nest to any depth: the invariant speaks of the
  sequence of those in progress, each of which will restore the selection of the next.
* **Clocks.** A number read byte by byte is the one number whose bytes these are
  (`BytesDetermine`), so the sum over bytes in the property need not be followed by
  induction. Seconds and nanoseconds are the halves of one number (`PowersAdd`,
  `HalvesFit`), and `TimesFit` keeps every time apart from all ones.
* **Harness.** `HarnessInv` adds to `HarnessTypeOK` where the program is when it has a
  file, and that a test case in progress has been counted but not yet found
  deviating. The processor's step is taken from `IInv`, by lemma `ExecutionIsSound`.
* **Reports.** What is requested is a concatenation over the arguments of the line, as a
  function defined by recursion. That there is such a function has to be shown
  (`ConcatenationExists`), and where its parts lie (`PartsOfConcatenation`,
  `Schedule`). `ReportInv` says that the log is the request up to the place where the
  program is: whole files before the current one, and of that one the test cases judged so
  far, with a count of deviations that is theirs. The options of a place are those to
  its left (`OneMoreOption`).
* **Verdicts.** `Deserves` is the verdict of a test case as a function of the case, the
  model and the flags, from `EffectOn`, the determined effect of one instruction on the
  prepared machine. `VerdictInv` says that everything logged is what it deserves; then two
  verdicts on equal cases agree, and a flag that is off only takes its deviation away
  (`FlagsSelect`).
* **Test cases.** What the loop over assignments leaves is the last write to each address
  (`AssignedIsAfter`), the same as the byte the document means (`AfterIsByteAt`); the fields
  in front of the first bad one are all of them only if none is bad (`PassingIsPrefix`).
  `MachineStateIsParsed` puts the two together; `TestcaseInv` says that the structure is
  what `parse_json_testcase` made of the structure before it. `Lookup` is where it is used
  that members of objects have names: `get_object_item` stops at the first element without.
* **Parser.** `ParserInv` says that the offset is inside the text or right behind it
  (`Inside`), in front of a character where an element is about to be read
  (`AtElement`, which is what makes stepping over it safe), and that `depth` is the number
  of frames until something fails (`Calls`). That the leaves stay inside takes
  induction over the text. The library's induction theorems cannot be instantiated here,
  but `WFMin`, which has no operator parameter, gives a least element of any set of
  numbers (`Least`), and that gives induction over sets (`Induction`). With it
  `PastAllInside` finds the end of a run of characters, and `ScanExists`,
  `ScanInside`, `DecodeExists` and `DecodeInside` show that both passes of `parse_string`
  are well-defined functions and where they stop. `DecodeFits` relates the two. The first
  counts one escape for every two characters it jumps over, the second takes 1, 2, 6 or 12
  at a time, so that it may land in the middle of what the first took for an escape, for
  example behind a `\u` whose four characters are no digits, or at the quote that ends the
  string. `Passes` therefore
  allows the count to be one character out of step, and `HasRoom` says that for either
  count there is room for what is decoded from here on (`RoomForChar`): six characters
  are at most three escapes for the first pass and give at most three bytes in the second.
  Of each step, finally, `AdvancesStep` says that it brings the offset on (or
  is followed by one that does) or, once something has failed, takes a call off the stack. With `Inside` that makes finitely
  many steps; that there is always a next one until the parse has ended is left to the
  deadlock check of the run.
* **Lists of the parser.** The tree under construction is not well linked: an item that is
  being filled has no `child` yet, and the `prev` of a first element is set only when
  its list is closed. `Linked` therefore has a function that says where the list of each
  item ends, and that a call in progress knows head and last of a list that is the
  list of no item yet and shares elements with none. Joining an element to it (`LinkedOnJoin`) and
  closing it (`LinkedOnClose`) keep this. `ListFrom`, which walks along `next`, is recursive;
  as `next` leads to items allocated later, `FixedPointExists` gives the function
  (`ListingExists`), and it reaches that last element (`ListsToTheEnd`).
* **Memory of the parser.** A failure in the middle of a text leaves a list in every call
  in progress, each with finished trees in it, and they are given back one call at a time.
  `NothingLeaks` only speaks of the end; `LeakInv` says how the blocks hang together on
  the way. Items are numbered in the order they were allocated in and links go up in it
  (`Chained`), every string belongs to one item (`Owned`), each call's list ends with its
  `current` and lies behind the lists of the calls around it (`Filling`), and all items but
  the root are linked to exactly once, but for the heads of those lists, which nothing
  links to yet (`Reached`). So what `cJSON_Delete` visits from a head is what lies
  behind it in that order, each item once (`DoomedIsTheRest`), and giving up the last list leaves the
  same situation with a call less (`ListDeleted`). `Doomed` is a recursive function over
  items; as links go up, there is one (`DeletionExists`), by induction from the last item
  down. TLC checked `LeakInv` before it was proved.
* **Printer.** What `print_value` makes is a chain (`Chain`): each piece asks for what it writes,
  and where the offset stays in front of a text, so that `update_offset` has to look for
  its end, a terminator has been written (`Follow`); the whole of it ends in
  a terminator (`Complete`). That is shown for each function under `print_value`, given
  that it holds of what those in the container print (`StepIsComplete`), and so of all trees
  by induction over their nesting. A recursion over trees is a function only if one can show
  that there is one: `FixedPointExists` does, for any recursion that looks only at what
  has a lower rank, from functions that are right up to some rank and agree with each
  other. `PrinterInv` then says that with k steps done the offset is behind their text, or
  behind that of the step before if an `update_offset` is due (`OffsetAt`), that the buffer has
  this text and, where a step has ended one, a terminator and no other in front of it
  (`Holds`), and that a call which has failed had a reason to (`HasReason`). The text of the
  first k steps is a concatenation, with the lemmas of **Reports**. TLC checked `PrinterInv`
  before it was proved.
* **Minify.** `MinifyInv` is `WritesBehindReads` and types: what is not read yet is as it
  was, so a character that is not the terminator has another one behind it, and
  looking one ahead, or copying two, is safe (`TextGoesOn`).
* **Scripts.** `ScriptInv`: a file is that of this run once its job has written it
  (`FilesHold`), and the page consists of the tables of such files (`PageHolds`).

## 6. What is only model-checked

* Liveness (`IrqIsTaken`, `Termination`, `EndsForAReason`): fairness and
  `ENABLED` are beyond the proof system.
* `FramesHold`: it holds for programs that keep to stack discipline, which those of
  `MCInterrupts` do; it is not true of every program.
* `TestsWhatIsImplemented`: a statement without variables, which TLC evaluates
  completely. (`TablesAreComplete` proves what it says of the processor.)
* Trees being edited (`EditsAForest`, `BlocksHaveOneOwner`, `CompareIsEquality`), what
  parser and printer do to each other's texts (`ParsesBack`, `MinifiedIsDense`) and the
  grammar of texts and what they mean (the rest of `ParserDecides`, `TreeIsText`,
  `StringsAreDecoded`, `NumbersAreTaken`; what is proved of the first two is `Advances` and
  `ListsAreLinked`): their definitions are recursive operators, which cannot be used where
  there are proofs, and what they say is an induction over trees.

## 7. Where the code and its documents disagree

| Run | Disagreement |
|---|---|
| `harness_illegal` | `OPC_Illegal` does not assign `Cycles`: the cycles of an illegal opcode are those of the instruction before it, so its test case passes or fails depending on the order (`6502.h:101`) |
| `harness_malformed` | `parse_json_testcase` drops the results of parsing `initial` and `final`: a test case without them is run on an uninitialised structure |
| `json_minify_escapes` | `minify_string` takes the quote behind an escaped backslash for an escaped quote, and reads on past the end of the string: the blank in the second string of `["\\", "a b"]` is gone, and the text no longer parses back to its tree (`cJSON.c:2874`, against `cJSON.h:263`) |
| `insn_arr` | ARR sets and clears V, in binary and in decimal mode (as the chip does); its row in the header of `6502.c` marks only N, Z and C (`6502.c:246`) |
| `json_hex_escapes` | `parse_hex4` returns 0 for something that is no hexadecimal number, and so `\u` with any four characters is accepted as U+0000; its comment at the return says `invalid` (`cJSON.c:656`), and that of its caller "check that the code is valid" (`cJSON.c:690`) |

Others the model reproduces, without a run of their own:

* The messages for X and Y print the expected accumulator, that for PC the expected stack
  pointer (`sim65-testcase.c:131`). The messages are left out of the model.
* An object with a name twice is unequal to its own copy: `cJSON_Compare` looks members up
  by name (`cJSON.c:3119`, against `cJSON.h:256` and `:259`).

Two oddities that are not disagreements: the header comment gives `$EF` as the ANE
constant and the code uses `$EE`, with a comment at the macro that explains it; and the
cycle count of ARR has a 65C02 branch that no table reaches.

## 8. What is not modelled

* `cJSON.c`: raw items, `cJSON_CreateStringReference`, `cJSON_SetNumberHelper`,
  `cJSON_InitHooks`, the predicates that only look at a type, and doubles that are not
  integers. A printer that starts with a buffer of size 0 (a guess of 0 in
  `cJSON_PrintBuffered`) and hooks without `realloc` copies one byte of an empty
  block; the model's buffers have at least one byte.
* The layout of the page that `make_testresult_dashboard.py` writes, and the lines of text
  it finds summaries in: a summary is what it says. A test case that cannot be parsed
  counts in a summary's total and not as a deviation, in the model as in the code.
* The Makefile and the documents, which have no behaviour of their own.
* `MemInit`: called by nothing here. The mapping of the peripheral into memory: this
  repository's `memory.c` has none, so a program that reads counters is
  modelled next to the processor and not on it.
* Text: formatting, wording, the test case's name.

## 9. Plan

Done, in this order: arithmetic, memory and handlers (`Bytes` to `Cpu6502`), single
instructions (`CpuProperties`), interrupts and their contract, stack history, counters,
harness; type correctness, status bits, both contracts, atomic reads and harness
types proved; then the JSON parser, test cases, trees and their contract, printer,
Minify, shared latches and scripts; parser, Minify and scripts proved; then the runs about
one component joined, and Minify put between printer and parser; then the remaining
properties of instructions, arithmetic, counters, harness and test cases proved, the effect
of every supported opcode among them, that the
parser gives back what it allocates, links its lists and gets on, and that the printer stays in its buffer and prints
all or nothing.

Next:

1. Extend. Self-modifying programs and indirect jumps in `MCInterrupts`; a 6502X and 65C02
   instruction set comparison (where two parts' tables agree, their effects agree);
   raw items and string references in `JsonTree`.
2. Prove. `ParsesBack`, with the parser's grammar as a recursive function by the means of
   `FixedPointExists`; `FramesHold` under a stated discipline (what an instruction of the
   program may write, and that it returns only what it called); that the tree stands for
   the text, along the invariant of `EverythingIsFreed`; that the harness reads of a
   test case what `JsonTestcases` makes of its document, by composing the two.
