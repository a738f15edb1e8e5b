# Fire, specified

A TLA+ specification of the Fire compiler and virtual machine: the analyzer, the
code generator, the bytecode machine and the native backend are modelled from their
source, and checked by TLC on families of small programs. That the machine keeps its
types, its bounds and its calling convention is proved with TLAPS for every program.
The lexer, the parser's error recovery, the interactive session and the builtins on
text and input are modelled as machines of their own, with theorems of their own.

## The system

Fire compiles a statically typed scripting language to bytecode and runs it.

| Component | Source | State it keeps | Operations |
|---|---|---|---|
| SourceFile, DiagnosticEngine | `source.cpp`, `diagnostics.cpp` | line table; reported diagnostics and their count | locate, report, render |
| Lexer | `lexer.cpp`, `token.cpp` | position, tokens | tokenize |
| Parser | `parser.cpp` | position, panic flag | parse_program, synchronize |
| Syntax tree, types | `ast.hpp`, `type.cpp` | nodes; interned types | — |
| Analyzer | `sema.cpp`, `natives.cpp` | scopes, function table, function context, slot counters | analyze, analyze_fragment |
| CodeGenerator | `codegen.cpp` | current chunk, open loops | generate |
| Chunk, Module | `chunk.cpp` | bytes, constants, spans | write, patch, add_constant |
| VM | `vm.cpp`, `natives_runtime.cpp`, `value.cpp` | operand stack, frames, globals, heap of shared arrays | run (one loop over opcodes), call_function, call_native |
| REPL | `repl.cpp` | a session: types, analyzer, globals, past declarations | evaluate a line |
| x86-64 backend | `backend_x86_64.cpp` | assembly text | emit for a subset |
| Disassembler | `disasm.cpp` | — | list a module |
| Driver, CLI | `driver.cpp`, `main.cpp` | one Compilation | analyze, compile, run |

The stages call each other in one direction, each handing the next a structure
(tokens, tree, annotated tree, module); nothing runs concurrently, nothing is
persisted, and no messages are exchanged. What is hard here is agreement between
stages that never check each other. The analyzer chooses slots and lets types
through; the generator trusts both and patches jumps; the machine executes
without bounds checks and trusts every operand. A mistake in one shows in
another, often many instructions later, and only for programs that combine
constructs: a `continue` in a nested loop, a scope that ends while a hidden slot
is live, a global read by a function before its `let`.

What makes each component correct:

* **Analyzer** — what it accepts meets no unexpected tag at run time; a function
  it accepts never falls off its end; code it calls unreachable never runs; two
  live variables never share a slot.
* **CodeGenerator** — the code does what the program means; every expression
  leaves one value, every statement none; every jump lands on an instruction.
* **VM** — it reads nothing out of bounds, executes no instruction but those that were
  generated, keeps callers' frames intact, limits the depth of calls, and ends in one of
  four ways with the exit status of each; a failure is reported where it happened.
* **Builtins, values** — aliasing, equality and wrap-around arithmetic; text is cut,
  put together, converted and read as the reference says, at every boundary.
* **Lexer** — tokens are the longest the grammar has, in the order of the text;
  nothing but trivia is dropped without a report; errors are capped.
* **SourceFile, DiagnosticEngine** — a caret stands under what the span covers.
* **REPL** — what accepted lines declared survives lines that are rejected or fail.
* **Parser** — it accepts the grammar; recovery ends and hides no mistake.
* **Backend** — for what it accepts, the executable writes what the VM writes and
  ends as it ends; frames and operands share the machine's stack without overlap.

## Modules

| Module | Models | Notes |
|---|---|---|
| `FireValues` | `value.cpp`, arithmetic of `vm.cpp` | tagged values, a heap of arrays |
| `FireNatives` | `natives_runtime.cpp`, arities of `natives.cpp` | a call is a set of outcomes |
| `FireBytecode` | `chunk.hpp`, `chunk.cpp` | instructions, what each needs and leaves, certificates of stack discipline |
| `FireVM` | `vm.cpp` | the machine: one action per opcode or group of opcodes |
| `FireFrames` | the calling convention of `vm.cpp` | abstract: frames and the depth of the stack, no values |
| `FireRefinement` | — | `FireVM` implements `FireFrames` |
| `FireFramesProofs` | — | theorems about `FireFrames` |
| `FireVMProofs` | — | theorems about `FireVM`; what a builtin returns is a value |
| `FireSyntax` | `ast.hpp`, `type.hpp` | trees as records |
| `FireSema` | `sema.cpp`, `natives.cpp` | the analyzer as operators threading its state |
| `FireCodegen` | `codegen.cpp` | the generator, likewise |
| `FireChunk` | `chunk.cpp`, how `disasm.cpp` goes through it | the bytes of instructions; the table of spans |
| `FireListing` | `VM::report` | the machine beside its bytes |
| `FireChunkProofs` | — | theorems about `FireChunk` and `FireListing` |
| `FireCompile` | `driver.cpp` | analysis, then code for what is accepted; and the meanings and warnings that the pipeline is held against |
| `FireReference` | — | what a program means, by direct evaluation of its tree |
| `FirePipeline` | the three stages together | the machine running compiled programs, held against promises and meaning |
| `FireBackend` | `backend_x86_64.cpp` | the emitter, likewise; its output is a sequence of instructions |
| `FireX86` | the runtime it emits; nasm, the CPU and the kernel (external) | one action per group of instructions |
| `FireLexer` | `lexer.cpp`, the keywords of `token.cpp` | one action per turn of a loop |
| `FireSource` | `source.cpp`, the measuring half of `diagnostics.cpp` | lines, columns and carets |
| `FireLexicon` | — | the tokens of `docs/grammar.md`, for the lexer to be held against |
| `FireLexerProofs` | — | theorems about `FireLexer` |
| `FireText` | `natives_runtime.cpp`: text, conversion, random numbers, input | a sequence of calls, one step per turn of a loop |
| `FireTextProofs` | — | theorems about `FireText` |
| `FireParser` | `parser.cpp` | its call stack as a sequence of goals; panic-mode recovery |
| `FireParserProofs` | — | theorems about `FireParser` |
| `FireGrammar` | — | the language of `docs/grammar.md`, for the parser to be held against |
| `FireFront` | `driver.cpp` (`Compilation::analyze`) | lexer and parser composed, with one engine of diagnostics; what the documents say of both |
| `FireRepl` | `repl.cpp`, what of `sema.cpp` and `vm.cpp` outlives a line | a session, one line per step |
| `FireReplProofs` | — | theorems about `FireRepl` |
| `FireFlow` | the builtins that never return (`natives.cpp`); what `sema.cpp` promises of code | the flow of compiled code: where control can be and what it has stored in by then, and what is promised of it |
| `FireFlowProofs` | — | theorems about code with such a flow |
| `FireCertify` | — | finds certificates and flows of compiled code |
| `MCPrograms` | — | the families of programs |
| `MCNativePrograms` | — | the families of programs for the backend |
| `MC*` | — | the other modules of runs: the values of constants |

TLC evaluates the constants module by module, in the order of `EXTENDS`: a module
of a run extends the families first and the specification last, so that each
program is compiled, and each file derived, once and not at every use.

### How the state corresponds to the code

`FireVM`: `stack` is `m_stack`, `frames` is `m_frames` (function, next
instruction, base), `globals` is `m_globals`; `heap` holds the vectors behind the
`shared_ptr`s of array values, so that an array value is a reference; `out` is
what was printed; `status` and `exit_status` say how `run()` ended. An address is
the position of an instruction where the code has a byte offset; `FireChunk` has
the offsets and the bytes of the same code, and `FireListing` compares them. The two
exceptions that leave `execute()` and the halt are one step each; a program that
`std::bad_variant_access` ends has status `"internal"`. A machine that would read
past the end of a vector takes no step at all: TLC would report the deadlock, and
`NeverOutOfBounds` states it.

`FireParser`: `at` is `m_index`, `goals` is the C++ call stack, with what each
call has still to do; `Fail` is `fail`, the unwinding to a `catch` and
`synchronize`. `errors` is the error count of the diagnostics, with positions.

`FireRepl`: `scope`, `table` and `global_count` are the analyzer's members that
outlive a line, `functions` and `globals` those of the session's module and
machine, `history` is `m_history`. A line is one step, `Reject`, `Accept` or
`Crash` (what follows from a pointer to a freed tree); the analysis and the run of
a line are recursive functions over its statements (`Analysis`, `Execution`).

`FireSema` and `FireCodegen` are passes without interleaving, so they are
operators: a record carries the analyzer's (generator's) members through the walk
in the order of the code. Both use `RECURSIVE` operators, which keeps them out of
modules with theorems; what the proofs need of their output is an assumption on
`Modules` (`ModuleAssumption`, `CodeVerified`) that TLC evaluates on everything
they compile in the runs.

`FireBackend` is a walk of the same kind, over the same annotated tree. `FireX86`
runs what it emits: `rip` and `regs` are the registers it uses, `mem` the stack as
words, of which those that were popped stay, `data` is `fire_globals`, `written` what
reached standard output. `Junk` is what a process finds in memory or a helper leaves
in a register it clobbers, and an instruction that computes with it may compute with
any word. The helpers of the runtime are one step each.

`FireFront` goes through a text with `FireLexer` and then through its tokens with
`FireParser` (`HandOver`), as `analyze` does: `parsed`, `place`, `goals` and `reports`
are the parser's `file`, `at`, `goals` and `errors`, and `reports` begins with one
for each error of the lexer.

`FireLexer`: `at` is `m_index`; `mode` says which loop of which handler the lexer is
in; `start`, `depth` and `digits` are the local variables of those handlers. A token
keeps its class, span and integer value.

`FireText`: `run` is what a program calls and finds in its input, `results` what it
got so far; `begin`, `cut` and `built` are the local variables of the loop that is
under way, `unread` and `good` the state of the stream.

`FireReference` is the other side of the comparison. It has scopes and cells but
no slots, frames, jumps or operand stack, and ends statements by `break`,
`continue`, `return` and failure. It shares only operations on single values with
the machine. A program that reads a global before its `let` ran has no meaning
(`"unset"`), and what the machine does with it is left open except for its bounds and
its calling convention; a wrong type ends as `"undefined"`, which the machine never
does.

## Runs

| Run | Bounds | Shows |
|---|---|---|
| `language` | 15 programs, one for each construct, 6 more with a missing return, 210 of loops (3 loops × 36 bodies, alone and nested), about 3000 of one operation each over 8 operands of every type (an int at its limit, an empty array, a void call among them), hand-written code for `DUP`, which the generator never emits, and a program that ends in an internal error | what the analyzer accepts does what it means; slots, jumps, scopes, stack balance; liveness; the machine keeps to its calling convention |
| `frames` | the code of every program of `language`, and of three more with an internal error; both outcomes of each test | the calling convention by itself; that the code has certificates and flows |
| `native` | what the backend takes of the programs above, and 144 of loops over plain numbers, calls with three arguments, operators at the limits, four that fail | the executable agrees with the VM |
| `session` | 3 lines of 2 statements or fewer, 2 functions, 2 globals | what a line leaves for the next |
| `parser` | 8 programs with every production and their 8000 corruptions by one token; all files of up to 4 tokens from 6 | recognition and recovery |
| `lexer` | all texts of a few characters, over one alphabet for each kind of token | tokens, reports and spans |
| `builtins` | all texts up to 4 bytes over 2 letters, searched for all up to 2; up to 5 calls of `input` and `eof` over inputs of up to 3 bytes | text, numbers and input |
| five `violation` runs | a few programs each, or sessions as above | see Findings |

Scaled constants: an `int` has 4 bits (`IntHalf` 8, `ShiftMax` 3), so that
overflow, the least integer and shifts at the limit occur in small programs; the
operations are defined from `IntHalf` exactly as the code's are from 2^63. In the
run `native` it has 8 bits, so that a number has several digits and the least of
them needs all. The
limit of errors is 3 in the runs `parser` and `lexer` (`ErrorLimit`, 25 in the code
and in `front_end`), so that it is reached in open blocks and in short texts.
The depth of calls is limited to 5 (`MaxCallDepth`, 4096 in the code), the stack of a
process to 40 words (`MaxStack`), which the deepest program of the family that ends
does not use up and the one that recurses for ever does. `RepeatLimit` is 6 (2^28 in the
code), below the 16 at which a size wraps, as there. `U8` and `U16`
are 256 and 65536 in `frames`; in `accepted_programs` both are 4: the
casts are the same, the program that shows them is shorter. In `language` a byte has
64 values (`Bytes`, `U8`, and `U16` its square), the least power of 2 that has room
for the 55 opcodes: jumps then need more than one byte in functions of this size. Float
operations yield any element of `FloatVals`, which the runs set to NaN alone: with
one outcome a program has one meaning, and NaN is the value for which comparisons
differ from their negations.

The program families are bounds too. They need no large programs: the passes are
compositional walks, and what interacts is a construct with what is around it — a
loop in a loop, an operation on the result of another, a call with operands
pending. The family has every pair of operand types for every operator and every
ordered pair of steps in every loop. Recovery from a first
error decides where the parser stands, and one corrupted token of a program with
nested blocks puts it everywhere it can stand; that it may then meet a second
error is what an extra or lost brace brings about. A session needs three lines for
what it can get wrong: declare, be rejected, use. The lexer looks at most four
characters ahead and remembers nothing but a depth, so that what can go wrong with a
token shows in texts a few characters longer than that. Two letters are enough for a
text to overlap itself. For `eof` and `input` five calls are enough to reach the end
of every input of the run and to ask again.

### Properties

* `FollowsMeaning` — output so far is a prefix of what the program means, and it
  ends as the program does, with the same exit status.
* `NoInternalError` — no opcode meets a tag the type checker ruled out.
* `LocalsWrittenFirst` — the zeros a frame starts with are never read.
* `UnreachableNeverRuns`, `NeverFallsOff` — the divergence analysis is right, both
  where it warns and where it spares a function the missing-return error.
* `BalancedAtHalt` — statements leave nothing on the operand stack.
* `BytesSayTheSame` — in every function that is called, what the machine fetches at an
  offset is the instruction that was generated, jumps lead to the offset of the one
  that was meant, and the disassembler's walk meets those offsets and no others.
* `FailuresWhereTheyHappen` — a runtime error names the span of the instruction that
  failed, and a backtrace that of each pending call, though the table of spans has one
  entry for neighbours that share one and an ip is already past the instruction. A span
  is the path to the part of the tree that an instruction was emitted for.
* `Terminates` — every program of the family ends. All of them have a meaning that
  is computed by a finite evaluation, so this says that compiled jumps lead out of
  loops. It assumes weak fairness of the machine's step: `execute` is one loop
  that nothing suspends.
* `FrameInv`, `Disciplined` — frames tile the stack; operands lie above locals.
* `NeverOutOfBounds`, `KeepsConvention`, `KeepsToItsFrame`, `TypeOK` — the same of
  the machine with values: it refines the convention, touches no other frame, and
  holds only values whose arrays exist.

* `FunctionsWhereDeclared`, `GlobalsPersist`, `SessionGrows` — lines that are
  rejected or end early do not disturb what accepted lines declared.
* `AgreesWithVM` — the bytes an executable writes are, at every moment, a prefix of
  what the VM writes, and when it exits all of that, with the VM's status. Of a
  program that fails on the VM only its output up to a clean exit is compared: how
  the two then differ is `native_differs`.
* `BalancedAtStatements` — at every label between statements the stack pointer is at
  the end of the frame: `leave` would hide a slip from every caller.
* `WritesAboveItsFrame` — a function writes to no word at or below its saved `rbp`.
* `NativeEnds` — every executable of the family ends: by exit, or killed. Weak
  fairness of the process, which nothing else delays.
* `AgreesWithGrammar` — a text that `FireLexicon` has a reading for, each token the
  longest that begins where it does, gives those tokens, the integers among them, and
  no error; a text without a reading gives an error. `FireLexicon` has the grammar
  page's rules, and two places where the code does not follow them are named: a base
  prefix without a digit, which `docs/diagnostics.md` makes an error (E0006) where the
  page would read a zero and a name (`PrefixAlone`), and separators before the first
  digit, of which nothing is claimed (`SeparatorFirst`; see `front_end`).
* `StringsEndWhereWritten` — a bad escape does not move the end of its string, but for
  a backslash before a line end (`LineContinued`; see `front_end`): every other string
  ends at the first quote no backslash takes, or where its line or the text does.
* `NothingDropped` — every character is in a token, in trivia, or in a report.
* `TokensInOrder`, `JunkCapped` — see Proofs.
* `CaretsUnderTheText` — an error is shown on the line where it begins, its carets under
  exactly the columns of its span on that line, with tabs expanded.
* `LexerReturns` — weak fairness of the lexer's step: `tokenize` is one call.
* `TextAsDocumented` — `split`, `join`, `replace`, `repeat`, `trim` and `find` against
  definitions by position, without their loops.
* `NumbersAsWritten`, `OrdUndoesChr`, `RandomInRange`, `RepeatWithinLimit` — the
  conversions and limits at every boundary.
* `ReadsEveryLine` — in whatever order a program asks `eof` and `input`, it gets every
  line once, and `eof` is true exactly when none is left.
* `LoopsAdvance` — a turn of a builtin's loop gets on in its text.
* `AcceptsTheGrammar` — below the limit, no error only for derivable files, and for all but
  those with a comma after the last parameter (`CommaAfterParameters`; see `front_end`).
* `MistakesReported` — what is skipped never hides a broken statement that ends in
  a semicolon of its own.
* `ErrorsBounded`, `ParserStops` — recovery that makes no progress is stopped by the
  count of errors, and open blocks add one error each. Weak fairness of the
  parser's step: `parse_program` is one call.

That `ErrorsBounded` and `JunkCapped` are weaker than the documented cap of 25 errors
is no choice of the model: `front_end` refutes the cap.

Deadlock is checked everywhere except in `frames`, `session` and `parser`, which
really stop: after `Stop`, when the session is left or as long as the bound allows,
and at the end of the file. In the other runs a finished
run stutters explicitly, so a deadlock would be a machine that reads out of
bounds.

## Proofs

`FireFramesProofs` proves, for every set of modules, every set of certificates
and every call-depth limit:

* `FrameInvariant`: `Spec => []FrameInv`. `FrameInv` is inductive as it stands
  because it says three things at once. `FramesOK` gives types and the script at
  the bottom; `CallersInOrder` relates every waiting caller to the frame above it
  — its operands *after* the call returns, but for the result; `TopInOrder` gives
  the running frame its certified height. A return needs `CallersInOrder` of the
  frame it returns to, which a call had established from `TopInOrder`, so neither
  holds alone. The proof has a lemma per action, and under each one step per part
  of the invariant.
* `Discipline`: `Spec => []Disciplined`, which follows from the invariant and the
  certificate at the running address.
* `IpBehindInstruction`: `Spec => []Advanced`: a caller, and the frame the machine
  stopped in, has its `ip` right behind an instruction of its function. `VM::report`
  relies on it, which looks up the byte before `ip`. It needs `FrameInv`, which says
  that the instruction executed was one.

`FireVMProofs` proves of the machine with values, for every width of integers as
well:

* `Types`: `Spec => []TypeOK`, `InBounds`: `Spec => []NeverOutOfBounds`;
* `Implements`: `Spec => KeepsConvention`, the refinement of `FireFrames`, so that
  the two theorems above hold of it too;
* `Isolation`: `Spec => KeepsToItsFrame`.

The types are not inductive alone: `RETURN` cuts the stack at the base of the frame
it leaves, and only the order of the frames says that the base lies in the stack.
The invariant is therefore `MachineInv`, `TypeOK` together with the `FrameInv` of
the frames read out of the machine (the module `P`, an instance of
`FireFramesProofs`). `Fetched` and `Cells` say what it tells of the next
instruction. Steps are then grouped by what they do to the stack — `ProduceStep`,
`DropStep`, `StopStep`, all through `FrameStep`, and a call, a return and a builtin
by themselves — and of each step three things are shown at once (`SoundStep`): it
keeps the types, it is a step of the convention, and it leaves other frames alone.
An array that a builtin fills or makes must hold values again, shown by a case per
builtin (`NativeReturnsGood`).

`FireFlowProofs` proves of the machine on compiled programs that what the front end
promises of code is kept when it runs, whatever the data:

* `LocalsAreWritten`: `PipelineSpec => []LocalsWrittenFirst`;
* `WarningsAreRight`: `PipelineSpec => []UnreachableNeverRuns`;
* `EndsAreReturns`: `PipelineSpec => []NeverFallsOff`;
* `HaltIsBalanced`: `PipelineSpec => []BalancedAtHalt`.

Each assumes a flow of the modules for which `CodeFlows` holds (`FireFlow`): slots for
each address that control can reach, which no way there leaves unwritten, and no address
among them that reads another slot, lies in a span warned about, ends a function with a
result, or halts with operands left. That is a check of the code address by address, with
no execution in it; `FireCertify` finds flows, and the assumption `FlowsFound` of
`MCFrames` has TLC check them on every compiled program of the runs `language` and
`frames`. It fails for each of the bugs of the analyzer that the project's mutants of these
properties make. The invariant (`FlowInv`) says that every frame is at an address of its flow and has
stored in the slots it gives; the callers too, since a return continues one. It needs
two facts about values. The flow leaves out the branch of `while true` that is never taken, as the
analyzer does, so that the running frame is at such a test only with the TRUE that the
instruction before it made, and no caller is at one; and `exit` and `panic` yield no value
(`NeverReturns`). `ActionOf` says which action executes an instruction for which that
matters.

`FireLexerProofs` proves for every text, largest `int` and limit of errors:

* `LexerTokensInOrder`: `Spec => []TokensInOrder`. Inductive with the modes' own
  invariants: in a loop of a token, `start` lies behind every token made and before
  `at`; in a comment too, and an open string has its quote behind it. That a token is
  not empty needs the first character of its kind at `start`.
* `LexerJunkCapped`: `Spec => []JunkCapped`. The limit is tested after symbols and
  junk only, so the number of all errors has no bound but the text's length; what is
  inductive is that as long as tokens are read, errors about junk are fewer than the
  limit *or* the lexer has stopped, since one is only added where the test follows.
* `LexerStringsEnd`: `Spec => []StringsEndWhereWritten`. `StringEnd` is a function from
  the end of the text back to the string's begin; `EndsAre` shows that it exists, and
  the invariant `EndAhead` says that the end seen from `at` is the one seen from `start`.
  An escape keeps it, well formed or not: it takes the backslash and the character after
  it, and of the characters it may take besides none is a quote, a backslash or a newline
  (`InsideEscapes`). The invariant says so of strings in which no backslash has taken a
  newline yet, and one that has taken one stays so (`ContinuedOn`).
* `LexerNothingDropped`: `Spec => []NothingDropped`. Inductive as `DropInv`: in a token or
  junk everything before `start` is accounted for, in a line comment everything before its
  begin, and no newline is between. In a block comment `Nested` says where each of the
  `depth` open ones ends, each from where the one inside it does, the outermost at
  `BlockEnd(start)`, so where the lexer leaves it is where it ends (`CommentsNest`).
* `LexerCarets`: `Spec => []CaretsUnderTheText`. That errors have characters, all in the
  file, is inductive with `CaretInv`: a code point's report counts back over the digits
  read and the three characters before them. The rest is about `FireSource` alone
  (`SpansHaveCarets`): the number of a line is the rank of its start (`LinesCounted`,
  `SameLine`), so `LineSpan` finds the start that `Locate` counted from; the columns of a
  line grow by what each character takes (`ColumnsOfOne`), `ExpandTabs` puts each
  character where `VisualColumn` says (`CellsStep`), and `ShownAfter` is both together.

`FireTextProofs` proves of the builtins on text and numbers, for every width of `int`,
every limit of `repeat` and every sequence of calls:

* `TextLoopsAdvance`: `Spec => LoopsAdvance`. A turn of a search loop ends behind a hit,
  a hit lies at or behind where the search began (`HitsLieBehind`, from the least
  element of a set of positions), and what is sought is not empty. Without the code's early
  returns for an empty text the last would fail, and the loop would stand still.
* `RepeatBounded`: `Spec => []RepeatWithinLimit`. Inductive with `Building`: the text
  built is the unit as many times as the loop has turned, and after the first turn
  the product the guard computed is known not to have wrapped.
* `RandIntInRange`: `Spec => []RandomInRange`, over `DrawInRange`: either the span is a
  number of values and the result needs no wrapping, or it wrapped to 0, every `int`
  is between the bounds, and whatever the draw wraps to is one.
* `TextKeepsItsWord`: `Spec => []TextAsDocumented`, for every text, separator and count.
  Inductive with `Trimming` and `Staged`, which says how far the call under way is:
  `Splitting` and `Replacing` keep the places of the cuts, `Joining` and `Repeating` the
  number of pieces (`First`) that are put together already. `SplittingEnds` goes back from
  the last part to the first: what is behind a cut is, joined again, the rest of the text,
  and the hits in it are those in the text, moved (`RestHits`). `HitReplaced` and
  `NothingReplaced` compare a search that goes on behind each hit with the definition of
  which occurrences count (`Counted`), in a text whose occurrences may overlap.
* `OrdInvertsChr`: `Spec => []OrdUndoesChr`, for each of the 1114112 code points where
  the run has thirteen. One lemma for each length of an encoding says what `Encoded`
  puts into its bytes and what `Decoded` finds there; that a byte is below 192 or at
  least 192, 224 or 240 is what tells the lengths apart.
* `IntReadsNumbers`: `Spec => []NumbersAsWritten`, of texts without a NUL. Inductive with `Trimming`: what has been
  dropped so far is spaces at the ends, so the text that is left is the only one between
  spaces (`TrimmedIs`). The rest is about that text alone. `DigitsAreDecimal` goes from
  the digits to the number, `DecimalsCount` back: behind zeros there is one way to write
  a number, and `Magnitude` counts it. `ParsedNumeral` and `NumeralParsed` add the sign,
  for what `int` gives and for what it refuses.
* `InputReadsEveryLine`: `Spec => []ReadsEveryLine`, for every text on standard input and
  every order of `input` and `eof`. The invariant `Reading` counts: the calls of `input`
  so far are the lines that begin before `unread` does, and a stream that is not good
  has no line left. `eof` may look ahead without moving that place.

Each step is first shown to answer, to end the program, or to turn a loop (`NextIs`),
and the invariants follow from that alone. They rest on `TextAssumption` and
`RunAssumption` (the analyzer checked the arguments), which TLC evaluates in `builtins`.

`FireParserProofs` proves, for every file of tokens, with whatever errors of the lexer in
front, and every limit of errors:

* `ParserInvariant`: `Spec => []ParserInv`. The parser stands in the file, and its call
  stack ends in `parse_program`, which catches what nothing above it does.
* `ParserErrorsBounded`: `Spec => []ErrorsBounded`. The bound is the limit and one error
  for each opening brace, and the number of errors alone is not inductive: at the limit
  every procedure that is still open may report once more on its way out. `Budget`
  counts them. A loop over a block's statements has read its brace, so there are no more
  open loops than braces behind the parser, and the errors with those still to come fit
  the bound.

`FireReplProofs` proves, for every family of lines and every length of a session:

* `ReplInvariant`: `Spec => []ReplInv`, and from it `FunctionsStayWhereDeclared`:
  `Spec => []FunctionsWhereDeclared` and `GlobalsStay`: `Spec => []GlobalsPersist`. The
  analyzer and the machine keep tables that only agree on positions. The invariant says
  that the k-th entry of the analyzer's scope has slot k, whichever line declared it, that the
  slot holds that variable's value or nothing (`Match`), and that it does hold it
  if the line was accepted and came to its end (`Filled`). A rejected line makes
  entries that nothing fills; that a later line cannot be given one of them is what
  `Filled` needs the positions for.
* `SessionOnlyGrows`: `Spec => SessionGrows`, from the same invariant.

The analysis and the run of a line go through its statements; what they leave is shown
for the first i of them by taking the least i for which it fails.

`FireChunkProofs` proves, for every number of values of a byte, every set of compiled
modules and every path of the machine:

* `OperandReadsBack` and `TargetReadsBack`: an operand of two bytes and a target of four
  are read back as they were written wherever they stand in a chunk. Division leaves one
  quotient (`OneQuotient`), so that four bytes are two words of two (`LowWordAndRest`).
* `BytesSayWhatWasMeant`: `PipelineSpec => []BytesSayTheSame`. What a function's bytes
  say is a fact about the function alone (`ChunkSaysTheSame`); the machine's invariant
  says that the running one is a function of its module. The pieces of a chunk lie behind
  each other (`Flattened`, `EncodedLies`), so each is fetched where it begins
  (`FetchedWhereBegun`), and the disassembler, which only has the lengths of what it
  finds, hits every beginning and nothing between them (`ListedWhereBegun`, taken
  from the end of the code to its start).
* `FailuresReported`: `PipelineSpec => []FailuresWhereTheyHappen`. `Chunk::write` adds no
  entry to the table of spans for an instruction with its neighbour's span, so an
  instruction has no entry of its own. `Tabled` says what it has: an entry with its span,
  at or before it, and the next entry behind its last byte (`TableIs`). That the `ip`s of
  the frames stand behind instructions is `IpBehindInstruction`.

Offsets, the flattened bytes, the walk of the disassembler and the table are recursive
functions. Each is proved to be an iteration (`IterationExists`), and what holds after n
steps by taking the least n for which it fails.

The theorems about the machine rest on `ModuleAssumption` (the shape of compiled
modules) and `CodeVerified` (each function has a certificate), both evaluated by TLC on
every compiled program of the runs `frames` and `language`, where `FireCertify` computes
the certificates. Those about chunks rest on `ChunkAssumption` too, evaluated in
`language`: a function's operands have room in their bytes (the generator casts them),
its jumps were patched to places in it, and each instruction has a span. What happens to
operands that have no room is the run `accepted_programs`.

Liveness (`Terminates`, `ParserStops`, `LexerReturns`, `NativeEnds`) is model-checked
only. So is everything about the analyzer, the generator and the backend, which are
recursive over trees: induction over data is not available in the prover, and that
whatever they accept and emit has certificates and flows is checked for the programs of the
runs alone. For the same reason what compiled programs do with their meaning
(`FollowsMeaning`, `NoInternalError`), `AgreesWithVM` and `BalancedAtStatements`, and the
comparisons with the grammar of tokens and of files (`AgreesWithGrammar`,
`AcceptsTheGrammar`, `MistakesReported`), stay with TLC.

## Findings

Each belongs to a run that TLC must find violated, and each was reproduced with the
compiler built from this source. A run stops at its first; each of the others was
found alone.

`accepted_programs`:

* a function that reads a global before its declaration has run is accepted and ends
  in an internal error;
* `%` on floats is accepted and has no opcode; assigning to a character of a string is
  accepted; an array of void values gets the poison type without a diagnostic;
* numbers of arguments and indices of constants are truncated.

`session_comments`:

* a rejected line leaves its functions in the analyzer, pointing into a tree that is
  freed, and its variables in scope, unset;
* `exit(0)` does not end a session.

`front_end`:

* recovery from one missing semicolon before a block stops at a brace it cannot get past
  and reports it until the limit (`MissingSemicolonOnce`);
* a comma after the last parameter is refused (`DerivedAccepted`);
* a separator may come before the first digit after a prefix, as in `0x_8`
  (`SeparatorsAfterDigits`);
* a backslash takes the newline after it, and the string goes on in the next line
  (`StringsOnOneLine`);
* 25 errors are no hard cap: the lexer goes round its loop past the test after words,
  numbers and strings, and every block open at the limit adds an error (`HardCap`).

Each of its texts violates the part named here and no other.

`native_differs`: arguments are evaluated from the last; `println` writes each
argument before it evaluates the next; shifts past 63 give a result; the least `int`
divided by -1, or its remainder, kills the process; `abs` of it is itself; calls have
no limit on their depth.

`text_promises`: `rand_int` over every `int` divides by zero in the optimised build;
the product in `repeat` wraps, and it then allocates until it is killed; `int` reads a
text with a NUL in it only up to there.

## Plan

Done: the compiler and machine (first), then parser and session, then the backend, the
lexer with its source positions, the builtins on text, and the bytes of a chunk.

Left, in this order: precedence of binary operators in `FireParser`; continuation lines of a session; the
builtins on floats.

## Not modelled

The text of diagnostics, printing of floats and strings, file and process I/O,
tracing, the text of a listing and the command line; of a session, continuation lines
and the commands that print; of the parser, the tree it builds; of the lexer, the
decoded text of a string and the value of a float, which are tables; of the builtins,
those on floats (their results are the C library's), `str`, `bool`, `clock`, `args`
and the state of the random generator: `rand_int` may draw any word. The rounding of
floats is not in reach of a model whose floats are a finite set. nasm, ld and the CPU
are external: instructions do what their manual says. The prototype headers
`tokenization.h`, `parser.h`, `generator.h` are not built. Memory exhaustion and
the sizes of vectors are ignored, but for the limit in `repeat` and the end of the
process's stack.
