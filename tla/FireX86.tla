------------------------------ MODULE FireX86 ------------------------------
(***************************************************************************)
(* What runs the native backend's output: the assembler, the few x86-64    *)
(* instructions the backend uses, and the runtime it emits ahead of the    *)
(* program.                                                                *)
(*                                                                         *)
(* A word is an integer of the width of Fire's `int`, or Junk, what the    *)
(* process found in memory or a helper left in a register: an instruction  *)
(* that computes with Junk may compute with any word. The stack is memory  *)
(* of MaxStack words, address 1 the first to be pushed; what is popped     *)
(* stays in memory, as it does on the machine. Addresses of instructions   *)
(* and of stack words are numbers too.                                     *)
(***************************************************************************)
EXTENDS FireBackend, FireValues

CONSTANTS
  Executables,   \* assembled programs, each under an identifier
  Expected,      \* for each, the bytes it should write and its exit status
  MaxStack,      \* the words of stack the system grants
  Junk

ASSUME MachineAssumption == MaxStack \in Nat \ {0} /\ Junk \notin Int

VARIABLES
  exe,         \* the executable being run
  rip,         \* the address of the next instruction
  regs,        \* rax, rcx, rdx, rdi, rsp, rbp
  mem,         \* the stack, by address
  data,        \* fire_globals
  flags,       \* the two numbers last compared; <<>> once they are lost
  written,     \* the bytes written to standard output
  state,       \* "running", "exited", or "crashed" when the system kills it
  exit_code

cpu     == <<rip, regs, mem, data, flags, written>>
process == <<exe, cpu, state, exit_code>>

---------------------------------------------------------------------------
(* The assembler: labels become addresses.                                 *)

IsLabel(l) == l[1] = "label"

\* The labels at which a statement begins or ends: all but those of `&&` and
\* `||`, which an expression contains.
StatementLabels == {"else", "endif", "while", "endwhile", "for", "fornext", "endfor"}

Assemble(lines, global_count) ==
  LET named   == {i \in 1 .. Len(lines) : IsLabel(lines[i])}
      frames  == {i \in 1 .. Len(lines) : lines[i][1] = "sub rsp"}
      Place(i) == i - Cardinality({j \in named : j < i})
      Frame(i) == lines[CHOOSE j \in frames : j < i /\ \A k \in frames : k < i => k <= j][2]
  IN [text    |-> SelectSeq(lines, LAMBDA l : ~IsLabel(l)),
      address |-> [n \in {lines[i][2] : i \in named} |->
                     Place(CHOOSE i \in named : lines[i][2] = n)],
      balance |-> {<<Place(i), Frame(i)>> : i \in {j \in named : lines[j][2][1] \in StatementLabels}},
      global_count |-> global_count]

---------------------------------------------------------------------------
(* The runtime's rendering of values.                                      *)

DigitsOf[u \in Nat] ==
  IF u < 10 THEN <<48 + u>> ELSE Append(DigitsOf[u \div 10], 48 + (u % 10))

Wrap(n)     == ((n + IntHalf) % (2 * IntHalf)) - IntHalf
Unsigned(n) == n % (2 * IntHalf)

\* fire_print_int: the magnitude is what `neg` leaves, read without a sign.
PrintedInt(n) ==
  IF n < 0 THEN <<45>> \o DigitsOf[Unsigned(Wrap(-n))] ELSE DigitsOf[n]

TrueText  == <<116, 114, 117, 101>>
FalseText == <<102, 97, 108, 115, 101>>

\* What each helper writes; rax holds the number for the first two.
Written(helper, rax) ==
  CASE helper = "fire_print_int"  -> PrintedInt(rax)
    [] helper = "fire_print_bool" -> IF rax = 0 THEN FalseText ELSE TrueText
    [] helper = "fire_print_nl"   -> <<10>>
    [] helper = "fire_print_sp"   -> <<32>>

---------------------------------------------------------------------------
(* Operands and fetching.                                                  *)

Init ==
  /\ exe \in DOMAIN Executables
  /\ rip = Executables[exe].address[<<"_start", 0>>]
  /\ regs = [r \in {"rax", "rcx", "rdx", "rdi"} |-> Junk] @@ [rsp |-> 0, rbp |-> 0]
  /\ mem = [a \in 1 .. MaxStack |-> Junk]
  /\ data = [i \in 0 .. Executables[exe].global_count - 1 |-> 0]
  /\ flags = <<>> /\ written = <<>>
  /\ state = "running" /\ exit_code = 0

Ins == Executables[exe].text[rip]
Op  == Ins[1]

\* The stack addresses of an operand, if it is one.
AddressesOf(x) ==
  CASE x[1] = "local" -> {regs.rbp + 1 + x[2]}
    [] x[1] = "arg"   -> {regs.rbp - 2 - x[2]}
    [] OTHER          -> {}

Address(x) == CHOOSE a \in AddressesOf(x) : TRUE

\* The words a helper puts on the stack: its return address, and in
\* fire_print_int the rbx it saves and the return address of fire_write.
HelperWords == IF Op = "runtime" /\ Ins[2] = "fire_print_int" THEN 3 ELSE 1

\* The stack addresses the next instruction reads or writes.
Touched ==
  CASE Op \in {"mov", "cmp"}          -> AddressesOf(Ins[2]) \cup AddressesOf(Ins[3])
    [] Op \in {"push", "call"}        -> {regs.rsp + 1}
    [] Op \in {"runtime", "write"}    -> regs.rsp + 1 .. regs.rsp + HelperWords
    [] Op \in {"pop", "ret"}          -> {regs.rsp}
    [] Op = "leave"                   -> {regs.rbp}
    [] OTHER                          -> {}

Executing(ops) ==
  /\ state = "running"
  /\ rip \in 1 .. Len(Executables[exe].text)
  /\ Op \in ops
  /\ Touched \subseteq 1 .. MaxStack

Read(x) ==
  CASE x[1] = "reg"    -> regs[x[2]]
    [] x[1] = "imm"    -> x[2]
    [] x[1] = "global" -> data[x[2]]
    [] OTHER           -> mem[Address(x)]

\* The numbers an operand may hold for an instruction that computes with it.
Values(x) == IF Read(x) = Junk THEN IntRange ELSE {Read(x)}

SetReg(r, w)  == regs' = [regs EXCEPT ![r] = w]
Next1         == rip' = rip + 1
GoTo(label)   == rip' = Executables[exe].address[label]
Running       == UNCHANGED <<exe, state, exit_code>>
OnlyRegisters == Running /\ UNCHANGED <<mem, data, written>>

---------------------------------------------------------------------------
(* Instructions.                                                           *)

Mov ==
  /\ Executing({"mov"})
  /\ LET to == Ins[2]
         w  == Read(Ins[3])
     IN /\ IF to[1] = "reg"    THEN SetReg(to[2], w) ELSE UNCHANGED regs
        /\ IF to[1] = "global" THEN data' = [data EXCEPT ![to[2]] = w] ELSE UNCHANGED data
        /\ IF to[1] = "local"  THEN mem' = [mem EXCEPT ![Address(to)] = w] ELSE UNCHANGED mem
  /\ Next1 /\ Running
  /\ UNCHANGED <<flags, written>>

PushWord ==
  /\ Executing({"push"})
  /\ mem' = [mem EXCEPT ![regs.rsp + 1] = Read(Ins[2])]
  /\ SetReg("rsp", regs.rsp + 1)
  /\ Next1 /\ Running
  /\ UNCHANGED <<data, flags, written>>

PopWord ==
  /\ Executing({"pop"})
  /\ regs' = [regs EXCEPT ![Ins[2][2]] = mem[regs.rsp], !.rsp = @ - 1]
  /\ Next1 /\ OnlyRegisters
  /\ UNCHANGED flags

\* mov rbp, rsp; sub rsp, n; add rsp, n.
MoveStackPointer ==
  /\ Executing({"mov rbp, rsp", "sub rsp", "add rsp"})
  /\ CASE Op = "mov rbp, rsp" -> SetReg("rbp", regs.rsp) /\ UNCHANGED flags
       [] Op = "sub rsp"      -> SetReg("rsp", regs.rsp + Ins[2]) /\ flags' = <<>>
       [] Op = "add rsp"      -> SetReg("rsp", regs.rsp - Ins[2]) /\ flags' = <<>>
  /\ Next1 /\ OnlyRegisters

\* The machine masks a shift count to the width of a word.
Computed(op, l, r) ==
  LET count == r % (ShiftMax + 1)
  IN CASE op = "+"  -> Wrap(l + r)
       [] op = "-"  -> Wrap(l - r)
       [] op = "*"  -> Wrap(l * r)
       [] op = "<<" -> Wrap(l * 2 ^ count)
       [] op = ">>" -> l \div 2 ^ count
       [] op = "&"  -> CHOOSE n \in IntRange : IsIntResult("BitAnd", l, r, n)
       [] op = "|"  -> CHOOSE n \in IntRange : IsIntResult("BitOr", l, r, n)
       [] op = "^"  -> CHOOSE n \in IntRange : IsIntResult("BitXor", l, r, n)

Arithmetic ==
  /\ Executing(ArithmeticOps \cup BitwiseOps)
  /\ \E l \in Values(Ins[2]), r \in Values(Ins[3]) : SetReg(Ins[2][2], Computed(Op, l, r))
  /\ flags' = <<>>
  /\ Next1 /\ OnlyRegisters

\* xor of a register with itself is `zero`, whatever it held. `neg` compares 0 with its operand, which is what a cmovl after it looks at.
Single ==
  /\ Executing({"neg", "not", "inc", "and 255", "zero"})
  /\ \E x \in IF Op = "zero" THEN {0} ELSE Values(Ins[2]) :
       /\ SetReg(Ins[2][2], CASE Op = "neg"     -> Wrap(-x)
                              [] Op = "not"     -> -x - 1
                              [] Op = "inc"     -> Wrap(x + 1)
                              [] Op = "and 255" -> x % 256
                              [] Op = "zero"    -> 0)
       /\ flags' = IF Op = "neg" THEN <<0, x>> ELSE <<>>
  /\ Next1 /\ OnlyRegisters

\* cqo; idiv: the CPU traps when the quotient is not a word.
Divide ==
  /\ Executing({"idiv"})
  /\ \E l \in Values(RAX), r \in Values(Ins[2]) :
       /\ r # 0 /\ ~(l = -IntHalf /\ r = -1)
       /\ regs' = [regs EXCEPT !.rax = Quotient(l, r), !.rdx = Remainder(l, r)]
  /\ flags' = <<>>
  /\ Next1 /\ OnlyRegisters

Compare ==
  /\ Executing({"cmp", "test"})
  /\ \E l \in Values(Ins[2]) :
       IF Op = "test" THEN flags' = <<l, 0>>
       ELSE \E r \in Values(Ins[3]) : flags' = <<l, r>>
  /\ Next1 /\ OnlyRegisters
  /\ UNCHANGED regs

Condition(cc) ==
  CASE cc = "e"  -> flags[1] = flags[2]
    [] cc = "ne" -> flags[1] # flags[2]
    [] cc = "l"  -> flags[1] < flags[2]
    [] cc = "le" -> flags[1] <= flags[2]
    [] cc = "g"  -> flags[1] > flags[2]
    [] cc = "ge" -> flags[1] >= flags[2]

CodeOf == "sete" :> "e" @@ "setne" :> "ne" @@ "setl" :> "l" @@ "setle" :> "le" @@ "setg" :> "g"
            @@ "setge" :> "ge" @@ "cmovl" :> "l" @@ "cmovg" :> "g"
            @@ "jz" :> "e" @@ "jnz" :> "ne" @@ "jge" :> "ge"

SetByte ==
  /\ Executing({"sete", "setne", "setl", "setle", "setg", "setge"}) /\ flags # <<>>
  /\ SetReg("rax", IF Condition(CodeOf[Op]) THEN 1 ELSE 0)
  /\ Next1 /\ OnlyRegisters
  /\ UNCHANGED flags

ConditionalMove ==
  /\ Executing({"cmovl", "cmovg"}) /\ flags # <<>>
  /\ IF Condition(CodeOf[Op]) THEN SetReg(Ins[2][2], Read(Ins[3])) ELSE UNCHANGED regs
  /\ Next1 /\ OnlyRegisters
  /\ UNCHANGED flags

JumpTo ==
  /\ Executing({"jmp"})
  /\ GoTo(Ins[2])
  /\ OnlyRegisters
  /\ UNCHANGED <<regs, flags>>

JumpOn ==
  /\ Executing({"jz", "jnz", "jge"}) /\ flags # <<>>
  /\ IF Condition(CodeOf[Op]) THEN GoTo(Ins[2]) ELSE Next1
  /\ OnlyRegisters
  /\ UNCHANGED <<regs, flags>>

CallFunction ==
  /\ Executing({"call"})
  /\ mem' = [mem EXCEPT ![regs.rsp + 1] = rip + 1]
  /\ SetReg("rsp", regs.rsp + 1)
  /\ GoTo(Ins[2]) /\ Running
  /\ UNCHANGED <<data, flags, written>>

LeaveFrame ==
  /\ Executing({"leave"})
  /\ regs' = [regs EXCEPT !.rsp = regs.rbp - 1, !.rbp = mem[regs.rbp]]
  /\ Next1 /\ OnlyRegisters
  /\ UNCHANGED flags

ReturnFromCall ==
  /\ Executing({"ret"})
  /\ rip' = mem[regs.rsp]
  /\ SetReg("rsp", regs.rsp - 1)
  /\ OnlyRegisters
  /\ UNCHANGED flags

\* A helper, or the writing of a constant, clobbers what the runtime documents;
\* its return address and what it saves go above the stack pointer.
CallHelper ==
  /\ Executing({"runtime", "write"})
  /\ IF Op = "write" THEN written' = written \o Ins[2]
     ELSE \E n \in IF Ins[2] \in {"fire_print_nl", "fire_print_sp"} THEN {0} ELSE Values(RAX) :
            written' = written \o Written(Ins[2], n)
  /\ regs' = [regs EXCEPT !.rax = Junk, !.rcx = Junk, !.rdx = Junk, !.rdi = Junk]
  /\ mem' = [a \in 1 .. MaxStack |-> IF a \in Touched THEN Junk ELSE mem[a]]
  /\ flags' = <<>>
  /\ Next1 /\ Running
  /\ UNCHANGED data

Ends(how, code) ==
  /\ state' = how /\ exit_code' = code
  /\ UNCHANGED <<exe, cpu>>

ExitGroup == Executing({"exit_group"}) /\ \E n \in Values(RDI) : Ends("exited", n % 256)

\* fire_abort: the message goes to standard error.
Abort == Executing({"fire_abort"}) /\ Ends("exited", 70)

\* SIGFPE.
Trap ==
  /\ Executing({"idiv"})
  /\ \E l \in Values(RAX), r \in Values(Ins[2]) : r = 0 \/ (l = -IntHalf /\ r = -1)
  /\ Ends("crashed", 136)

\* SIGSEGV, past the end of the stack.
Fault ==
  /\ state = "running"
  /\ rip \in 1 .. Len(Executables[exe].text)
  /\ ~(Touched \subseteq 1 .. MaxStack)
  /\ Ends("crashed", 139)

Ended == state # "running" /\ UNCHANGED process

Next ==
  \/ Mov \/ PushWord \/ PopWord \/ MoveStackPointer
  \/ Arithmetic \/ Single \/ Divide \/ Compare \/ SetByte \/ ConditionalMove
  \/ JumpTo \/ JumpOn \/ CallFunction \/ LeaveFrame \/ ReturnFromCall
  \/ CallHelper \/ ExitGroup \/ Abort \/ Trap \/ Fault \/ Ended

Spec == Init /\ [][Next]_process /\ WF_process(Next)

---------------------------------------------------------------------------
(* What the suite that compiles programs both ways holds the backend to.   *)

\* "The native backend must agree with the VM" (tests/run_e2e.sh): as long as a
\* program has a result, the executable writes that and nothing else and exits
\* with its status; it is killed only where the VM stops with an error.
AgreesWithVM ==
  LET m == Expected[exe]
  IN /\ m.status # "failed" => IsPrefix(written, m.bytes) /\ state # "crashed"
     /\ state = "exited" => written = m.bytes /\ exit_code = m.exit_status

\* The same without the reservation, for every program the backend takes.
AlwaysAgreesWithVM ==
  LET m == Expected[exe]
  IN /\ IsPrefix(written, m.bytes)
     /\ state # "running" => written = m.bytes /\ exit_code = m.exit_status

\* Wherever a statement begins or ends, what expressions pushed is gone again:
\* the stack pointer is at the end of the frame. `leave` would hide a slip from
\* every caller, and a loop would add to it each time round.
BalancedAtStatements ==
  \A b \in Executables[exe].balance :
    state = "running" /\ rip = b[1] => regs.rsp = regs.rbp + b[2]

\* A function writes to nothing of its callers: what is at rbp and below, the
\* saved rbp, the return address, the arguments and the frames under them, stays.
WritesAboveItsFrame == [][\A a \in 1 .. regs.rbp : mem'[a] = mem[a]]_mem

\* Liveness: the executable ends, for every program of a family that ends: each loop's
\* jumps lead to its test and out of it.
NativeEnds == <>(state # "running")
=============================================================================
