------------------------------- MODULE MCMachine -------------------------------
(***************************************************************************)
(* Small instances of Main for TLC: words of 8 bits, so that a byte has 2  *)
(* and a page of 16 bytes four words; pages 0 and 1 are text, page 2 is    *)
(* data and page 3 the stack.                                              *)
(***************************************************************************)
EXTENDS Main, TLC

CONSTANTS th1, th2, ch1, ch2

-----------------------------------------------------------------------------
(* Instructions.                                                           *)

Word(code, funct, rs, rt, rd, shamt, imm) ==
    [code |-> code, funct |-> funct, rs |-> rs, rt |-> rt, rd |-> rd,
     shamt |-> shamt, imm |-> imm]
I(code, rs, rt, imm) == Word(code, 0, rs, rt, 0, 0, imm)
S(funct, rs, rt, rd) == Word(0, funct, rs, rt, rd, 0, 0)
Shift(funct, rt, rd, places) == Word(0, funct, 0, rt, rd, places, 0)
J(code, word) == Word(code, 0, 0, 0, 0, 0, word)

LUI(rt, high) == I(15, 0, rt, high)
ADDIU(rt, rs, x) == I(9, rs, rt, x)
LW(rt, x) == I(35, 1, rt, x)
SW(rt, x) == I(43, 1, rt, x)
SYSCALL == S(12, 0, 0, 0)

ExitProgram == <<ADDIU(2, 0, 1), SYSCALL>>

-----------------------------------------------------------------------------
(* One instruction, of operands x and y in registers 4 and 5, and its       *)
(* result in register 6.  Register 1 holds the address of the data.         *)

Around(op) ==
    <<LUI(1, 2), LW(4, 0), LW(5, 4), ADDIU(2, 0, 1), op, SW(6, 4), SYSCALL, SYSCALL>>

BytesOf(x, addr) ==
    [n \in addr .. addr + 3 |-> ZeroExtend(Unsigned(x) \div 4^(n - addr), 2)]
Data(x, y) == BytesOf(x, 32) @@ BytesOf(y, 36)

Operands == {<<7, 3>>, <<-128, -1>>, <<127, 1>>, <<-7, 3>>, <<100, -77>>, <<3, 0>>, <<-3, -1>>}
Arithmetic ==
    {S(f, 4, 5, 6) : f \in {32, 33, 34, 35, 36, 37, 38, 39, 42, 43, 4, 6, 7, 24, 25, 27}}
    \cup {Shift(f, 4, 6, 3) : f \in {0, 2, 3}}
    \cup {I(c, 4, 6, x) : c \in 8 .. 15, x \in {3, 14}}
Division == {S(26, 4, 5, 6)}
Control ==
    {I(c, 4, 5, 2) : c \in {4, 5}}
    \cup {I(c, 4, 0, 2) : c \in {6, 7}}
    \cup {I(1, 4, rt, 2) : rt \in {0, 1, 16, 17}}
Jumps7 == {J(2, 7), J(3, 7), S(8, 4, 0, 0), S(9, 4, 0, 31)}
Memory == {I(c, 1, 6, x) : c \in {32, 33, 34, 35, 36, 37, 38}, x \in {0, 1, 2, 4}}
          \cup {I(c, 1, 5, x) : c \in {40, 41, 42, 43, 46}, x \in {0, 1, 2, 4}}
Moves == {S(f, 4, 0, 6) : f \in {16, 17, 18, 19}}
Illegal == {S(1, 0, 0, 0), S(13, 0, 0, 0), I(16, 0, 0, 0), I(1, 0, 5, 0), I(35, 4, 5, 0)}

Program(text, data) == [text |-> text, data |-> data]

OneOperation ==
    {Program(Around(op), Data(v[1], v[2])) : op \in Arithmetic, v \in Operands}
    \cup {Program(Around(op), Data(v[1], v[2])) : op \in Division, v \in Operands \ {<<-128, -1>>}}
    \cup {Program(Around(op), Data(v[1], v[2])) : op \in Control,
                                                  v \in {<<3, 3>>, <<-1, 0>>, <<0, 2>>}}
    \cup {Program(Around(op), Data(28, 0)) : op \in Jumps7}
    \cup {Program(Around(op), Data(-77, 100)) : op \in Memory \cup Moves \cup Illegal}

\* the results of a product, read back from HI and LO, and a load whose register
\* the next instruction reads
Sequences2 ==
    {Program(<<LUI(1, 2), LW(4, 0), LW(5, 4), ADDIU(2, 0, 1), S(f, 4, 5, 0),
               S(16, 0, 0, 6), S(18, 0, 0, 7), SYSCALL>>, Data(-77, 100)) : f \in {24, 25, 27}}
    \cup {Program(<<LUI(1, 2), LW(4, 0), S(33, 4, 0, 6), LW(2, 4), SYSCALL, SYSCALL>>,
                  Data(-77, 1))}

\* A string that begins in the page of data and ends in the next, one that is
\* empty, and one that runs out of the address space.
WriteProgram(addr, file) ==
    Program(<<LUI(1, 2), LW(4, 0), ADDIU(6, 0, file), ADDIU(2, 0, 7), SYSCALL>> \o ExitProgram,
            BytesOf(addr, 32) @@ [n \in 45 .. 49 |-> 1 + (n % 3)] @@ [n \in {62, 63} |-> 1])

\* the call that exception.cc knows by number n
KernelCall(n) == Program(<<LUI(1, 2), LW(2, 0), ADDIU(4, 0, 1), SYSCALL>> \o ExitProgram,
                      BytesOf(n, 32))

Switching == Program(<<LUI(1, 2), LW(4, 0), ADDIU(2, 0, 1), SW(4, 4), SYSCALL>>, Data(5, 0))
Overflowing == Program(<<LUI(4, 7), LUI(5, 6), S(32, 4, 5, 6)>>, BytesOf(0, 32))

\* as far as each timer's interrupts come to meet those of the other devices
MCMaxTicks == "none" :> 20 @@ "TRUE" :> 6 @@ "FALSE" :> 9

Pair(p, q) == (th1 :> p) @@ (th2 :> q)
MCWorkloads ==
    {th1 :> p : p \in OneOperation \cup Sequences2
                      \cup {WriteProgram(x, f) : x \in {45, 50, 62}, f \in {0, 1}}
                      \cup {KernelCall(n) : n \in {0, 5, 10}}}
    \cup {Pair(WriteProgram(45, 1), q) : q \in {WriteProgram(46, 1), Switching, Overflowing}}
    \cup {Pair(KernelCall(n), Switching) : n \in {0, 10}}
=============================================================================
