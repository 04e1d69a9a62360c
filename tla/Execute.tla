-------------------------------- MODULE Execute --------------------------------
(***************************************************************************)
(* The other simulator of the same processor in the repository, the        *)
(* instruction interpreter bin/execute.c, as the abstract machine that a   *)
(* user program is written for: every instruction takes effect at once.    *)
(* Instructions are the records of MipsSim, told apart by the numbers of   *)
(* bin/encode.h.  Its memory starts at memoffset, 0 here.                  *)
(***************************************************************************)
EXTENDS Words, Sequences

VARIABLES
    text,        \* the instructions, the first at address 0
    Reg,            \* registers 1 to 31; the loop forces Reg[0] to 0
    HI, LO, pc, npc,
    mem,            \* bytes
    exited

hilo == <<HI, LO>>
vars == <<text, Reg, hilo, pc, npc, mem, exited>>

Running == ~ exited /\ pc % 4 = 0 /\ pc \div 4 \in 0 .. Len(text) - 1
instr == text[pc \div 4 + 1]
R(n) == IF n = 0 THEN 0 ELSE Reg[n]
immed == SignExtend(instr.imm, HalfBits)
s == R(instr.rs)
t == R(instr.rt)

Special == instr.code = 0

\* xpc = pc; pc = npc; npc = pc + 4
Advance == pc' = npc /\ npc' = Wrap(npc + 4)
\* register 0 is not kept
Set(n, value) == Reg' = IF n = 0 THEN Reg ELSE [Reg EXCEPT ![n] = value]

Truth(c) == IF c THEN 1 ELSE 0
High(x) == ZeroExtend(x \div 2^HalfBits, HalfBits)
Low(x) == ZeroExtend(x, HalfBits)

-----------------------------------------------------------------------------
Shift ==
    /\ Running /\ Special
    /\ LET places == s % WordBits               \* the host's shift takes the low bits
           f == instr.funct
       IN
       \/ f = 0 /\ Set(instr.rd, ShiftLeft(t, instr.shamt))
       \/ f = 2 /\ Set(instr.rd, ShiftRightUnsigned(t, instr.shamt))
       \/ f = 3 /\ Set(instr.rd, ShiftRight(t, instr.shamt))
       \/ f = 4 /\ Set(instr.rd, ShiftLeft(t, places))
       \/ f = 6 /\ Set(instr.rd, ShiftRightUnsigned(t, places))
       \/ f = 7 /\ Set(instr.rd, ShiftRight(t, places))
    /\ Advance
    /\ UNCHANGED <<text, hilo, mem, exited>>

Arithmetic ==
    /\ Running /\ Special
    /\ LET f == instr.funct IN
       \/ f \in {32, 33} /\ Set(instr.rd, Wrap(s + t))
       \/ f \in {34, 35} /\ Set(instr.rd, Wrap(s - t))
       \/ f = 36 /\ Set(instr.rd, BitAnd(s, t))
       \/ f = 37 /\ Set(instr.rd, BitOr(s, t))
       \/ f = 38 /\ Set(instr.rd, BitXor(s, t))
       \/ f = 39 /\ Set(instr.rd, Complement(BitOr(s, t)))
       \/ f = 42 /\ Set(instr.rd, Truth(s < t))
       \/ f = 43 /\ Set(instr.rd, Truth(Unsigned(s) < Unsigned(t)))
    /\ Advance
    /\ UNCHANGED <<text, hilo, mem, exited>>

\* The double-length product has its low word right, and the high one without
\* the carries out of the low halves.
Product(signed) ==
    LET magnitude(x) == IF signed /\ x < 0 THEN Wrap(-x) ELSE x
        t1 == magnitude(s)
        t2 == magnitude(t)
        lo == Wrap(t1 * t2)
        cross(x, y) == Wrap(High(x) * Low(y)) \div 2^HalfBits
        hi == Wrap(High(t1) * High(t2) + cross(t1, t2) + cross(t2, t1))
    IN
    IF signed /\ (s < 0) # (t < 0)
    THEN [hi |-> Wrap(Complement(hi) + Truth(lo = 0)), lo |-> Wrap(-lo)]
    ELSE [hi |-> hi, lo |-> lo]

HiLo ==
    /\ Running /\ Special
    /\ \/ instr.funct = 16 /\ Set(instr.rd, HI) /\ UNCHANGED hilo
       \/ instr.funct = 18 /\ Set(instr.rd, LO) /\ UNCHANGED hilo
       \/ instr.funct = 17 /\ HI' = s /\ UNCHANGED <<LO, Reg>>
       \/ instr.funct = 19 /\ LO' = s /\ UNCHANGED <<HI, Reg>>
    /\ Advance
    /\ UNCHANGED <<text, mem, exited>>

MultiplyDivide ==
    /\ Running /\ Special
    /\ \/ /\ instr.funct \in {24, 25}
          /\ HI' = Product(instr.funct = 24).hi
          /\ LO' = Product(instr.funct = 24).lo
       \/ /\ instr.funct = 26 /\ t # 0          \* the host traps a division by 0
          /\ LO' = Quotient(s, t)
          /\ HI' = Remainder(s, t)
       \/ /\ instr.funct = 27 /\ t # 0
          /\ LO' = Wrap(Unsigned(s) \div Unsigned(t))
          /\ HI' = Wrap(Unsigned(s) % Unsigned(t))
    /\ Advance
    /\ UNCHANGED <<text, Reg, mem, exited>>

JumpRegister ==
    /\ Running /\ Special /\ instr.funct \in {8, 9}
    /\ pc' = npc
    /\ npc' = s
    /\ IF instr.funct = 9 THEN Set(instr.rd, Wrap(pc + 8)) ELSE Reg' = Reg
    /\ UNCHANGED <<text, hilo, mem, exited>>

\* system_trap and system_break: the call ends the program or answers in
\* register 1.  The numbers of the calls are UNIX's and not those of Nachos.
SystemTrap ==
    /\ Running /\ Special /\ instr.funct \in {12, 13}
    /\ Advance
    /\ \/ exited' = TRUE /\ UNCHANGED Reg
       \/ /\ \A n \in DOMAIN Reg \ {1} : Reg'[n] = Reg[n]
          /\ UNCHANGED exited
    /\ UNCHANGED <<text, hilo, mem>>

-----------------------------------------------------------------------------
Goto(c) ==
    /\ pc' = npc
    /\ npc' = IF c THEN Wrap(pc + 4 + 4 * immed) ELSE Wrap(npc + 4)

BranchAgainst0 ==
    /\ Running /\ instr.code = 1
    /\ Reg' = IF instr.rt \in {16, 17} THEN [Reg EXCEPT ![31] = Wrap(pc + 8)] ELSE Reg
    /\ LET tested == IF instr.rs = 0 THEN 0 ELSE Reg'[instr.rs] IN
       \/ instr.rt \in {0, 16} /\ Goto(tested < 0)
       \/ instr.rt \in {1, 17} /\ Goto(tested >= 0)
    /\ UNCHANGED <<text, hilo, mem, exited>>

Branch ==
    /\ Running
    /\ \/ instr.code = 4 /\ Goto(s = t)
       \/ instr.code = 5 /\ Goto(s # t)
       \/ instr.code = 6 /\ Goto(s <= 0)
       \/ instr.code = 7 /\ Goto(s > 0)
    /\ UNCHANGED <<text, Reg, hilo, mem, exited>>

Jump ==
    /\ Running /\ instr.code \in {2, 3}
    /\ npc' = pc - (pc % 2^(WordBits - WordBits \div 8)) + 4 * instr.imm
    /\ pc' = npc
    /\ IF instr.code = 3 THEN Set(31, Wrap(pc + 8)) ELSE Reg' = Reg
    /\ UNCHANGED <<text, hilo, mem, exited>>

Immediate ==
    /\ Running
    /\ LET c == instr.code IN
       \/ c \in {8, 9} /\ Set(instr.rt, Wrap(s + immed))
       \/ c = 10 /\ Set(instr.rt, Truth(s < immed))
       \/ c = 11 /\ Set(instr.rt, Truth(Unsigned(s) < Unsigned(immed)))
       \/ c = 12 /\ Set(instr.rt, BitAnd(s, immed))
       \/ c = 13 /\ Set(instr.rt, BitOr(s, immed))
       \/ c = 14 /\ Set(instr.rt, BitXor(s, immed))
       \/ c = 15 /\ Set(instr.rt, ShiftLeft(instr.imm, HalfBits))
    /\ Advance
    /\ UNCHANGED <<text, hilo, mem, exited>>

-----------------------------------------------------------------------------
Access == Wrap(s + immed)
Inside(n) == Access \in DOMAIN mem /\ Access + n - 1 \in DOMAIN mem

\* cfetch, ucfetch, sfetch, usfetch and fetch
Load ==
    /\ Running
    /\ LET c == instr.code IN
       \/ c = 32 /\ Inside(1) /\ Set(instr.rt, SignExtend(Bytes(mem, Access, 1), ByteBits))
       \/ c = 36 /\ Inside(1) /\ Set(instr.rt, Bytes(mem, Access, 1))
       \/ c = 33 /\ Inside(2) /\ Set(instr.rt, SignExtend(Bytes(mem, Access, 2), HalfBits))
       \/ c = 37 /\ Inside(2) /\ Set(instr.rt, Bytes(mem, Access, 2))
       \/ c = 35 /\ Inside(4) /\ Set(instr.rt, Wrap(Bytes(mem, Access, 4)))
    /\ Advance
    /\ UNCHANGED <<text, hilo, mem, exited>>

\* cstore, sstore and store
Store ==
    /\ Running
    /\ \/ instr.code = 40 /\ Inside(1) /\ mem' = StoreBytes(mem, Access, 1, t)
       \/ instr.code = 41 /\ Inside(2) /\ mem' = StoreBytes(mem, Access, 2, t)
       \/ instr.code = 43 /\ Inside(4) /\ mem' = StoreBytes(mem, Access, 4, t)
    /\ Advance
    /\ UNCHANGED <<text, Reg, hilo, exited>>

\* u(), and the coprocessors
Unimplemented ==
    /\ Running
    /\ \/ instr.code \in 16 .. 31 \cup {39, 42, 44, 45, 46, 47} \cup 48 .. 63
       \/ Special /\ instr.funct \notin
            {0, 2, 3, 4, 6, 7, 8, 9, 12, 13, 16, 17, 18, 19, 24, 25, 26, 27}
            \cup 32 .. 39 \cup {42, 43}
       \/ instr.code = 1 /\ instr.rt \notin {0, 1, 16, 17}
    /\ exited' = TRUE
    /\ UNCHANGED <<text, Reg, hilo, mem>>
    /\ UNCHANGED <<pc, npc>>

Step ==
    \/ Shift \/ Arithmetic \/ HiLo \/ MultiplyDivide \/ JumpRegister \/ SystemTrap
    \/ BranchAgainst0 \/ Branch \/ Jump \/ Immediate
    \/ Load \/ Store \/ Unimplemented
=============================================================================
