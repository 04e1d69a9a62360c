-------------------------------- MODULE MipsSim --------------------------------
(***************************************************************************)
(* What one instruction does in the kernel's simulator of the MIPS         *)
(* processor, machine/mipssim.cc: decoding, the value computed, the next   *)
(* program counter, the addresses and values of loads and stores, and the  *)
(* delayed load.  Registers are a record with the fields                   *)
(*    gpr, hi, lo, pc, nextPC, loadReg, loadValue                          *)
(* An instruction is a record of the fields of its word (instr->rs, ...).  *)
(***************************************************************************)
EXTENDS Words, SequencesExt

R31 == 31

-----------------------------------------------------------------------------
(* Decoding.                                                               *)

opTable ==
    <<"SPECIAL", "BCOND", "J", "JAL", "BEQ", "BNE", "BLEZ", "BGTZ",
      "ADDI", "ADDIU", "SLTI", "SLTIU", "ANDI", "ORI", "XORI", "LUI">>
    \o [k \in 1 .. 16 |-> IF k <= 4 THEN "UNIMP" ELSE "RES"]
    \o <<"LB", "LH", "LWL", "LW", "LBU", "LHU", "LWR", "RES",
         "SB", "SH", "SWL", "SW", "RES", "RES", "SWR", "RES">>
    \o [k \in 1 .. 16 |-> IF ((k - 1) \div 4) % 2 = 0 THEN "UNIMP" ELSE "RES"]

specialTable ==
    <<"SLL", "RES", "SRL", "SRA", "SLLV", "RES", "SRLV", "SRAV",
      "JR", "JALR", "RES", "RES", "SYSCALL", "UNIMP", "RES", "RES",
      "MFHI", "MTHI", "MFLO", "MTLO", "RES", "RES", "RES", "RES",
      "MULT", "MULTU", "DIV", "DIVU", "RES", "RES", "RES", "RES",
      "ADD", "ADDU", "SUB", "SUBU", "AND", "OR", "XOR", "NOR",
      "RES", "RES", "SLT", "SLTU", "RES", "RES", "RES", "RES">>
    \o [k \in 1 .. 16 |-> "RES"]

Decode(i) ==
    CASE opTable[i.code + 1] = "SPECIAL" -> specialTable[i.funct + 1]
      [] opTable[i.code + 1] = "BCOND"   ->
            (CASE i.rt = 0  -> "BLTZ"
               [] i.rt = 1  -> "BGEZ"
               [] i.rt = 16 -> "BLTZAL"
               [] i.rt = 17 -> "BGEZAL"
               [] OTHER     -> "UNIMP")
      [] OTHER -> opTable[i.code + 1]

Extra(i) ==
    CASE opTable[i.code + 1] = "SPECIAL"       -> i.shamt
      [] opTable[i.code + 1] \in {"J", "JAL"}  -> i.imm
      [] OTHER                                 -> SignExtend(i.imm, HalfBits)

Branches == {"BEQ", "BNE", "BGTZ", "BLEZ", "BLTZ", "BLTZAL", "BGEZ", "BGEZAL"}
Loads == {"LB", "LBU", "LH", "LHU", "LW", "LWL", "LWR"}
Stores == {"SB", "SH", "SW", "SWL", "SWR"}
Immediates == {"ADDI", "ADDIU", "SLTI", "SLTIU", "ANDI", "ORI", "XORI", "LUI"}
Computations == {"ADD", "ADDU", "SUB", "SUBU", "AND", "OR", "XOR", "NOR", "SLL", "SLLV", "SRL",
                 "SRLV", "SRA", "SRAV", "SLT", "SLTU", "MFHI", "MFLO"} \cup Immediates

-----------------------------------------------------------------------------
(* Arithmetic.                                                             *)

\* Overflow is found by comparing signs: of the operands and the result.
Overflows(op, a, b, x) ==
    LET negative(y) == y < 0 IN
    \/ /\ op = "ADD"
       /\ negative(a) = negative(b) /\ negative(Wrap(a + b)) # negative(a)
    \/ /\ op = "ADDI"
       /\ negative(a) = negative(x) /\ negative(Wrap(a + x)) # negative(x)
    \/ /\ op = "SUB"
       /\ negative(a) # negative(b) /\ negative(Wrap(a - b)) # negative(a)

\* a and b are the values of rs and rt, x is extra.
Sum(op, a, b, x) ==
    CASE op \in {"ADD", "ADDU"}   -> Wrap(a + b)
      [] op \in {"ADDI", "ADDIU"} -> Wrap(a + x)
      [] op \in {"SUB", "SUBU"}   -> Wrap(a - b)

\* OR takes rs twice; the immediate operands lose the sign (& 0xffff).
Logic(op, a, b, x) ==
    LET low == ZeroExtend(x, HalfBits) IN
    CASE op = "AND"   -> BitAnd(a, b)
      [] op = "ANDI"  -> BitAnd(a, low)
      [] op = "OR"    -> BitOr(a, a)
      [] op = "ORI"   -> BitOr(a, low)
      [] op = "XOR"   -> BitXor(a, b)
      [] op = "XORI"  -> BitXor(a, low)
      [] op = "NOR"   -> Complement(BitOr(a, b))

\* SRL and SRLV shift a signed int.
ShiftOrTest(op, a, b, x) ==
    LET truth(c) == IF c THEN 1 ELSE 0
        places == ZeroExtend(a, 5) % WordBits   \* & 0x1f
    IN
    CASE op = "SLL"   -> ShiftLeft(b, x)
      [] op = "SLLV"  -> ShiftLeft(b, places)
      [] op \in {"SRA", "SRL"}    -> ShiftRight(b, x)
      [] op \in {"SRAV", "SRLV"}  -> ShiftRight(b, places)
      [] op = "SLT"   -> truth(a < b)
      [] op = "SLTI"  -> truth(a < x)
      [] op = "SLTU"  -> truth(Unsigned(a) < Unsigned(b))
      [] op = "SLTIU" -> truth(Unsigned(a) < Unsigned(x))

\* What a computation writes to its register.
Computed(op, a, b, x, r) ==
    CASE op \in {"ADD", "ADDU", "ADDI", "ADDIU", "SUB", "SUBU"} -> Sum(op, a, b, x)
      [] op \in {"AND", "ANDI", "OR", "ORI", "XOR", "XORI", "NOR"} -> Logic(op, a, b, x)
      [] op = "LUI"   -> ShiftLeft(x, HalfBits)
      [] op = "MFHI"  -> r.hi
      [] op = "MFLO"  -> r.lo
      [] OTHER        -> ShiftOrTest(op, a, b, x)

MultiplyBitsNoCarry(a, b) ==            \* bug: lo < bLo is not tested
    LET bLo(k) == Unsigned(b * 2^(k - 1))
        bHi(k) == (Unsigned(b) * 2^(k - 1)) \div 2^WordBits
        adding == {k \in 1 .. WordBits : (a \div 2^(k - 1)) % 2 = 1}
    IN [hi |-> Unsigned(FoldSet(LAMBDA k, h : h + bHi(k), 0, adding)),
        lo |-> Unsigned(FoldSet(LAMBDA k, l : l + bLo(k), 0, adding))]

\* The loop of Mult, over the bits of a from the lowest; its break only spares
\* rounds in which a is 0.  In round k, b has been shifted k - 1 times in the
\* double word bHi, bLo, and is added to hi, lo if the bit is set.
MultiplyBits(a, b) ==
    LET bLo(k) == Unsigned(b * 2^(k - 1))
        bHi(k) == (Unsigned(b) * 2^(k - 1)) \div 2^WordBits
        adding(k) == (a \div 2^(k - 1)) % 2 = 1
        lo[k \in 0 .. WordBits] ==
            IF k = 0 THEN 0
            ELSE IF adding(k) THEN Unsigned(lo[k - 1] + bLo(k)) ELSE lo[k - 1]
        carry(k) == IF lo[k] < bLo(k) THEN 1 ELSE 0
        hi[k \in 0 .. WordBits] ==
            IF k = 0 THEN 0
            ELSE IF adding(k) THEN Unsigned(hi[k - 1] + carry(k) + bHi(k)) ELSE hi[k - 1]
    IN [hi |-> hi[WordBits], lo |-> lo[WordBits]]

Mult(a, b, signedArith) ==
    LET negative == signedArith /\ (a < 0) # (b < 0)
        positive(y) == IF signedArith /\ y < 0 THEN Wrap(-y) ELSE y
        p == MultiplyBits(positive(a), positive(b))
        carry == IF p.lo = 0 THEN 1 ELSE 0      \* of ~lo + 1
    IN
    CASE a = 0 \/ b = 0 -> [hi |-> 0, lo |-> 0]
      [] ~ (a = 0 \/ b = 0) /\ negative ->
            [hi |-> Wrap(Complement(p.hi) + carry), lo |-> Wrap(-p.lo)]
      [] OTHER -> [hi |-> Wrap(p.hi), lo |-> Wrap(p.lo)]

\* Division by 0 gives 0; the least integer divided by -1, which the host traps,
\* is not among the operands.
Divide(op, a, b) ==
    LET as == Unsigned(a) bs == Unsigned(b) IN
    CASE b = 0                   -> [hi |-> 0, lo |-> 0]
      [] b # 0 /\ op = "DIV"     -> [hi |-> Remainder(a, b), lo |-> Quotient(a, b)]
      [] OTHER                   -> [hi |-> Wrap(as % bs), lo |-> Wrap(as \div bs)]

HiLo(op, a, b, r) ==
    CASE op = "MULT"  -> Mult(a, b, TRUE)
      [] op = "MULTU" -> Mult(a, b, FALSE)
      [] op \in {"DIV", "DIVU"} -> Divide(op, a, b)
      [] op = "MTHI"  -> [hi |-> a, lo |-> r.lo]
      [] op = "MTLO"  -> [hi |-> r.hi, lo |-> a]
      [] OTHER        -> [hi |-> r.hi, lo |-> r.lo]

-----------------------------------------------------------------------------
(* Branches and jumps.                                                     *)

IndexToAddr(x) == 4 * x

Taken(op, a, b) ==
    \/ op = "BEQ" /\ a = b
    \/ op = "BNE" /\ a # b
    \/ op \in {"BGEZ", "BGEZAL"} /\ a >= 0
    \/ op \in {"BLTZ", "BLTZAL"} /\ a < 0
    \/ op = "BGTZ" /\ a > 0
    \/ op = "BLEZ" /\ a <= 0

\* A jump stays in the region of memory that the top bits of pcAfter name.
RegionBits == WordBits - WordBits \div 8

\* gpr are the registers after the link has been written.
PcAfter(i, r, gpr) ==
    LET op == Decode(i)
        following == Wrap(r.nextPC + 4)
    IN
    CASE Taken(op, gpr[i.rs], gpr[i.rt]) -> Wrap(r.nextPC + IndexToAddr(Extra(i)))
      [] op \in {"J", "JAL"}   ->
            following - (following % 2^RegionBits) + IndexToAddr(Extra(i))
      [] op \in {"JR", "JALR"} -> gpr[i.rs]
      [] OTHER                 -> following

\* The register an instruction writes at once, none being 0.
Target(i) ==
    LET op == Decode(i) IN
    CASE op \in Immediates                  -> i.rt
      [] op \in Computations \ Immediates   -> i.rd
      [] op = "JALR"                        -> i.rd
      [] op \in {"JAL", "BLTZAL", "BGEZAL"} -> R31
      [] OTHER                              -> 0

-----------------------------------------------------------------------------
(* Loads and stores.                                                       *)

Address(i, r) == Wrap(r.gpr[i.rs] + Extra(i))

AccessSize(op) ==
    CASE op \in {"LB", "LBU", "SB"} -> 1
      [] op \in {"LH", "LHU", "SH"} -> 2
      [] OTHER                      -> 4

\* What a load puts in its register.  ReadMem gives a byte with the sign of a
\* char and a half without one; LWL and LWR get past their assertion at aligned
\* addresses only, and merge into a load of the register that is still pending.
Loaded(i, r, memory) ==
    LET op == Decode(i)
        value == Bytes(memory, Address(i, r), AccessSize(op))
        before == IF r.loadReg = i.rt THEN r.loadValue ELSE r.gpr[i.rt]
        high == Unsigned(before) - ZeroExtend(before, ByteBits)
    IN
    CASE op = "LB" -> SignExtend(value, ByteBits)
      [] op = "LH" -> SignExtend(value, HalfBits)
      [] op \in {"LBU", "LHU"} -> value
      [] op = "LWR" -> Wrap(high + value \div 2^(WordBits - ByteBits))
      [] OTHER -> Wrap(value)

\* The memory after a store; SWR replaces the top byte of an aligned word.
Stored(i, r, memory) ==
    LET op == Decode(i)
        addr == Address(i, r)
        x == r.gpr[i.rt]
        merged == ZeroExtend(Bytes(memory, addr, 4), WordBits - ByteBits)
                    + ShiftLeft(x, WordBits - ByteBits)
    IN
    StoreBytes(memory, addr, AccessSize(op), IF op = "SWR" THEN Wrap(merged) ELSE x)

\* The load of the instruction before reaches its register; the one of this
\* instruction waits for the next.
DelayedLoad(r, nextReg, nextValue) ==
    [r EXCEPT !.gpr = [@ EXCEPT ![r.loadReg] = r.loadValue, ![0] = 0],
              !.loadReg = nextReg,
              !.loadValue = nextValue]

-----------------------------------------------------------------------------
(* The registers after an instruction that raises no exception.            *)

Executed(i, r, memory) ==
    LET op == Decode(i)
        written == IF op \in Computations
                   THEN Computed(op, r.gpr[i.rs], r.gpr[i.rt], Extra(i), r)
                   ELSE Wrap(r.nextPC + 4)              \* a link
        gpr == [r.gpr EXCEPT ![Target(i)] = IF Target(i) = 0 THEN 0 ELSE written]
        hilo == HiLo(op, r.gpr[i.rs], r.gpr[i.rt], r)
        loading == op \in Loads
        done == DelayedLoad([r EXCEPT !.gpr = gpr, !.hi = hilo.hi, !.lo = hilo.lo],
                            IF loading THEN i.rt ELSE 0,
                            IF loading THEN Loaded(i, r, memory) ELSE 0)
    IN
    [done EXCEPT !.pc = r.nextPC, !.nextPC = PcAfter(i, r, gpr)]
=============================================================================
