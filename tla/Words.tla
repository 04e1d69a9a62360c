--------------------------------- MODULE Words ---------------------------------
(***************************************************************************)
(* The C arithmetic that both simulators of the MIPS processor are written *)
(* in, for words of any width.  A word is the signed integer that an int   *)
(* of WordBits bits holds; a half and a byte are a half and a quarter of   *)
(* it, as 16 and 8 bits are of 32.                                         *)
(***************************************************************************)
EXTENDS Integers

CONSTANT WordBits

ASSUME WordAssumption == WordBits \in Nat \ {0} /\ WordBits % 4 = 0

HalfBits == WordBits \div 2
ByteBits == WordBits \div 4

\* the low bits of x: as a natural number, and with the top one as the sign
ZeroExtend(x, bits) == x % 2^bits
SignExtend(x, bits) ==
    LET low == x % 2^bits IN IF 2 * low >= 2^bits THEN low - 2^bits ELSE low

Wrap(x) == SignExtend(x, WordBits)
Unsigned(x) == ZeroExtend(x, WordBits)

\* the word with a bit where Test holds of the bits of x and y there
Bitwise(Test(_, _), x, y) ==
    LET bit(z, n) == (Unsigned(z) \div 2^n) % 2 = 1
        word[n \in 0 .. WordBits] ==
            IF n = 0 THEN 0
            ELSE word[n - 1] + (IF Test(bit(x, n - 1), bit(y, n - 1)) THEN 2^(n - 1) ELSE 0)
    IN Wrap(word[WordBits])

BitAnd(x, y) == Bitwise(/\, x, y)
BitOr(x, y) == Bitwise(\/, x, y)
BitXor(x, y) == Bitwise(#, x, y)
Complement(x) == -x - 1

ShiftLeft(x, n) == Wrap(x * 2^n)
ShiftRight(x, n) == x \div 2^n                  \* of a signed int: keeps the sign
ShiftRightUnsigned(x, n) == Wrap(Unsigned(x) \div 2^n)

\* division cuts off towards zero
Magnitude(x) == IF x < 0 THEN -x ELSE x
Quotient(x, y) ==
    LET q == Magnitude(x) \div Magnitude(y) IN IF (x < 0) = (y < 0) THEN q ELSE -q
Remainder(x, y) == x - y * Quotient(x, y)

\* The n bytes at addr of a memory, a function of addresses: the host is
\* little-endian, so that WordToHost and ShortToHost change nothing.
Bytes(memory, addr, n) ==
    LET part[k \in 0 .. n] ==
            IF k = 0 THEN 0 ELSE part[k - 1] + memory[addr + k - 1] * 2^(ByteBits * (k - 1))
    IN part[n]

\* the memory after n bytes of x are stored at addr
StoreBytes(memory, addr, n, x) ==
    [a \in DOMAIN memory |->
        IF a \in addr .. addr + n - 1
        THEN ZeroExtend(x \div 2^(ByteBits * (a - addr)), ByteBits)
        ELSE memory[a]]
=============================================================================
