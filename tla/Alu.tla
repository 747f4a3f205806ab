-------------------------------- MODULE Alu --------------------------------
(***************************************************************************)
(* What the integer and the multiplication instructions compute, on words  *)
(* of XLEN bits.  A C operation on word wraps, one on sword is exact where *)
(* the type holds its result, / and % truncate.                            *)
(***************************************************************************)
EXTENDS Integers

CONSTANT XLEN      \* a power of two; 32 in the program

ASSUME XlenAssumption == XLEN \in Nat /\ XLEN > 1

Modulus == 2^XLEN

Words == 0 .. Modulus - 1

word(n)  == n % Modulus
sword(w) == IF w >= Modulus \div 2 THEN w - Modulus ELSE w

Flag(condition) == IF condition THEN 1 ELSE 0

add(a, b) == word(a + b)

\* Mutants of sub: the operands swapped, and a difference that does not wrap.
sub_swapped(a, b) == word(b - a)

sub(a, b) == word(a - b)

BitOf(a, k) == (a \div 2^k) % 2

\* A truth table has the result for two bits x and y at [x][y].
And == [x \in 0 .. 1 |-> [y \in 0 .. 1 |-> Flag(x = 1 /\ y = 1)]]
Or  == [x \in 0 .. 1 |-> [y \in 0 .. 1 |-> Flag(x = 1 \/ y = 1)]]
Xor == [x \in 0 .. 1 |-> [y \in 0 .. 1 |-> Flag(x # y)]]

\* Entry k: the k low bits of the word that `table` makes of those of a and b.
BitByBit(table, a, b) ==
  LET low[k \in Nat] ==
        IF k = 0 THEN 0 ELSE low[k - 1] + table[BitOf(a, k - 1)][BitOf(b, k - 1)] * 2^(k - 1)
  IN  low

and(a, b)  == BitByBit(And, a, b)[XLEN]
or(a, b)   == BitByBit(Or, a, b)[XLEN]
xor(a, b)  == BitByBit(Xor, a, b)[XLEN]

\* andi, ori and xori convert the signed immediate.
andi(a, imm) == and(a, word(imm))
ori(a, imm)  == or(a, word(imm))
xori(a, imm) == xor(a, word(imm))

slt(a, b)  == Flag(sword(a) < sword(b))
sltu(a, b) == Flag(a < b)
slti(a, imm) == Flag(sword(a) < imm)

\* Mutant of sltiu: the word is compared as a signed one.
sltiu_signed(a, imm) == Flag(sword(a) < imm)

sltiu(a, imm) == Flag(a < word(imm))

ShiftedLeft(a, n)  == word(a * 2^n)
ShiftedRight(a, n) == a \div 2^n

\* Two's complement: >> of an sword rounds down.
sll(a, b) == ShiftedLeft(a, b % XLEN)
srl(a, b) == ShiftedRight(a, b % XLEN)
sra(a, b) == word(ShiftedRight(sword(a), b % XLEN))

\* The shift amount of an immediate shift is a signed bit-field of the width of
\* a shift amount: its upper half is negative.
ShamtField(n) == IF n >= XLEN \div 2 THEN n - XLEN ELSE n

\* Mutant of ShiftCount: a negative count does not shift.
NoNegativeCount(n) == IF n < 0 THEN 0 ELSE n

\* A shift by a negative count is undefined in C; the shift instruction the
\* compiler of this build emits uses the count's low bits.
ShiftCount(n) == n % XLEN

slli(a, n) == ShiftedLeft(a, ShiftCount(ShamtField(n)))
srli(a, n) == ShiftedRight(a, ShiftCount(ShamtField(n)))
srai(a, n) == word(ShiftedRight(sword(a), ShiftCount(ShamtField(n))))

\* When a branch is taken.
beq(a, b)  == a = b
bne(a, b)  == a # b
blt(a, b)  == sword(a) < sword(b)
bge(a, b)  == sword(a) >= sword(b)
bltu(a, b) == a < b

\* Mutant of bgeu: equal words do not branch.
bgtu(a, b) == a > b

bgeu(a, b) == a >= b

-----------------------------------------------------------------------------
Abs(n) == IF n < 0 THEN -n ELSE n

\* C's / and %.
Quotient(a, b)  == IF (a < 0) = (b < 0) THEN Abs(a) \div Abs(b) ELSE -(Abs(a) \div Abs(b))
Remainder(a, b) == a - b * Quotient(a, b)

\* What an int64_t keeps of the product of two uint32_t.
Int64(n) == IF n >= (Modulus * Modulus) \div 2 THEN n - Modulus * Modulus ELSE n

mul32(a, b)  == word(sword(a) * sword(b))
mulh32(a, b) == word((sword(a) * sword(b)) \div Modulus)

\* Mutant of mulhsu32: the second factor is signed too.
mulhss32(a, b) == word((sword(a) * sword(b)) \div Modulus)

mulhsu32(a, b) == word((sword(a) * b) \div Modulus)
mulhu32(a, b)  == word(Int64(a * b) \div Modulus)

Overflows(a, b) == a = Modulus \div 2 /\ sword(b) = -1

div32(a, b) ==
  IF b = 0 THEN word(-1)
  ELSE IF Overflows(a, b) THEN a ELSE word(Quotient(sword(a), sword(b)))

divu32(a, b) == IF b = 0 THEN word(-1) ELSE a \div b

\* Mutant of rem32: the remainder is never negative.
rem32_floored(a, b) ==
  IF b = 0 THEN a ELSE IF Overflows(a, b) THEN 0 ELSE word(sword(a) % Abs(sword(b)))

rem32(a, b) ==
  IF b = 0 THEN a ELSE IF Overflows(a, b) THEN 0 ELSE word(Remainder(sword(a), sword(b)))

remu32(a, b) == IF b = 0 THEN a ELSE a % b

=============================================================================
