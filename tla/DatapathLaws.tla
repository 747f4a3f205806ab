---------------------------- MODULE DatapathLaws ----------------------------
(***************************************************************************)
(* What the instructions owe each other and the instruction formats.       *)
(***************************************************************************)
EXTENDS Datapath

\* Whatever the operand bits of a word are, the INS_MATCH chain has one handler
\* for it, its own: no instruction hides another one behind it in the chain.
OneHandler ==
  instruction # {} => {p.handler : p \in D!Matching(instruction)} = {assembled}

\* The bit of the instruction that a format has for a bit of its immediate.
BPlace(k) == CASE k \in 1 .. 4 -> 7 + k [] k \in 5 .. 10 -> 20 + k [] k = 11 -> 7 [] OTHER -> 31
IPlace(k) == IF k < 12 THEN 20 + k ELSE 31
SPlace(k) == CASE k < 5 -> 7 + k [] k \in 5 .. 10 -> 20 + k [] OTHER -> 31
JPlace(k) == CASE k \in 1 .. 10 -> 20 + k [] k = 11 -> 20 [] k \in 12 .. 19 -> k [] OTHER -> 31

\* decode.c puts every bit of an immediate where its format says and repeats
\* the sign bit above it; offsets of branches and jumps are even.
ImmediatesFollowFormats ==
  /\ D!get_b_imm(instruction) = {k \in 1 .. 31 : BPlace(k) \in instruction}
  /\ D!get_i_imm(instruction) = {k \in 0 .. 31 : IPlace(k) \in instruction}
  /\ D!get_s_imm(instruction) = {k \in 0 .. 31 : SPlace(k) \in instruction}
  /\ D!get_j_imm(instruction) = {k \in 1 .. 31 : JPlace(k) \in instruction}
  /\ D!u_imm(instruction) = {k \in 12 .. 31 : k \in instruction}

\* The two halves of a product, computed by two instructions, are the exact
\* product of the factors as each instruction reads them; the unsigned one
\* although int64_t does not hold it.
ProductsAreExact ==
  /\ handler = "mulh"   => sword(rd) * Modulus + twin = sword(a) * sword(b)
  /\ handler = "mulhsu" => sword(rd) * Modulus + twin = sword(a) * b
  /\ handler = "mulhu"  => rd * Modulus + twin = a * b

\* Quotient and remainder belong together for all operands, zero and the most
\* negative word included: the quotient truncates, the remainder has the
\* dividend's sign, and a division by zero gives all ones.
DivisionsAgree ==
  /\ handler = "op_div" =>
       /\ word(sword(rd) * sword(b) + sword(twin)) = a
       /\ b = 0 => rd = Modulus - 1
       /\ b # 0 => /\ Abs(sword(twin)) < Abs(sword(b))
                   /\ sword(twin) = 0 \/ (sword(twin) < 0) = (sword(a) < 0)
  /\ handler = "divu" =>
       /\ word(rd * b + twin) = a
       /\ IF b = 0 THEN rd = Modulus - 1 ELSE twin < b

\* An instruction with an immediate computes what the one with registers does on
\* the sign-extended immediate, for every shift amount although half of them
\* are negative in their bit-field.  sltiu extends the immediate with sign and
\* then compares without: so cpu.c:339 says and test/sltiu.s expects, while the
\* comment inside sltiu (cpu.c:341, the one of slti) has it signed.
ImmediatesAgree ==
  handler \in {"addi", "andi", "ori", "xori", "slti", "sltiu"} \cup ShiftsByImmediate => rd = twin

\* A branch is taken exactly when its opposite is not, slt and sltu say what
\* the branches decide, an unsigned order is the borrow of the difference, and
\* a signed one is the unsigned one with the sign bits turned over.
OrdersAgree ==
  /\ handler \in {"beq", "blt", "bltu"} => rd = 1 - twin
  /\ handler \in {"slt", "sltu"} => rd = twin
  /\ handler = "bltu" => (rd = 1 <=> sub(a, b) # a - b)
  /\ handler = "blt" => rd = Flag(bltu(add(a, Modulus \div 2), add(b, Modulus \div 2)))
  /\ handler = "beq" => (rd = 1 <=> ~blt(a, b) /\ ~blt(b, a))

\* Sums are made of bits: a + b and a | b differ from a ^ b by what a & b
\* carries, and sub undoes add.
BitsAddUp ==
  /\ handler = "and" => add(twin, ShiftedLeft(rd, 1)) = add(a, b)
  /\ handler = "or"  => add(twin, and(a, b)) = rd
  /\ handler = "add" => sub(rd, b) = a /\ add(twin, b) = a

\* The integer instructions form one arithmetic: what the branches and the
\* comparisons decide is what sub computes, and that is made of the bits that
\* and, or and xor work on.
IntegersCohere == OrdersAgree /\ BitsAddUp

=============================================================================
