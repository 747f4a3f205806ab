------------------------------- MODULE Decode -------------------------------
(***************************************************************************)
(* What emulate_op reads out of an instruction: the handler, by the masks  *)
(* and matches of opcodes.h, and the immediates of decode.c.  A word is    *)
(* the set of its bits that are set.                                       *)
(***************************************************************************)
EXTENDS Integers, FiniteSets

Bit == 0 .. 31

Ones(n) == {i \in 0 .. 15 : (n \div 2^i) % 2 = 1}

\* A word by its two halves.
Bits(high, low) == {i + 16 : i \in Ones(high)} \cup Ones(low)

ShiftedLeft(bits, n) == {i + n : i \in bits} \cap Bit

bextr(value, start, len) == {i - start : i \in {j \in value : start <= j /\ j < start + len}}

imm_sign(value) == IF 31 \in value THEN Bit ELSE {}

\* Mutant of get_b_imm: bit 11 is left where bit 0 would be.
b_imm_bit_0(value) ==
  ShiftedLeft(bextr(value, 8, 4), 1) \cup ShiftedLeft(bextr(value, 25, 6), 5)
    \cup bextr(value, 7, 1) \cup ShiftedLeft(imm_sign(value), 12)

\* The terms of the sums share no bit, and a sum of such words is their union.
get_b_imm(value) ==
  ShiftedLeft(bextr(value, 8, 4), 1) \cup ShiftedLeft(bextr(value, 25, 6), 5)
    \cup ShiftedLeft(bextr(value, 7, 1), 11) \cup ShiftedLeft(imm_sign(value), 12)

Extended(value, bits, from) == bits \cup (IF 31 \in value THEN from .. 31 ELSE {})

get_i_imm(value) == Extended(value, bextr(value, 20, 12), 12)

get_s_imm(value) ==
  Extended(value, bextr(value, 7, 5) \cup ShiftedLeft(bextr(value, 25, 7), 5), 12)

get_j_imm(value) ==
  Extended(value,
           ShiftedLeft(bextr(value, 21, 10), 1) \cup ShiftedLeft(bextr(value, 20, 1), 11)
             \cup ShiftedLeft(bextr(value, 12, 8), 12) \cup ShiftedLeft(bextr(value, 31, 1), 20),
           20)

\* in->data << 12 of lui and auipc.
u_imm(value) == ShiftedLeft(bextr(value, 12, 20), 12)

-----------------------------------------------------------------------------
Pattern(mask, high, low, handler) == [mask |-> mask, match |-> Bits(high, low), handler |-> handler]

\* Mutant of MaskRegisters: funct7 is not compared.
MaskWithoutFunct7 == Bits(0, \h707f)

MaskRegisters == Bits(\hfe00, \h707f)

RegisterCodes ==
  { <<0, \h0033, "add">>, <<0, \h7033, "and">>, <<0, \h6033, "or">>, <<0, \h1033, "sll">>,
    <<0, \h2033, "slt">>, <<0, \h3033, "sltu">>, <<\h4000, \h5033, "sra">>,
    <<0, \h5033, "srl">>, <<\h4000, \h0033, "sub">>, <<0, \h4033, "xor">>,
    <<\h0200, \h0033, "mul">>, <<\h0200, \h1033, "mulh">>, <<\h0200, \h2033, "mulhsu">>,
    <<\h0200, \h3033, "mulhu">>, <<\h0200, \h4033, "op_div">>, <<\h0200, \h5033, "divu">>,
    <<\h0200, \h6033, "rem">>, <<\h0200, \h7033, "remu">> }

Registers == {Pattern(MaskRegisters, code[1], code[2], code[3]) : code \in RegisterCodes}

ImmediateCodes ==
  { <<\h0013, "addi">>, <<\h7013, "andi">>, <<\h6013, "ori">>, <<\h2013, "slti">>,
    <<\h3013, "sltiu">>, <<\h4013, "xori">>,
    <<\h0063, "beq">>, <<\h5063, "bge">>, <<\h7063, "bgeu">>, <<\h4063, "blt">>,
    <<\h6063, "bltu">>, <<\h1063, "bne">>, <<\h000f, "fence">>, <<\h100f, "fencei">>,
    <<\h0067, "jalr">>, <<\h0003, "lb">>, <<\h4003, "lbu">>, <<\h1003, "lh">>,
    <<\h5003, "lhu">>, <<\h2003, "lw">>, <<\h0023, "sb">>, <<\h1023, "sh">>, <<\h2023, "sw">>,
    <<\h2073, "csrrs">>, <<\h1073, "csrrw">>, <<\h3073, "csrrc">>, <<\h6073, "csrrsi">>,
    <<\h5073, "csrrwi">>, <<\h7073, "csrrci">> }

Immediates == {Pattern(Bits(0, \h707f), 0, code[1], code[2]) : code \in ImmediateCodes}

UpperCodes == {<<\h17, "auipc">>, <<\h6f, "jal">>, <<\h37, "lui">>}

Uppers == {Pattern(Bits(0, \h7f), 0, code[1], code[2]) : code \in UpperCodes}

\* The mask leaves bit 25 open, as for shifts of 64-bit registers.
ShiftCodes == {<<0, \h1013, "slli">>, <<\h4000, \h5013, "srai">>, <<0, \h5013, "srli">>}

Shifts == {Pattern(Bits(\hfc00, \h707f), code[1], code[2], code[3]) : code \in ShiftCodes}

SystemCodes ==
  { <<\h0010, "ebreak">>, <<0, "ecall">>, <<\h1050, "wfi">>, <<\h3020, "mret">>,
    <<\h1020, "sret">>, <<\h0020, "uret">> }

Systems == {Pattern(Bit, code[1], \h0073, code[2]) : code \in SystemCodes}
           \cup {Pattern(Bits(\hfe00, \h7fff), \h1200, \h0073, "sfence_vma")}

AtomicCodes ==
  { <<0, "amoadd_w">>, <<\h4000, "amoor_w">>, <<\h6000, "amoand_w">>,
    <<\h2000, "amoxor_w">>, <<\h0800, "amoswap_w">>, <<\h1800, "sc">> }

Atomics == {Pattern(Bits(\hf800, \h707f), code[1], \h202f, code[2]) : code \in AtomicCodes}
           \cup {Pattern(Bits(\hf9f0, \h707f), \h1000, \h202f, "lr")}

Patterns == Registers \cup Immediates \cup Uppers \cup Shifts \cup Systems \cup Atomics

\* The conditions of the INS_MATCH chain that hold for a word.  There is never
\* more than one (OneHandler), so their order decides nothing.
Matching(word) == {p \in Patterns : word \cap p.mask = p.match}

=============================================================================
