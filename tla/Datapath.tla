------------------------------ MODULE Datapath ------------------------------
(***************************************************************************)
(* One instruction without memory or traps: emulate_op dispatches a word   *)
(* to a handler, and a handler of the integer or the multiplication        *)
(* instructions computes from its two operands, the second of which is     *)
(* rs2's word or what the immediate says.                                  *)
(***************************************************************************)
EXTENDS Alu, FiniteSets

D == INSTANCE Decode

VARIABLES
  instruction,     \* the fetched word, {} before there is one
  assembled,       \* the instruction whose encoding it is
  handler,         \* the handler that runs, "" before there is one
  a, b,            \* its operands
  rd,              \* what it writes to rd; a branch gives 1 when it is taken
  twin             \* what its counterpart writes, or rd where it has none

datapathVars == <<instruction, assembled, handler, a, b, rd, twin>>

Result(name, x, y) ==
  CASE name = "add"  -> add(x, y)      [] name = "sub"    -> sub(x, y)
    [] name = "and"  -> and(x, y)      [] name = "or"     -> or(x, y)
    [] name = "xor"  -> xor(x, y)      [] name = "slt"    -> slt(x, y)
    [] name = "sltu" -> sltu(x, y)     [] name = "sll"    -> sll(x, y)
    [] name = "srl"  -> srl(x, y)      [] name = "sra"    -> sra(x, y)
    [] name = "addi" -> add(x, y)      [] name = "andi"   -> andi(x, sword(y))
    [] name = "ori"  -> ori(x, sword(y))   [] name = "xori"  -> xori(x, sword(y))
    [] name = "slti" -> slti(x, sword(y))  [] name = "sltiu" -> sltiu(x, sword(y))
    [] name = "slli" -> slli(x, y)     [] name = "srli"   -> srli(x, y)
    [] name = "srai" -> srai(x, y)     [] name = "mul"    -> mul32(x, y)
    [] name = "mulh" -> mulh32(x, y)   [] name = "mulhsu" -> mulhsu32(x, y)
    [] name = "mulhu" -> mulhu32(x, y) [] name = "op_div" -> div32(x, y)
    [] name = "divu" -> divu32(x, y)   [] name = "rem"    -> rem32(x, y)
    [] name = "remu" -> remu32(x, y)
    [] name = "beq"  -> Flag(beq(x, y))    [] name = "bne"  -> Flag(bne(x, y))
    [] name = "blt"  -> Flag(blt(x, y))    [] name = "bge"  -> Flag(bge(x, y))
    [] name = "bltu" -> Flag(bltu(x, y))   [] name = "bgeu" -> Flag(bgeu(x, y))

\* Handlers that say the same, or the opposite or the other half of it, about
\* the same operands.
Counterpart ==
  [addi |-> "add", andi |-> "and", ori |-> "or", xori |-> "xor", slti |-> "slt",
   sltiu |-> "sltu", slli |-> "sll", srli |-> "srl", srai |-> "sra",
   mulh |-> "mul", mulhsu |-> "mul", mulhu |-> "mul",
   op_div |-> "rem", divu |-> "remu",
   beq |-> "bne", blt |-> "bge", bltu |-> "bgeu",
   slt |-> "blt", sltu |-> "bltu",
   add |-> "sub", and |-> "xor", or |-> "xor"]

Computing == DOMAIN Counterpart \cup {Counterpart[name] : name \in DOMAIN Counterpart}

ShiftsByImmediate == {"slli", "srli", "srai"}

DatapathInit ==
  instruction = {} /\ assembled = "" /\ handler = "" /\ a = 0 /\ b = 0 /\ rd = 0 /\ twin = 0

Idle == instruction = {} /\ handler = ""

\* A word of one of the encodings, with up to two of its operand bits set.
Fetch ==
  /\ Idle
  /\ \E p \in D!Patterns : \E i, j \in (D!Bit \ p.mask) \cup p.match :
       instruction' = p.match \cup {i, j} /\ assembled' = p.handler
  /\ UNCHANGED <<handler, a, b, rd, twin>>

Execute ==
  /\ Idle
  /\ handler' \in Computing
  /\ a' \in Words
  /\ b' \in IF handler' \in ShiftsByImmediate THEN 0 .. XLEN - 1 ELSE Words
  /\ rd' = Result(handler', a', b')
  /\ twin' = IF handler' \in DOMAIN Counterpart THEN Result(Counterpart[handler'], a', b') ELSE rd'
  /\ UNCHANGED <<instruction, assembled>>

DatapathNext == Fetch \/ Execute

DatapathSpec == DatapathInit /\ [][DatapathNext]_datapathVars

=============================================================================
