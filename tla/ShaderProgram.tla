--------------------------- MODULE ShaderProgram ----------------------------
(***************************************************************************)
(* Direct3D 9 shader bytecode, dword by dword, and the program that the    *)
(* viewer's parser makes of it.                                            *)
(*                                                                         *)
(* A dword is an opcode, a register, a semantic of a declaration, the      *)
(* address register of a relative operand, a comment with its length, or   *)
(* an opcode that is none of these.                                        *)
(* What a parser that is out of step sees in it is modelled as well: the   *)
(* low bits of a register or a semantic are read as an opcode and the      *)
(* other way round.  Of a dword that is read as a register and is none,    *)
(* only what the parser looks at is given: type, number and whether it is  *)
(* relative.  Immediate values are zero, which is also the opcode nop.     *)
(***************************************************************************)
EXTENDS Integers, Sequences, FiniteSets

\* Opcodes by the number of their source operands, and their encoding.
NoSource == {"nop", "texkill"}
OneSource == {"mov", "rcp", "rsq", "exp", "log", "lit", "frc", "abs", "nrm",
              "sincos", "mova"}
TwoSources == {"add", "sub", "mul", "dp3", "dp4", "min", "max", "slt", "sge",
               "dst", "m4x4", "m4x3", "m3x4", "m3x3", "m3x2", "pow", "crs",
               "texld", "texldl"}
ThreeSources == {"mad", "lrp", "sgn", "cmp", "dp2add"}
Arithmetic == NoSource \cup OneSource \cup TwoSources \cup ThreeSources

Compares == {"ifc", "breakc"}
Tests == {"rep", "if"}
Bare == {"else", "endif", "endrep", "break"}
Defs == {"def", "defi", "defb"}

Encoding ==
  [nop |-> 0, mov |-> 1, add |-> 2, sub |-> 3, mad |-> 4, mul |-> 5,
   rcp |-> 6, rsq |-> 7, dp3 |-> 8, dp4 |-> 9, min |-> 10, max |-> 11,
   slt |-> 12, sge |-> 13, exp |-> 14, log |-> 15, lit |-> 16, dst |-> 17,
   lrp |-> 18, frc |-> 19, m4x4 |-> 20, m4x3 |-> 21, m3x4 |-> 22,
   m3x3 |-> 23, m3x2 |-> 24, dcl |-> 31, pow |-> 32, crs |-> 33, sgn |-> 34,
   abs |-> 35, nrm |-> 36, sincos |-> 37, rep |-> 38, endrep |-> 39,
   if |-> 40, ifc |-> 41, else |-> 42, endif |-> 43, break |-> 44,
   breakc |-> 45, mova |-> 46, texkill |-> 65, texld |-> 66, texldl |-> 67,
   def |-> 81, defi |-> 82, defb |-> 83, cmp |-> 88, dp2add |-> 90,
   end |-> 65535]

SrcCount(op) ==
  CASE op \in NoSource -> 0 [] op \in OneSource -> 1
    [] op \in TwoSources -> 2 [] op \in ThreeSources -> 3

HasDst(op) == op \in Arithmetic \ {"nop"}

\* Register types whose code has no bits among those of an opcode; those of
\* colour and depth outputs, samplers, flags and the position have.
LowTypes == {"temp", "input", "const", "addr", "rastout", "attrout",
             "output", "constint"}

Components == 0..3
Identity == [c \in Components |-> c]

Dword(op) == [is |-> "op", op |-> op]
Reg(r) == [is |-> "reg", reg |-> r]
Zero == Dword("nop")

\* What a dword can be.  A sampler has its dimensions in place of a usage.
RegisterTypes ==
  LowTypes \cup {"colorout", "depthout", "sampler", "constbool", "misctype", "other"}
Modifiers ==
  {"none", "negate", "bias", "bias_neg", "sign", "sign_neg", "complement", "x2",
   "x2_neg", "dz", "dw", "abs", "abs_neg", "not"}
Registers ==
  [type : RegisterTypes, number : 0..2047, mask : SUBSET Components,
   swizzle : [Components -> Components], relative : BOOLEAN, mod : Modifiers]
UsageNumber ==
  [position |-> 0, blendweight |-> 1, blendindices |-> 2, normal |-> 3,
   psize |-> 4, texcoord |-> 5, tangent |-> 6, binormal |-> 7,
   tessfactor |-> 8, positiont |-> 9, color |-> 10, fog |-> 11, depth |-> 12,
   sample |-> 13]
DclUsages == DOMAIN UsageNumber \cup {"2d", "cube", "volume"}
Dwords ==
  [is : {"op"}, op : DOMAIN Encoding] \cup [is : {"reg"}, reg : Registers] \cup
  [is : {"sem"}, usage : DclUsages, index : 0..15] \cup
  [is : {"comment"}, len : Nat] \cup [is : {"rel", "other"}]

\* The low 16 bits of a dword.  NoOpcode stands for all that are not an opcode,
\* and the dimensions of a sampler are above a usage of 0.
NoOpcode == 2048

LowBits(d) ==
  CASE d.is = "op" -> Encoding[d.op]
    [] d.is = "sem" ->
         IF d.usage \in DOMAIN UsageNumber THEN UsageNumber[d.usage] ELSE 0
    [] d.is = "reg" ->
         IF d.reg.type \in LowTypes /\ ~d.reg.relative THEN d.reg.number ELSE NoOpcode
    [] d.is = "rel" -> 0
    [] d.is = "comment" -> 65534
    [] d.is = "other" -> NoOpcode

\* The opcode in a dword.
Opcode(d) ==
  LET ops == {op \in DOMAIN Encoding : Encoding[op] = LowBits(d)} IN
  CASE d.is = "op" -> d.op
    [] d.is = "comment" -> "comment"
    [] OTHER -> IF ops = {} THEN "unknown" ELSE CHOOSE op \in ops : TRUE

\* decode_dst and decode_src: the register in a dword.  The bits of a sampler's
\* dimensions are among those of a type.
Register(d) ==
  LET full == d.is = "comment" \/ d = Dword("end") IN
  IF d.is = "reg" THEN d.reg
  ELSE [type |-> CASE full -> "other"
                   [] d.is = "rel" -> "addr"
                   [] d.is = "sem" /\ d.usage \in {"2d", "cube"} -> "input"
                   [] d.is = "sem" /\ d.usage = "volume" -> "const"
                   [] OTHER -> "temp",
        number |-> LowBits(d) % 2048,
        mask |-> {}, swizzle |-> [c \in Components |-> 0],
        relative |-> full, mod |-> "none"]

\* A sequence of x if a condition holds, and an empty one otherwise.
When(condition, x) == IF condition THEN <<x>> ELSE <<>>

\* A program before anything of it is parsed.
EmptyProgram(type, major) ==
  [type |-> type, major |-> major, insts |-> <<>>, dcls |-> <<>>,
   defs |-> <<>>, maxTemp |-> 0, maxConst |-> 0, inputs |-> {},
   outputs |-> {}, samplers |-> {}, attrouts |-> {}, position |-> FALSE,
   fog |-> FALSE, depth |-> FALSE, colors |-> 0]
=============================================================================
