----------------------------- MODULE ShaderEmit -----------------------------
(***************************************************************************)
(* d3d9_shader_emit_msl.c: the names, declarations and statements of the   *)
(* Metal function that a parsed program becomes.                           *)
(*                                                                         *)
(* An expression for one component is a record of the register's name, the *)
(* component and the modifier; a vector is the sequence of its components, *)
(* and <<>> is an expression that the Metal compiler refuses.              *)
(***************************************************************************)
EXTENDS ShaderProgram, SequencesExt

IsVs(p) == p.type = "vs"

\* How many components a mask has; an empty one is taken for all of them, which
\* is how a register is declared but not how it is written to.
Width(mask) == IF mask = {} THEN 4 ELSE Cardinality(mask)

DclsOf(p, type, number) ==
  FlattenSeq([i \in DOMAIN p.dcls |->
    LET reg == p.dcls[i].reg IN
    When(reg.type = type /\ reg.number = number, p.dcls[i])])

\* The interpolant that is the position on the screen.
IsPosition(dcl) == dcl.usage = "position" /\ dcl.index = 0

-----------------------------------------------------------------------------
\* Names and sources.

Name(p, r) ==
  LET n == r.number IN
  CASE r.type = "temp" -> <<"r", n>>
    [] r.type = "input" -> <<"in.v", n>>
    [] r.type = "const" ->
         <<IF r.relative THEN "c[a0]"
           ELSE IF <<"const", n>> \in ToSet(p.defs) THEN "c_def" ELSE "c", n>>
    [] r.type = "addr" -> <<IF IsVs(p) THEN "a" ELSE "in.t", n>>
    [] r.type = "rastout" ->
         <<CASE n = 0 -> "out.position" [] n = 1 -> "out.fog"
             [] OTHER -> "out.pointsize", 0>>
    [] r.type = "attrout" -> <<"out.oD", n>>
    [] r.type = "output" ->
         LET dcls == DclsOf(p, "output", n) IN
         IF IsVs(p) /\ p.major < 3 THEN <<"out.oT", n>>
         ELSE IF IsVs(p) /\ dcls # <<>> /\ IsPosition(Head(dcls))
           THEN <<"out.position", 0>>
         ELSE <<"out.o", n>>
    [] r.type = "colorout" -> <<"oC", n>>
    [] r.type = "depthout" -> <<"oDepth", 0>>
    [] r.type = "sampler" -> <<"s", n>>
    [] r.type = "constint" -> <<"i", n>>
    [] r.type = "constbool" -> <<"b", n>>
    [] r.type = "misctype" ->
         <<IF n = 0 THEN "in.position" ELSE "in.front_facing", 0>>
    [] OTHER -> <<"UNKNOWN", n>>

\* What a register's name stands for in the text.
NamesIn(p, r) ==
  {Name(p, r)} \cup (IF Name(p, r)[1] = "c[a0]" THEN {<<"a", 0>>} ELSE {})

\* reg_available_width: of a vertex shader's input as it was declared last.
AvailableWidth(p, r) ==
  LET dcls == DclsOf(p, "input", r.number) IN
  IF IsVs(p) /\ r.type = "input" /\ dcls # <<>>
    THEN Width(Last(dcls).reg.mask) ELSE 4

\* How many components the variable in the text has; a float has only itself.
Extent(p, r) ==
  IF Name(p, r)[1] \in {"out.fog", "oDepth", "in.front_facing"}
    THEN 1 ELSE AvailableWidth(p, r)

\* The one float whose component is not asked for.
IsFace(r) == r.type = "misctype" /\ r.number = 1

\* src_component_expr: what the swizzle has at place i.
Component(p, r, i) ==
  LET c == r.swizzle[i] IN
  IF c >= AvailableWidth(p, r)
    THEN [name |-> <<"0.0", 0>>, comp |-> 0, mod |-> r.mod]
    ELSE [name |-> Name(p, r), comp |-> IF IsFace(r) THEN 0 ELSE c, mod |-> r.mod]

\* Whether that compiles: a float has no .x, and the modifiers that divide by a
\* component need it.
Compiles(p, r, i) ==
  /\ r.swizzle[i] >= AvailableWidth(p, r) \/ Extent(p, r) > 1 \/ IsFace(r)
  /\ r.mod = "dz" => Extent(p, r) > 2
  /\ r.mod = "dw" => Extent(p, r) > 3

\* src_expr_width: the first components of a source.
Source(p, r, width) == [i \in 1..width |-> Component(p, r, i - 1)]

-----------------------------------------------------------------------------
\* The length of the text of an operand of four components, for which there is
\* a buffer of 128 characters: what does not fit is cut off.

OperandSize == 128

Digits(n) == IF n < 10 THEN 1 ELSE IF n < 100 THEN 2 ELSE IF n < 1000 THEN 3 ELSE 4

NameLength(name) ==
  LET base == name[1]
      digits == Digits(name[2])
  IN  CASE base \in {"r", "a", "i", "b", "s"} -> 1 + digits
        [] base = "oC" -> 2 + digits
        [] base = "c" -> 3 + digits          \* c[7]
        [] base \in {"in.v", "in.t"} -> 4 + digits
        [] base = "out.o" -> 5 + digits
        [] base \in {"c_def", "out.oD", "out.oT"} -> 6 + digits
        [] base = "UNKNOWN" -> 10 + digits   \* UNKNOWN19_7
        [] base = "c[a0]" -> 30 + digits     \* c[clamp(int(a0.x) + 7, 0, 255)]
        [] base = "oDepth" -> 6
        [] base = "out.fog" -> 7
        [] base = "in.position" -> 11
        [] base = "out.position" -> 12
        [] base = "out.pointsize" -> 13
        [] base = "in.front_facing" -> 30    \* (in.front_facing ? 1.0 : -1.0)

\* What a modifier puts around a component of a name of that length.
ModifierLength(mod, length) ==
  CASE mod = "none" -> 0
    [] mod = "negate" -> 3
    [] mod = "abs" -> 5
    [] mod \in {"bias", "complement", "x2", "abs_neg", "not"} -> 8
    [] mod = "x2_neg" -> 9
    [] mod = "bias_neg" -> 11
    [] mod = "sign" -> 16
    [] mod = "sign_neg" -> 17
    [] mod \in {"dz", "dw"} -> 7 + length

ComponentLength(p, r, i, length) ==
  ModifierLength(r.mod, length) +
  (IF r.swizzle[i] >= AvailableWidth(p, r) THEN 3
   ELSE IF IsFace(r) THEN length ELSE 2 + length)

\* float4(, , , ) and the end of the string.
TooLong(p, r) ==
  LET L(i) == ComponentLength(p, r, i, NameLength(Name(p, r)))
  IN  14 + L(0) + L(1) + L(2) + L(3) >= OperandSize

-----------------------------------------------------------------------------
\* The right-hand side of an assignment.

Elementwise == {"mov", "add", "sub", "mul", "mad", "min", "max", "frc",
                "abs", "lrp", "sgn", "mova"}
Selects == {"slt", "sge", "cmp"}
Scalars == {"dp3", "dp4", "dp2add", "rcp", "rsq", "exp", "log", "pow"}
Matrices == {"m4x4", "m4x3", "m3x4", "m3x3", "m3x2"}
Sampled == {"texld", "texldl"}

\* How many operands of an instruction are read: two of sgn are scratch.
Operands(inst) ==
  IF inst.op = "sgn" THEN SubSeq(inst.src, 1, 1) ELSE inst.src

\* Each component from the same component of the operands.
EachComponent(p, inst, width) ==
  LET src == Operands(inst) IN
  [i \in 1..width |->
     <<inst.op>> \o [j \in DOMAIN src |-> Component(p, src[j], i - 1)]]

\* The components of each operand that a scalar is made of.
ScalarWidth(op) ==
  CASE op = "dp3" -> 3 [] op = "dp4" -> 4 [] op = "dp2add" -> 2 [] OTHER -> 1

ScalarValue(p, inst) ==
  <<inst.op>> \o [j \in DOMAIN inst.src |->
     Source(p, inst.src[j],
            IF inst.op = "dp2add" /\ j = 3 THEN 1 ELSE ScalarWidth(inst.op))]

\* Of a pixel shader's first 16 samplers; in a vertex shader all are flat.
SamplerWidth(p, n) ==
  LET dcls == DclsOf(p, "sampler", n) IN
  IF /\ ~IsVs(p) /\ n < 16
     /\ dcls # <<>> /\ Last(dcls).usage \in {"cube", "volume"}
    THEN 3 ELSE 2

\* A matrix is the constants from the register on, immediate ones left aside.
MatrixRows(op) == CASE op \in {"m4x4", "m3x4"} -> 4
                    [] op \in {"m4x3", "m3x3"} -> 3 [] op = "m3x2" -> 2
MatrixColumns(op) == IF op \in {"m4x4", "m4x3"} THEN 4 ELSE 3
Row(inst, i) == <<"c", inst.src[2].number + i - 1>>

\* The operations that give all four components.
Vector4(p, inst) ==
  LET op == inst.op
      src == inst.src
      At(j, i) == Component(p, src[j], i)
      V(j, width) == Source(p, src[j], width)
  IN  CASE op = "nrm" -> [i \in 1..4 |-> <<"nrm", i, V(1, 3)>>]
        [] op = "crs" -> [i \in 1..4 |-> <<"crs", i, V(1, 3), V(2, 3)>>]
        [] op = "dst" -> <<<<"1.0">>, <<"mul", At(1, 1), At(2, 1)>>,
                           <<"mov", At(1, 2)>>, <<"mov", At(2, 3)>>>>
        [] op = "lit" -> [i \in 1..4 |-> <<"lit", i, V(1, 4)>>]
        [] op \in Matrices ->
             [i \in 1..4 |->
                IF i <= MatrixRows(op)
                  THEN <<"dot", V(1, MatrixColumns(op)), Row(inst, i)>>
                ELSE IF i = 4 THEN <<"1.0">> ELSE <<"0.0">>]
        [] op = "texld" ->
             [i \in 1..4 |-> <<"sample", i, src[2].number,
                               V(1, SamplerWidth(p, src[2].number))>>]
        [] op = "texldl" ->
             [i \in 1..4 |-> <<"level", i, src[2].number, At(1, 3),
                               V(1, SamplerWidth(p, src[2].number))>>]

\* The depth is one number, whatever the mask.
Written(dst) == IF dst.type = "depthout" THEN {0} ELSE dst.mask

DstWidth(inst) == IF inst.dst.type = "depthout" THEN 1 ELSE Width(inst.dst.mask)

\* The right-hand side for a destination of that many components.
Rhs(p, inst, width) ==
  CASE inst.op \in Elementwise \cup Selects -> EachComponent(p, inst, width)
    [] inst.op \in Scalars -> <<ScalarValue(p, inst)>>
    [] OTHER -> Vector4(p, inst)

IsScalar(inst) ==
  \/ inst.op \in Scalars
  \/ inst.op \in Elementwise /\ DstWidth(inst) = 1

Replicated(r) == \A c \in Components : r.swizzle[c] = r.swizzle[0]

\* (rhs).xyz of a vector; a scalar has no components to take.
Truncate(rhs, width) ==
  IF Len(rhs) = 1 \/ Len(rhs) < width THEN <<>> ELSE SubSeq(rhs, 1, width)

\* Mistaken: a vector is never cut down to the mask.
FittedAsItIs(p, inst) ==
  LET rhs == Rhs(p, inst, DstWidth(inst)) IN
  IF IsScalar(inst) THEN [i \in 1..DstWidth(inst) |-> rhs[1]] ELSE rhs

\* A scalar is repeated, a vector cut down to the mask, unless its operands
\* are scalars or the statement is assembled in a block.
CutDown(inst) ==
  /\ ~IsScalar(inst) /\ DstWidth(inst) < 4
  /\ \E i \in DOMAIN inst.src : ~Replicated(inst.src[i])

FittedTo(inst, rhs) ==
  IF inst.op \in Matrices \cup {"lit"} THEN rhs
  ELSE IF IsScalar(inst) THEN [i \in 1..DstWidth(inst) |-> rhs[1]]
  ELSE IF CutDown(inst) THEN Truncate(rhs, DstWidth(inst)) ELSE rhs

Fitted(p, inst) ==
  FittedTo(inst, Rhs(p, inst, IF inst.op \in Selects THEN Width(inst.dst.mask)
                                                     ELSE DstWidth(inst)))

\* What stands left of the = compiles: a mask that is empty is written as a dot
\* with nothing behind it, one of all components as nothing.  Constants of the
\* game cannot be assigned to, and a float has no components: the depth is
\* assigned to as a whole, the fog never.
Fits(p, dst) ==
  /\ dst.mask # {}
  /\ Name(p, dst)[1] \notin {"c", "c[a0]"}
  /\ IF dst.type = "depthout" THEN dst.mask = Components
     ELSE Extent(p, dst) > 1 /\ \A c \in dst.mask : c < Extent(p, dst)

\* The places of operand j's swizzle that are in the text.
PlacesRead(p, inst, j) ==
  LET op == inst.op IN
  CASE op \in Elementwise -> 0..(DstWidth(inst) - 1)
    [] op \in Selects -> 0..(Width(inst.dst.mask) - 1)
    [] op \in Scalars ->
         0..((IF op = "dp2add" /\ j = 3 THEN 1 ELSE ScalarWidth(op)) - 1)
    [] op \in {"nrm", "crs"} -> 0..2
    [] op = "dst" -> IF j = 1 THEN {1, 2} ELSE {1, 3}
    [] op \in Sampled ->
         IF j = 2 THEN {}
         ELSE 0..(SamplerWidth(p, inst.src[2].number) - 1)
              \cup (IF op = "texldl" THEN {3} ELSE {})
    [] op \in Matrices \cup {"lit"} -> IF j = 1 THEN Components ELSE {}

\* An operand that was cut has lost the end of its brackets.
OperandsCompile(p, inst) ==
  /\ \A j \in DOMAIN Operands(inst) : \A i \in PlacesRead(p, inst, j) :
       Compiles(p, inst.src[j], i)
  /\ inst.op \in Matrices \cup {"lit"} => ~TooLong(p, inst.src[1])

\* The place of a component among those of a mask.
Rank(mask, c) == Cardinality({d \in mask : d <= c})

\* What an assignment leaves in each component, <<>> if it does not compile.
Assigns(p, inst, value) ==
  IF \/ Len(value) # DstWidth(inst)
     \/ ~Fits(p, inst.dst) \/ ~OperandsCompile(p, inst)
    THEN <<>>
  ELSE [c \in Written(inst.dst) |-> value[Rank(Written(inst.dst), c)]]

Assigned(p, inst) == Assigns(p, inst, Fitted(p, inst))

\* sincos assigns each component in a statement of its own.
SinCos(p, inst) ==
  [c \in inst.dst.mask |->
     CASE c = 0 -> <<"cos", Source(p, inst.src[1], 1)>>
       [] c = 1 -> <<"sin", Source(p, inst.src[1], 1)>>
       [] OTHER -> <<"0.0">>]

-----------------------------------------------------------------------------
\* emit_instruction: the lines of an instruction, with the names in them.

Line(text) == [text |-> text, dst |-> <<"", 0>>, value |-> <<>>, names |-> {}]

\* A texture is named by the number of its operand, whatever that is.
NamesRead(p, inst, j) ==
  IF inst.op \in Sampled /\ j = 2 THEN {<<"tex", inst.src[2].number>>}
  ELSE NamesIn(p, inst.src[j])

Assignment(p, inst, value) ==
  [text |-> "assign", dst |-> Name(p, inst.dst), value |-> value,
   names |-> {Name(p, inst.dst)} \cup
             UNION {NamesRead(p, inst, j) : j \in DOMAIN Operands(inst)}]

\* In a block the operand has been assigned before, or as much of it as there
\* was room for.
InBlock(p, inst) ==
  [Assignment(p, inst, Assigned(p, inst)) EXCEPT !.names = {Name(p, inst.dst)}]

Kept(p, r) ==
  [text |-> IF TooLong(p, r) THEN "unclosed" ELSE "operand", dst |-> <<"", 0>>,
   value |-> IF TooLong(p, r) THEN <<>> ELSE Source(p, r, 4), names |-> NamesIn(p, r)]

Condition(p, inst, text) ==
  [Line(text) EXCEPT
     !.names = UNION {NamesIn(p, inst.src[i]) : i \in DOMAIN inst.src}]

Lines(p, inst) ==
  LET op == inst.op IN
  CASE op = "nop" -> <<>>
    [] op = "sincos" ->
         [i \in 1..Cardinality(inst.dst.mask) |->
            Assignment(p, inst, SinCos(p, inst))]
    [] op = "lit" ->
         <<Line("{"), Kept(p, inst.src[1]), Line("_d"), Line("_s"),
           InBlock(p, inst), Line("}")>>
    [] op \in Matrices ->
         <<Line("{"), Kept(p, inst.src[1]), InBlock(p, inst), Line("}")>>
    [] op = "texkill" -> <<[Line("discard") EXCEPT !.names = {Name(p, inst.dst)}]>>
    [] op \in {"ifc", "if", "rep"} -> <<Condition(p, inst, "{")>>
    [] op = "breakc" -> <<Condition(p, inst, "break")>>
    [] op = "break" -> <<Line("break")>>
    [] op = "else" -> <<Line("} else {")>>
    [] op \in {"endif", "endrep"} -> <<Line("}")>>
    [] OTHER -> <<Assignment(p, inst, Assigned(p, inst))>>

-----------------------------------------------------------------------------
\* The declarations.

\* usage_to_attr_idx: the elements of a vertex in the order of attributes.
\* Mistaken: the second colour comes before the second coordinate.
AttributesSwapped ==
  <<<<"position", 0>>, <<"color", 0>>, <<"texcoord", 0>>, <<"normal", 0>>,
    <<"tangent", 0>>, <<"binormal", 0>>, <<"blendweight", 0>>,
    <<"blendindices", 0>>, <<"color", 1>>, <<"texcoord", 1>>,
    <<"texcoord", 2>>, <<"texcoord", 3>>, <<"texcoord", 4>>, <<"texcoord", 5>>>>

Attributes ==
  <<<<"position", 0>>, <<"color", 0>>, <<"texcoord", 0>>, <<"normal", 0>>,
    <<"tangent", 0>>, <<"binormal", 0>>, <<"blendweight", 0>>,
    <<"blendindices", 0>>, <<"texcoord", 1>>, <<"color", 1>>,
    <<"texcoord", 2>>, <<"texcoord", 3>>, <<"texcoord", 4>>, <<"texcoord", 5>>>>

Unmapped == -1
AttributeIndex(usage, index) ==
  LET element == <<IF usage = "positiont" THEN "position" ELSE usage, index>>
  IN  IF element \in ToSet(Attributes)
        THEN (CHOOSE i \in DOMAIN Attributes : Attributes[i] = element) - 1
        ELSE Unmapped

\* semantic_user_name
UserName(dcl) ==
  <<IF dcl.usage \in {"texcoord", "color", "normal", "fog", "position",
                      "tangent", "binormal", "blendweight", "blendindices"}
      THEN dcl.usage ELSE "attr", dcl.index>>

\* A declared name and, in a stage's input or output, what it links to.
Declared(name, link) ==
  [text |-> "declare", dst |-> name, value |-> link, names |-> {}]
Local(name) == Declared(name, <<>>)

\* The declarations of those entries of the program that a test accepts.
DeclareDcls(p, type, Test(_), base, Link(_)) ==
  FlattenSeq([i \in DOMAIN p.dcls |->
    LET d == p.dcls[i] IN
    When(d.reg.type = type /\ Test(d), Declared(<<base, d.reg.number>>, Link(d)))])

Every(d) == TRUE
NoLink(d) == <<>>

\* The same for numbers, from 0 to a limit.
DeclareEach(base, limit, numbers, Link(_)) ==
  FlattenSeq([i \in 1..(limit + 1) |->
    When(i - 1 \in numbers, Declared(<<base, i - 1>>, Link(i - 1)))])

\* Temporaries and the constants that the program defines.
Variables(p) ==
  DeclareEach("r", p.maxTemp, Nat, NoLink) \o
  [i \in DOMAIN p.defs |->
     Local(<<CASE p.defs[i][1] = "const" -> "c_def"
               [] p.defs[i][1] = "constint" -> "i"
               [] p.defs[i][1] = "constbool" -> "b", p.defs[i][2]>>)]

\* Mistaken: an address register that mov writes is not counted.
UsesAddressOfMova(p) == \E i \in DOMAIN p.insts : p.insts[i].op = "mova"

UsesAddress(p) ==
  \E i \in DOMAIN p.insts : \/ p.insts[i].dst.type = "addr"
                            \/ p.insts[i].op = "mova"

\* dx9mt_msl_emit_vs
VsInputs(p) ==
  DeclareDcls(p, "input",
              LAMBDA d : AttributeIndex(d.usage, d.index) # Unmapped, "in.v",
              LAMBDA d : <<AttributeIndex(d.usage, d.index)>>)

VsOutputs(p) ==
  <<Local(<<"out.position", 0>>)>> \o
  (IF p.major >= 3
     THEN DeclareDcls(p, "output", LAMBDA d : ~IsPosition(d), "out.o", UserName)
     ELSE DeclareEach("out.oD", 1, p.attrouts, LAMBDA n : <<"color", n>>)
          \o DeclareEach("out.oT", 7, p.outputs,
                         LAMBDA n : <<"texcoord", n>>)) \o
  (IF p.fog THEN <<Local(<<"out.fog", 0>>)>> ELSE <<>>)

VsDeclarations(p) ==
  VsInputs(p) \o VsOutputs(p) \o Variables(p) \o
  (IF UsesAddress(p) THEN <<Local(<<"a", 0>>)>> ELSE <<>>)

\* dx9mt_msl_emit_ps: before version 3 v# are colours and t# coordinates.
PsInputs(p) ==
  <<Local(<<"in.position", 0>>)>> \o
  (IF p.major >= 3 THEN DeclareDcls(p, "input", Every, "in.v", UserName)
   ELSE DeclareDcls(p, "input", Every, "in.v",
                    LAMBDA d : <<"color", d.reg.number>>) \o
        DeclareDcls(p, "addr", Every, "in.t",
                    LAMBDA d : <<"texcoord", d.reg.number>>)) \o
  (IF \E i \in DOMAIN p.dcls : /\ p.dcls[i].reg.type = "misctype"
                               /\ p.dcls[i].reg.number = 1
     THEN <<Local(<<"in.front_facing", 0>>)>> ELSE <<>>)

PsDeclarations(p) ==
  PsInputs(p) \o DeclareDcls(p, "sampler", Every, "tex", NoLink) \o Variables(p)
  \o DeclareEach("oC", p.colors - 1, Nat, NoLink) \o
  (IF p.depth THEN <<Local(<<"oDepth", 0>>)>> ELSE <<>>)

Declarations(p) == IF IsVs(p) THEN VsDeclarations(p) ELSE PsDeclarations(p)
=============================================================================
