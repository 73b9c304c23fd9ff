------------------------ MODULE MCShaderTranslation -------------------------
(***************************************************************************)
(* Shaders for TLC: every operation with every mask; a few streams cut off *)
(* at every length; and every short sequence of declarations, constants    *)
(* and instructions that touch the names and the blocks.                   *)
(***************************************************************************)
EXTENDS ShaderTranslation

\* Operands.
R(type, number) ==
  [type |-> type, number |-> number, mask |-> Components,
   swizzle |-> Identity, relative |-> FALSE, mod |-> "none"]
Temp(n) == R("temp", n)
Const(n) == R("const", n)
Masked(r, mask) == [r EXCEPT !.mask = mask]
All(r, c) == [r EXCEPT !.swizzle = [i \in Components |-> c]]
Turned(r) == [r EXCEPT !.swizzle = [i \in Components |-> (i + 1) % 4],
                       !.mod = "negate"]
Doubled(r) == [r EXCEPT !.swizzle[0] = 1]
Relative(r) == [r EXCEPT !.relative = TRUE]

\* Units: the dwords of an instruction.
Rel == [is |-> "rel"]
OperandOf(r) == IF r.relative THEN <<Reg(r), Rel>> ELSE <<Reg(r)>>
I(op, regs) == <<Dword(op)>> \o FlattenSeq([i \in DOMAIN regs |-> OperandOf(regs[i])])
DclOf(usage, index, r) ==
  <<Dword("dcl"), [is |-> "sem", usage |-> usage, index |-> index], Reg(r)>>
DefOf(op, r) ==
  <<Dword(op), Reg(r)>> \o [i \in 1..(IF op = "defb" THEN 1 ELSE 4) |-> Zero]
CommentOf(payload) == <<[is |-> "comment", len |-> Len(payload)]>> \o payload
End1 == <<Dword("end")>>

Length(units) == 1 + Len(FlattenSeq(units))
ShaderOf(type, major, units) ==
  [type |-> type, stage |-> type, major |-> major, units |-> units,
   count |-> Length(units)]

-----------------------------------------------------------------------------
\* Every operation, on a mask, with sources of one kind.
Sources(kind) ==
  CASE kind = "vectors" -> <<Temp(1), Const(2), Turned(Temp(3))>>
    [] kind = "scalars" -> <<All(Temp(1), 3), All(Const(2), 0), All(Temp(3), 1)>>
    [] kind = "doubled" -> <<Doubled(Temp(1)), Const(2), Turned(Temp(3))>>

SourcesOf(op, kind) ==
  IF op \in {"texld", "texldl"} THEN <<Sources(kind)[1], R("sampler", 0)>>
  ELSE IF op \in Matrices THEN <<Sources(kind)[1], Const(4)>>
  ELSE SubSeq(Sources(kind), 1, SrcCount(op))

Operation(op, mask, kind) ==
  <<DclOf("2d", 0, R("sampler", 0)),
    I(op, <<Masked(Temp(0), mask)>> \o SourcesOf(op, kind)), End1>>

OperationShaders(ops, masks) ==
  {ShaderOf("ps", 3, Operation(op, mask, kind)) :
     op \in ops, mask \in masks, kind \in {"vectors", "scalars", "doubled"}}

\* Inputs of every meaning.
Usages == {"position", "positiont", "color", "texcoord", "normal", "tangent",
           "binormal", "blendweight", "blendindices", "psize"}
InputShaders ==
  {ShaderOf("vs", 3,
     <<DclOf(usage, index, Masked(R("input", 1), mask)),
       I("mov", <<Temp(0), R("input", 1)>>), End1>>) :
     usage \in Usages, index \in 0..6, mask \in {Components, {0, 1}}}

\* Operands that are floats or have too few components, and long ones.
NarrowShaders ==
  {ShaderOf("vs", 3,
     <<DclOf("texcoord", 0, Masked(R("input", 1), mask)),
       I(op, <<Temp(0), r>>), End1>>) :
     op \in {"mov", "lit"}, mask \in {Components, {0, 1}, {0}, {1}},
     r \in {R("input", 1), All(R("input", 1), 0), All(R("input", 1), 1),
            [All(R("input", 1), 0) EXCEPT !.mod = "dz"],
            [All(R("input", 1), 0) EXCEPT !.mod = "dw"]}} \cup
  {ShaderOf("ps", 3,
     <<DclOf("position", 0, R("misctype", 1)), I(op, <<Masked(Temp(0), mask), r>>), End1>>) :
     op \in {"mov", "lit"}, mask \in {Components, {0}},
     r \in {R("misctype", 0), R("misctype", 1), [R("misctype", 0) EXCEPT !.mod = "sign"]}}

LongShaders ==
  {ShaderOf("vs", 3,
     <<I("mova", <<R("addr", 0), Temp(1)>>),
       I(op, <<Temp(0), r, Const(4)>>), End1>>) :
     op \in {"m4x4", "m3x2", "add"}, r \in {Const(255), Relative(Const(7))}} \cup
  {ShaderOf("vs", 2,
     <<I("mov", <<R("rastout", 0), Temp(1)>>),
       I("lit", <<Temp(0), [R("rastout", 0) EXCEPT !.mod = mod]>>), End1>>) :
     mod \in Modifiers}

\* Outputs that are floats.
FloatShaders ==
  {ShaderOf("ps", 3,
     <<I(op, <<Masked(R("depthout", 0), mask), r>> \o When(op = "slt", Temp(2))), End1>>) :
     op \in {"mov", "slt", "rcp"}, mask \in {Components, {0}, {}},
     r \in {Temp(1), All(Temp(1), 1), R("depthout", 0)}} \cup
  {ShaderOf("vs", 2, <<I("mov", <<Masked(R("rastout", n), mask), Temp(1)>>), End1>>) :
     n \in 0..1, mask \in {Components, {0}}}

-----------------------------------------------------------------------------
\* Streams that end anywhere.
Streams ==
  {ShaderOf("vs", 3,
     <<DclOf("texcoord", 0, R("output", 1)), I("mova", <<R("addr", 0), Temp(1)>>),
       I("mov", <<Temp(2), Relative(Const(3))>>),
       I("mad", <<Relative(R("output", 1)), Temp(2), Relative(Const(1)), Temp(0)>>),
       End1>>),
   ShaderOf("vs", 3,
     <<CommentOf(<<>>), CommentOf(<<Dword("end"), Dword("add")>>),
       DclOf("texcoord", 0, R("input", 2)), DefOf("def", Const(1)),
       DefOf("defi", R("constint", 0)), DefOf("defb", R("constbool", 0)),
       I("add", <<Temp(1), R("input", 2), Const(1)>>), End1>>),
   ShaderOf("ps", 3,
     <<I("rep", <<R("constint", 0)>>), I("breakc", <<Temp(1), Const(2)>>),
       I("endrep", <<>>), I("ifc", <<Temp(1), Const(1)>>), I("else", <<>>),
       I("texkill", <<Temp(1)>>), I("endif", <<>>), I("nop", <<>>), End1>>),
   ShaderOf("ps", 2, <<<<[is |-> "other"]>>, End1>>),
   [ShaderOf("vs", 2, <<End1>>) EXCEPT !.type = "other"]}

CutOff ==
  UNION {{[s EXCEPT !.count = n] : n \in 0..s.count} : s \in Streams}

\* A pixel shader where a vertex shader is expected.
WrongStage ==
  {[ShaderOf("ps", 3, <<I("mov", <<R("colorout", 0), Temp(0)>>), End1>>)
      EXCEPT !.stage = "vs"]}

\* Registers at the limits, and more than there is room for.
Limits ==
  {ShaderOf("ps", 3, [i \in 1..9 |-> I("nop", <<>>)] \o <<End1>>),
   ShaderOf("ps", 3, [i \in 1..4 |-> DclOf("2d", 0, R("sampler", i))] \o <<End1>>),
   ShaderOf("ps", 3, [i \in 1..4 |-> DefOf("def", Const(i))] \o <<End1>>),
   ShaderOf("vs", 3, [i \in 1..8 |-> I("lit", <<Temp(i), Temp(i)>>)] \o <<End1>>)}
  \cup
  {ShaderOf("ps", 3, <<DclOf("cube", 0, R("sampler", n)),
                      I("texld", <<Temp(0), Temp(1), R("sampler", n)>>), End1>>) :
     n \in {15, 16, 31, 32}} \cup
  {ShaderOf("ps", 3, <<DclOf("2d", 0, R("sampler", n)), End1>>) : n \in {32, 2047}}
  \cup
  {ShaderOf("ps", 3, <<I("mov", <<Temp(0), r>>), End1>>) :
     r \in {Temp(255), Temp(256), Const(255), Const(256), R("sampler", 32),
           R("input", 32)}} \cup
  {ShaderOf("vs", 2, <<I("mov", <<r, Temp(0)>>), End1>>) :
     r \in {R("rastout", 2), R("rastout", 3), R("attrout", 1), R("attrout", 32)}}
  \cup
  {ShaderOf("vs", 3, <<DclOf("color", 0, R(type, n)),
                      I("mov", IF type = "input" THEN <<Temp(0), R(type, n)>>
                                                 ELSE <<R(type, n), Temp(0)>>),
                      End1>>) :
     type \in {"input", "output"}, n \in {31, 32}}

-----------------------------------------------------------------------------
\* Sequences of units.
Common ==
  {DefOf("def", Const(1)), DefOf("defi", R("constint", 0)),
   I("mov", <<Temp(1), Const(1)>>), I("rep", <<R("constint", 0)>>),
   I("if", <<R("constbool", 0)>>)}

VsUnits(major) ==
  Common \cup
  {I("mov", <<R("addr", 0), Temp(0)>>), I("mova", <<R("addr", 0), Temp(0)>>)}
  \cup
  (IF major = 2
     THEN {I("mov", <<R("rastout", n), Temp(0)>>) : n \in 0..1} \cup
          {I("mov", <<R("attrout", 1), Temp(0)>>)}
     ELSE {})

PsUnits ==
  Common \cup
  {I("mov", <<R("colorout", 0), Temp(0)>>), I("mov", <<R("colorout", 1), Temp(2)>>),
   I("mov", <<R("depthout", 0), All(Temp(0), 0)>>),
   DclOf("cube", 0, R("sampler", 1)), CommentOf(<<Dword("end")>>),
   DclOf("position", 0, R("misctype", 1))}

\* What is declared in each shader of a kind, and used after it.
Frame(type, major, units) ==
  ShaderOf(type, major,
    (CASE type = "vs" /\ major = 3 ->
            <<DclOf("position", 0, R("output", 0)),
              DclOf("texcoord", 1, R("output", 3))>>
       [] type = "ps" /\ major = 3 -> <<DclOf("texcoord", 1, R("input", 3))>>
       [] type = "ps" /\ major = 2 -> <<DclOf("texcoord", 0, R("addr", 3))>>
       [] OTHER -> <<>>) \o units \o
    (CASE type = "vs" /\ major = 3 ->
            <<I("mov", <<R("output", 0), Temp(1)>>),
              I("mov", <<R("output", 3), Temp(1)>>)>>
       [] type = "vs" /\ major = 2 -> <<I("mov", <<R("output", 3), Temp(1)>>)>>
       [] type = "ps" /\ major = 3 -> <<I("mov", <<Temp(2), R("input", 3)>>)>>
       [] type = "ps" /\ major = 2 -> <<I("mov", <<Temp(2), R("addr", 3)>>)>>)
    \o <<End1>>)

Sequenced ==
  UNION {{Frame("vs", major, <<u, v>>) : u \in VsUnits(major), v \in VsUnits(major)} :
           major \in 2..3}
  \cup
  {Frame("ps", major, <<u, v>>) : major \in 2..3, u \in PsUnits, v \in PsUnits}

-----------------------------------------------------------------------------
AllMasks == SUBSET Components

MCShaders ==
  OperationShaders(Arithmetic \ {"nop", "texkill"}, AllMasks) \cup InputShaders
  \cup NarrowShaders \cup LongShaders \cup FloatShaders
  \cup CutOff \cup WrongStage \cup Limits \cup Sequenced

\* cmp with masks that leave out x.
MCCompares ==
  OperationShaders({"cmp"}, {m \in AllMasks : 0 \notin m /\ Cardinality(m) > 1})

\* What the theorem on Faithful asks for is true of these.
ASSUME MCWellFormed == WellFormedShaders
=============================================================================
