------------------------- MODULE ShaderTranslation --------------------------
(***************************************************************************)
(* The translation of one shader by the viewer: its bytecode is parsed,    *)
(* and if that succeeds a Metal function is written into a buffer of fixed *)
(* size, line by line.  A line that does not fit sets an error, after      *)
(* which nothing more is written.                                          *)
(***************************************************************************)
EXTENDS ShaderParse, ShaderEmit

CONSTANT MaxSource   \* DX9MT_MSL_MAX_SOURCE, in declarations and lines

ASSUME MaxSourceAssumption == MaxSource \in Nat

VARIABLES
  msl,     \* the lines written
  error,   \* one did not fit
  done     \* the instructions of the program gone through

vars == <<parseVars, msl, error, done>>

Init ==
  /\ ParseInit
  /\ msl = <<>>
  /\ error = FALSE
  /\ done = 0

Emit(lines) ==
  LET n == IF error THEN 0 ELSE Min({Len(lines), MaxSource - Len(msl)}) IN
  /\ msl' = msl \o SubSeq(lines, 1, n)
  /\ error' = (n < Len(lines) \/ error)

\* The shader of a stage must be of that stage.
Declare ==
  /\ status = "parsed"
  /\ IF shader.stage = prog.type
       THEN status' = "emitting" /\ Emit(Declarations(prog))
       ELSE status' = "failed" /\ UNCHANGED <<msl, error>>
  /\ UNCHANGED <<shader, pos, prog, done>>

EmitInstruction ==
  /\ status = "emitting" /\ done < Len(prog.insts)
  /\ Emit(Lines(prog, prog.insts[done + 1]))
  /\ done' = done + 1
  /\ UNCHANGED parseVars

\* Mistaken: the error of the buffer is not looked at.
FinishRegardless ==
  /\ status = "emitting" /\ done = Len(prog.insts)
  /\ status' = "translated"
  /\ UNCHANGED <<shader, pos, prog, msl, error, done>>

Finish ==
  /\ status = "emitting" /\ done = Len(prog.insts)
  /\ status' = IF error THEN "failed" ELSE "translated"
  /\ UNCHANGED <<shader, pos, prog, msl, error, done>>

Next ==
  \/ Parse /\ UNCHANGED <<msl, error, done>>
  \/ Declare \/ EmitInstruction \/ Finish

\* The thread that draws translates a shader before it goes on.
Spec == Init /\ [][Next]_vars /\ WF_vars(Next)

-----------------------------------------------------------------------------
Register32 == 0..31

\* The state is made of what the parser and the emitter can represent.  The
\* numbers of registers by which a bit is shifted are below 32, other than that
\* of a sampler where it is declared: that one is not looked at, and the result
\* not defined.  Only a line of the log depends on it.
TypeOK ==
  /\ pos \in Nat
  /\ status \in Statuses
  /\ prog.inputs \cup prog.outputs \cup prog.attrouts \subseteq Register32
  /\ \A n \in prog.samplers \ Register32 :
       \E d \in ToSet(prog.dcls) : d.reg.type = "sampler" /\ d.reg.number = n
  /\ prog.colors \in 0..32
  /\ prog.maxTemp \in 0..255 /\ prog.maxConst \in 0..255
  /\ Len(prog.insts) <= MaxInstructions
  /\ Len(prog.dcls) <= MaxDcl /\ Len(prog.defs) <= MaxDef
  /\ Len(msl) <= MaxSource /\ error \in BOOLEAN
  /\ done \in 0..Len(prog.insts)

Accepted == status \in {"parsed", "emitting", "translated"}

\* What was written: the registers of a unit, and its instruction.
Regs(unit) == FlattenSeq([i \in DOMAIN unit |-> When(unit[i].is = "reg", unit[i].reg)])

AsWritten(unit) ==
  LET op == Opcode(unit[1])
      regs == Regs(unit)
      dst == op \in Arithmetic \ {"nop"}
  IN  Instruction(op, IF dst THEN Head(regs) ELSE NoRegister,
                  IF dst THEN Tail(regs) ELSE regs)

\* What units say.
WrittenInsts(units) ==
  FlattenSeq([i \in DOMAIN units |->
    When(Opcode(units[i][1]) \in Arithmetic \cup Compares \cup Tests \cup Bare,
         AsWritten(units[i]))])

WrittenDcls(units) ==
  FlattenSeq([i \in DOMAIN units |->
    When(Opcode(units[i][1]) = "dcl",
         [usage |-> units[i][2].usage, index |-> units[i][2].index,
          reg |-> units[i][3].reg])])

WrittenDefs(units) ==
  {<<DefType(Opcode(u[1])), u[2].reg.number>> :
     u \in {v \in ToSet(units) : Opcode(v[1]) \in Defs}}

\* A program that is accepted is the one that was written: each instruction
\* with its own operands, each declaration and each constant, up to an end
\* within the dwords that belong to the shader.  A parser that takes one dword
\* too few or too many reads the rest as something else.
Faithful ==
  Accepted =>
    \E n \in DOMAIN shader.units :
      LET written == SubSeq(shader.units, 1, n) IN
      /\ \A i \in 1..n : Opcode(shader.units[i][1]) = "end" <=> i = n
      /\ pos = 1 + Len(FlattenSeq(written)) /\ pos <= shader.count
      /\ prog.insts = WrittenInsts(written)
      /\ prog.dcls = WrittenDcls(written)
      /\ ToSet(prog.defs) = WrittenDefs(written)

\* A unit that is written as the parser takes it: as many registers as the
\* opcode has operands, the address of a relative operand after it, and the
\* fixed layouts of declarations, constants and comments.
Indexed(d) == d.is = "reg" /\ d.reg.relative

WellFormed(unit) ==
  LET op == Opcode(unit[1])
      size == Len(unit)
      rest == 2..size
      registers(n) == size = 1 + n /\ \A j \in rest : unit[j].is = "reg"
  IN  /\ unit # <<>> /\ unit[1].is \in {"op", "comment", "other"}
      /\ op \in Arithmetic =>
           /\ \A j \in rest :
                /\ unit[j].is \in {"reg", "rel"}
                /\ unit[j].is = "rel" <=> Indexed(unit[j - 1])
           /\ ~Indexed(unit[size])
           /\ Len(Regs(unit)) = SrcCount(op) + (IF HasDst(op) THEN 1 ELSE 0)
      /\ op \in Compares => registers(2)
      /\ op \in Tests => registers(1)
      /\ op \in Bare => registers(0)
      /\ op = "dcl" => size = 3 /\ unit[2].is = "sem" /\ unit[3].is = "reg"
      /\ op \in Defs => /\ size = (IF op = "defb" THEN 3 ELSE 6)
                        /\ unit[2].is = "reg"
      /\ op = "comment" => size = 1 + unit[1].len
      /\ op = "end" => size = 1

WellFormedShaders ==
  \A s \in Shaders : \A i \in DOMAIN s.units : WellFormed(s.units[i])

\* A function that is handed to the compiler has all its declarations and all
\* its lines, or the buffer was too small and it is not handed over.  The
\* buffer of an operand is another matter: what does not fit into it is cut
\* off and the function handed over all the same, but then a line of it has
\* brackets left open, and no compiler takes it.
Cut(inst) == inst.op \in Matrices \cup {"lit"} /\ TooLong(prog, inst.src[1])

NothingLeftOut ==
  status = "translated" =>
    /\ msl = Declarations(prog) \o
             FlattenSeq([i \in DOMAIN prog.insts |-> Lines(prog, prog.insts[i])])
    /\ (\E inst \in ToSet(prog.insts) : Cut(inst)) <=>
         (\E line \in ToSet(msl) : line.text = "unclosed")

\* Every shader ends up translated or given up.
Settles == <>(status \in {"translated", "failed"})

DeclaredNames == {msl[i].dst : i \in {j \in DOMAIN msl : msl[j].text = "declare"}}
UsedNames == UNION {msl[i].names : i \in DOMAIN msl}

\* Names that even a correct shader uses and the emitter does not declare:
\* integers and flags that the game sets, the size of points, inputs whose
\* meaning has no attribute, textures of vertex shaders, and colour outputs
\* above the one that is written last.
KnownGap(name) ==
  \/ name[1] \in {"i", "b", "out.pointsize"}
  \/ IsVs(prog) /\ name[1] = "tex"
  \/ IsVs(prog) /\ name[1] = "in.v"
     /\ \E d \in ToSet(prog.dcls) :
          /\ d.reg.type = "input" /\ d.reg.number = name[2]
          /\ AttributeIndex(d.usage, d.index) = Unmapped
  \/ name[1] = "oC" /\ name[2] >= prog.colors

\* Every other name that a statement uses is declared: temporaries up to the
\* highest, the address register by whatever writes it, constants the shader
\* defines, outputs and textures it declares or writes.
UsedIsDeclared ==
  status = "translated" =>
    \A name \in UsedNames \ DeclaredNames :
      name[1] \in {"c", "c[a0]"} \/ KnownGap(name)

\* Registers that the emitter declares by itself or that the program declares.
Writes(p, type, number) ==
  \E inst \in ToSet(p.insts) : inst.dst.type = type /\ inst.dst.number = number

Provided(p, r) ==
  LET declared == \E d \in ToSet(p.dcls) :
                    d.reg.type = r.type /\ d.reg.number = r.number
      old == p.major < 3
  IN  \/ r.type \in {"temp", "constint", "constbool"}
      \/ r.type = "const" /\ (r.relative => IsVs(p) /\ Writes(p, "addr", 0))
      \/ /\ IsVs(p)
         /\ \/ r.type = "rastout"
            \/ r.type = "input" /\ declared
            \/ r.type = "output" /\ (IF old THEN r.number <= 7 ELSE declared)
            \/ r.type = "attrout" /\ old /\ r.number <= 1
            \/ r.type = "addr" /\ r.number = 0 /\ Writes(p, "addr", 0)
      \/ /\ ~IsVs(p)
         /\ \/ r.type \in {"colorout", "depthout"}
            \/ r.type = "input" /\ declared
            \/ r.type = "addr" /\ old /\ declared
            \/ r.type = "misctype" /\ r.number \in 0..1 /\ (r.number = 1 => declared)

\* A vertex shader's textures are a gap.
HasTexture(p, n) ==
  IsVs(p) \/ \E d \in ToSet(p.dcls) : d.reg.type = "sampler" /\ d.reg.number = n

\* Every register of the program is one of those, or is a sampler that it has
\* declared and reads a texture with, and an instruction writes the outputs
\* that are read and what conditions test.
DeclaresWhatItUses(p) ==
  \A inst \in ToSet(p.insts) :
    /\ Provided(p, inst.dst)
    /\ \A j \in DOMAIN inst.src :
         LET r == inst.src[j] IN
         /\ IF inst.op \in Sampled /\ j = 2 THEN HasTexture(p, r.number)
            ELSE Provided(p, r)
         /\ r.type \in {"rastout", "attrout", "depthout"} \cup
                      (IF inst.op \in Arithmetic THEN {} ELSE {"temp", "output"})
            => Writes(p, r.type, r.number)

\* The instruction carried out on all four components.
AllComponents(inst) ==
  IF inst.op \in Scalars THEN [i \in 1..4 |-> ScalarValue(prog, inst)]
  ELSE Rhs(prog, inst, 4)

\* A mask selects components of the destination and changes nothing else.
Meant(inst) == [c \in Written(inst.dst) |-> AllComponents(inst)[c + 1]]

\* The instructions that are written as one assignment.
Assigning == Elementwise \cup Selects \cup Scalars \cup Matrices \cup Sampled \cup
             {"nrm", "crs", "dst", "lit"}

Assignments == {inst \in {prog.insts[n] : n \in 1..done} : inst.op \in Assigning}

\* The instructions whose masks the emitter handles.  It takes the first
\* components of the operands for the components written.  A mask that begins
\* with x and leaves none out gets what is meant for it; another only if the
\* operands have the same at both places, as when they are the same everywhere.
PrefixMask(inst) == Written(inst.dst) = 0..(DstWidth(inst) - 1)
AllReplicated(inst) == \A i \in DOMAIN inst.src : Replicated(inst.src[i])

LinedUp(inst) ==
  \A c \in Written(inst.dst) : \A j \in DOMAIN Operands(inst) :
    Component(prog, inst.src[j], Rank(Written(inst.dst), c) - 1) =
      Component(prog, inst.src[j], c)

Handled(inst) ==
  /\ Fits(prog, inst.dst) /\ OperandsCompile(prog, inst)
  /\ inst.op \in Elementwise => LinedUp(inst)
  /\ inst.op \in Selects =>
       IF inst.dst.type = "depthout" THEN ~AllReplicated(inst)
       ELSE IF DstWidth(inst) = 1 THEN AllReplicated(inst)
       ELSE LinedUp(inst)
  /\ inst.op \in Matrices \cup {"lit"} => DstWidth(inst) = 4
  /\ inst.op \in {"nrm", "crs", "dst"} \cup Sampled =>
       DstWidth(inst) = 4 \/ (PrefixMask(inst) /\ ~AllReplicated(inst))

\* An assignment compiles and leaves in each component what the instruction
\* means for it in these cases, and in no others: what is not handled does not
\* compile or comes out wrong.  (Two of the components of dst may be the same
\* operand's, so that it can come out right by chance.)
ComesOut(assigned, meant) == assigned # <<>> /\ assigned = meant
Agree(inst, handled, right) ==
  /\ handled => right
  /\ right /\ inst.op # "dst" => handled

MasksSelect ==
  status = "translated" =>
    \A inst \in Assignments :
      Agree(inst, Handled(inst), ComesOut(Assigned(prog, inst), Meant(inst)))

\* The comment on cmp, for every mask: each component by its own condition.
ComparesPerComponent ==
  status = "translated" =>
    \A inst \in Assignments :
      inst.op = "cmp" => Assigned(prog, inst) = Meant(inst)

\* create_translated_pso: where the viewer puts an element of a vertex.
VertexSlot(usage, index) ==
  CASE usage \in {"position", "positiont"} -> 0
    [] usage = "color" /\ index = 0 -> 1
    [] usage = "texcoord" /\ index = 0 -> 2
    [] usage = "normal" /\ index = 0 -> 3
    [] usage = "tangent" /\ index = 0 -> 4
    [] usage = "binormal" /\ index = 0 -> 5
    [] usage = "blendweight" /\ index = 0 -> 6
    [] usage = "blendindices" /\ index = 0 -> 7
    [] usage = "texcoord" /\ index = 1 -> 8
    [] usage = "color" /\ index = 1 -> 9
    [] usage = "texcoord" /\ index \in 2..5 -> index + 8
    [] OTHER -> Unmapped

\* The two tables of attributes, in the emitter and in the viewer, agree on
\* what a vertex shader declares: an input is read from where the viewer puts
\* the elements that the input stands for, and from nowhere else.  Second
\* positions are left out: the viewer puts them where the first one is, the
\* emitter does not declare them.
AttributesAgree ==
  status = "translated" /\ IsVs(prog) =>
    \A n \in Register32 :
      LET declared == {l \in ToSet(msl) : /\ l.text = "declare"
                                         /\ l.dst = <<"in.v", n>>}
          meant == {d \in ToSet(prog.dcls) :
                      /\ d.reg.type = "input" /\ d.reg.number = n
                      /\ d.usage \in {"position", "positiont"} => d.index = 0}
      IN  {l.value : l \in declared} =
          {<<VertexSlot(d.usage, d.index)>> : d \in meant} \ {<<Unmapped>>}

=============================================================================
