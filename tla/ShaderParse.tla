---------------------------- MODULE ShaderParse -----------------------------
(***************************************************************************)
(* dx9mt_sm_parse: a loop over the dwords of a shader, one step for each   *)
(* instruction, declaration, definition or comment.                        *)
(***************************************************************************)
EXTENDS ShaderProgram, SequencesExt

CONSTANTS
  Shaders,         \* versions and the dwords of each instruction, and counts
  MaxInstructions, \* DX9MT_SM_MAX_INSTRUCTIONS
  MaxDcl,          \* DX9MT_SM_MAX_DCL
  MaxDef           \* DX9MT_SM_MAX_DEF

ASSUME ShadersAssumption ==
  /\ Shaders \subseteq [type : {"vs", "ps", "other"}, stage : {"vs", "ps"}, major : Nat,
                       units : Seq(Seq(Dwords)), count : Nat]
  /\ \A s \in Shaders : s.count <= 1 + Len(FlattenSeq(s.units))

ASSUME LimitsAssumption ==
  MaxInstructions \in Nat /\ MaxDcl \in Nat /\ MaxDef \in Nat

VARIABLES
  shader,   \* type, major version, units: the dwords of each instruction
  pos,      \* where the parser is
  prog,     \* what it has found
  status    \* where the translation is

parseVars == <<shader, pos, prog, status>>

Statuses == {"version", "parsing", "parsed", "emitting", "translated", "failed"}

\* The dwords in memory; the first shader.count of them are the shader.
Code == <<[is |-> "version"]>> \o FlattenSeq(shader.units)
Current == Code[pos]

ParseInit ==
  /\ shader \in Shaders
  /\ pos = 1
  /\ prog = EmptyProgram("ps", 0)
  /\ status = "version"

Fail == status' = "failed" /\ UNCHANGED <<shader, pos, prog>>

ReadVersion ==
  /\ status = "version"
  /\ IF shader.count < 2 \/ shader.type \notin {"vs", "ps"} THEN Fail
     ELSE /\ prog' = EmptyProgram(shader.type, shader.major)
          /\ pos' = 2
          /\ status' = "parsing"
          /\ UNCHANGED shader

-----------------------------------------------------------------------------
\* One turn of the loop.

At(ops) ==
  /\ status = "parsing" /\ pos <= shader.count
  /\ Opcode(Current) \in ops

\* n dwords after the opcode are part of the shader.
Enough(n) == pos + n <= shader.count

\* The dword n after the opcode, or what is in memory there.
Operand(n) == IF pos + n <= Len(Code) THEN Code[pos + n] ELSE Zero

Continue(p, n) ==
  /\ prog' = p
  /\ pos' = pos + 1 + n
  /\ UNCHANGED <<shader, status>>

\* Mistaken: the opcode itself is not stepped over.
CommentInPlace ==
  /\ At({"comment"})
  /\ IF ~Enough(Current.len) THEN Fail ELSE Continue(prog, Current.len - 1)

Comment ==
  /\ At({"comment"})
  /\ IF ~Enough(Current.len) THEN Fail ELSE Continue(prog, Current.len)

\* A declaration, of inputs and outputs with numbers below 32.  A mask is given
\* as the places of the bits that were set; the number of a sampler is shifted
\* by without a look at it, which has no defined result from 32 on.
Dcl ==
  /\ At({"dcl"})
  /\ LET reg == Register(Operand(2))
         sem == Operand(1)
         dcl == [usage |-> IF sem.is = "sem" THEN sem.usage ELSE "position",
                 index |-> IF sem.is = "sem" THEN sem.index ELSE 0, reg |-> reg]
     IN  IF \/ ~Enough(2)
            \/ Len(prog.dcls) >= MaxDcl
            \/ reg.type \in {"input", "output"} /\ reg.number >= 32
           THEN Fail
           ELSE Continue(
                  [prog EXCEPT
                     !.dcls = Append(@, dcl),
                     !.samplers = IF reg.type = "sampler"
                                    THEN @ \cup {reg.number} ELSE @,
                     !.inputs = IF reg.type = "input"
                                  THEN @ \cup {reg.number} ELSE @,
                     !.outputs = IF reg.type = "output"
                                   THEN @ \cup {reg.number} ELSE @,
                     !.position = @ \/ /\ reg.type = "output"
                                       /\ dcl.usage = "position"
                                       /\ dcl.index = 0], 2)

DefType(op) ==
  CASE op = "def" -> "const" [] op = "defi" -> "constint"
    [] op = "defb" -> "constbool"

\* find_or_alloc_def: the entry of a register defined before is used again.
WithDef(defs, entry) ==
  IF entry \in ToSet(defs) THEN defs ELSE Append(defs, entry)

Def ==
  /\ At(Defs)
  /\ LET op == Opcode(Current)
         size == IF op = "defb" THEN 2 ELSE 5
         defs == WithDef(prog.defs,
                         <<DefType(op), Register(Operand(1)).number>>)
     IN  IF ~Enough(size) \/ Len(defs) > MaxDef
           THEN Fail
           ELSE Continue([prog EXCEPT !.defs = defs], size)

Instruction(op, dst, src) == [op |-> op, dst |-> dst, src |-> src]
NoRegister == Register(Zero)

\* Another instruction without registers that count, of n operands.
Control(ops, n) ==
  /\ At(ops)
  /\ LET src == [i \in 1..n |-> Register(Operand(i))] IN
     IF ~Enough(n) \/ Len(prog.insts) >= MaxInstructions
       THEN Fail
       ELSE Continue([prog EXCEPT !.insts =
              Append(@, Instruction(Opcode(Current), NoRegister, src))], n)

Compare == Control(Compares, 2)
Test == Control(Tests, 1)
Mark == Control(Bare, 0)

\* Mistaken: the first number that has no bit in a mask is let through.
InRangeToTheBit(r) ==
  CASE r.type \in {"temp", "const"} -> r.number <= 255
    [] r.type \in {"input", "output", "sampler", "attrout", "colorout"} ->
         r.number <= 32
    [] r.type = "rastout" -> r.number <= 2
    [] OTHER -> TRUE

\* track_register_usage, and its limits.
InRange(r) ==
  CASE r.type \in {"temp", "const"} -> r.number <= 255
    [] r.type \in {"input", "output", "sampler", "attrout", "colorout"} ->
         r.number < 32
    [] r.type = "rastout" -> r.number <= 2
    [] OTHER -> TRUE

Numbers(regs, type) == {r.number : r \in {q \in regs : q.type = type}}

Tracked(p, inst) ==
  LET dst == {inst.dst}
      regs == dst \cup ToSet(inst.src)
  IN  [p EXCEPT
         !.maxTemp = Max({@} \cup Numbers(regs, "temp")),
         !.maxConst = Max({@} \cup Numbers(regs, "const")),
         !.inputs = @ \cup Numbers(regs, "input"),
         !.outputs = @ \cup Numbers(regs, "output"),
         !.samplers = @ \cup Numbers(regs, "sampler"),
         !.attrouts = @ \cup Numbers(dst, "attrout"),
         !.position = @ \/ 0 \in Numbers(dst, "rastout"),
         !.fog = @ \/ 1 \in Numbers(dst, "rastout"),
         !.colors = IF inst.dst.type = "colorout" THEN inst.dst.number + 1 ELSE @,
         !.depth = @ \/ inst.dst.type = "depthout"]

\* Mistaken: the dword after a relative operand is not skipped.
PlacesWithoutRelative(n) == [i \in 1..(n + 1) |-> i]

\* Where the operands 1..n of the current instruction are: one dword each,
\* and one more after a relative operand.
Places(n) ==
  LET place[i \in 1..(n + 1)] ==
        IF i = 1 THEN 1
        ELSE place[i - 1] +
             (IF Register(Operand(place[i - 1])).relative THEN 2 ELSE 1)
  IN  place

\* An instruction with a destination and sources.  That there is room for the
\* operands is seen to before, for their relative dwords one at a time.
Regular ==
  /\ At(Arithmetic)
  /\ LET op == Opcode(Current)
         dsts == IF HasDst(op) THEN 1 ELSE 0
         n == dsts + SrcCount(op)
         place == Places(n)
         reg == [i \in 1..n |-> Register(Operand(place[i]))]
         cut == \E i \in 1..n : reg[i].relative /\ ~Enough(place[i] + 1)
         inst == Instruction(op, IF HasDst(op) THEN reg[1] ELSE NoRegister,
                             SubSeq(reg, dsts + 1, n))
         p == [prog EXCEPT !.insts = Append(@, inst)]
     IN  IF \/ ~Enough(n) \/ Len(prog.insts) >= MaxInstructions
            \/ cut \/ \E i \in 1..n : ~InRange(reg[i])
           THEN Fail
           ELSE Continue(Tracked(p, inst), place[n + 1] - 1)

Unknown == At({"unknown"}) /\ Fail

End ==
  /\ At({"end"})
  /\ prog' = [prog EXCEPT !.colors =
                IF prog.type = "ps" /\ @ = 0 THEN 1 ELSE @]
  /\ status' = "parsed"
  /\ UNCHANGED <<shader, pos>>

\* The loop ends with the shader and there was no end.
MissingEnd == status = "parsing" /\ pos > shader.count /\ Fail

Parse ==
  \/ ReadVersion \/ Comment \/ Dcl \/ Def \/ Compare \/ Test \/ Mark
  \/ Regular \/ Unknown \/ End \/ MissingEnd
=============================================================================
