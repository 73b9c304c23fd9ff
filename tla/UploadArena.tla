---------------------------- MODULE UploadArena ----------------------------
(***************************************************************************)
(* The upload arena and the draws that depend on it.  A draw copies its    *)
(* data into the slot of its frame and sends only references; the bridge   *)
(* follows them when the frame is presented, many calls later.  Shader     *)
(* constants are copied only when they have changed since the last draw    *)
(* of the frame, otherwise the draw reuses the reference of an earlier     *)
(* one.  One more upload stands for the others of a draw: bytecode, vertex *)
(* and index data, declaration and textures are copied each time.          *)
(*                                                                         *)
(* The order, number and capacity of the commands are BridgeState's        *)
(* subject: here the bridge keeps a set of them.                           *)
(***************************************************************************)
EXTENDS Integers

CONSTANTS
  Slots,           \* DX9MT_UPLOAD_ARENA_SLOTS, 3
  SlotBytes,       \* DX9MT_UPLOAD_BYTES_PER_SLOT, 256 MB
  Align,           \* 16
  FrameIds,        \* 2^32: frame_id is a uint32_t
  ConstantBytes,   \* DX9MT_DRAW_SHADER_CONSTANT_BYTES
  Payloads,        \* sizes of the other upload of a draw, 0 for none
  Settings,        \* what the game puts into shader constants
  Buffers,         \* what it puts into the other upload
  Blank,           \* zero, in fresh memory and in constants never set
  Devices,
  MayFail          \* may VirtualAlloc refuse the 768 MB

ASSUME ArenaAssumption ==
  /\ Slots \in Nat \ {0}
  /\ SlotBytes \in Nat
  /\ Align \in Nat \ {0}
  /\ FrameIds \in Nat \ {0, 1}
  /\ ConstantBytes \in Nat \ {0}
  /\ Payloads \subseteq Nat
  /\ MayFail \in BOOLEAN

VARIABLES
  arena,       \* g_frontend_upload_state: frame, slot, next offset, contents
  mapped,      \* has VirtualAlloc given the arena
  crashed,     \* history: the NULL arena was written to
  frameId,     \* frame_id of each device
  constants,   \* of each device and shader kind: value, last ref, dirty flag
  begun,       \* history: has the frame of each device had a BeginScene
  commands,    \* draws the bridge holds: references, and history: the content
  lastFrame,   \* g_last_frame_id of the bridge
  screen       \* what the references of the last present led to

device == <<frameId, constants, begun>>
bridge == <<commands, lastFrame, screen>>
vars == <<arena, mapped, crashed, device, bridge>>

Kinds == {"vs", "ps"}
Cells == (0..(Slots - 1)) \X (0..(SlotBytes - 1))

NoRef == [slot |-> 0, offset |-> 0, size |-> 0]

FreshConstants ==
  [kind \in Kinds |-> [value |-> Blank, ref |-> NoRef, dirty |-> FALSE]]

Init ==
  /\ arena = [frame |-> 0, slot |-> 0, next |-> 0,
              mem |-> [cell \in Cells |-> Blank]]
  /\ mapped = FALSE
  /\ crashed = FALSE
  /\ frameId = [d \in Devices |-> 1]
  /\ constants = [d \in Devices |-> FreshConstants]
  /\ begun = [d \in Devices |-> FALSE]
  /\ commands = {}
  /\ lastFrame = 0
  /\ screen = {}

-----------------------------------------------------------------------------
\* A block of n bytes that hold v, and the bytes a reference leads to.
Block(v, n) == [i \in 0..(n - 1) |-> v]

Follow(mem, ref) ==
  [i \in 0..(ref.size - 1) |-> mem[<<ref.slot, ref.offset + i>>]]

Store(mem, slot, offset, v, n) ==
  [cell \in Cells |->
     IF cell[1] = slot /\ cell[2] \in offset..(offset + n - 1)
       THEN v ELSE mem[cell]]

AlignUp(n) == ((n + Align - 1) \div Align) * Align

\* upload_begin_frame: the slot changes with the first upload of a frame.
ArenaBeginFrame(a, f) ==
  IF a.frame = f
    THEN a
    ELSE [a EXCEPT !.frame = f, !.slot = f % Slots, !.next = 0]

\* Mutant: a slot that is full is used again from its start.
UploadCopyWrapping(a, f, v, n) ==
  LET opened == ArenaBeginFrame(a, f)
      start == IF opened.next > SlotBytes - AlignUp(n) THEN 0 ELSE opened.next
  IN  IF n = 0 \/ AlignUp(n) > SlotBytes
        THEN [arena |-> a, ref |-> NoRef]
        ELSE [arena |-> [opened EXCEPT
                !.next = start + AlignUp(n),
                !.mem = Store(@, opened.slot, start, v, n)],
              ref |-> [slot |-> opened.slot, offset |-> start, size |-> n]]

\* Mutant: the end of the slot is not looked at.
UploadCopyUnchecked(a, f, v, n) ==
  LET opened == ArenaBeginFrame(a, f)
  IN  IF n = 0
        THEN [arena |-> a, ref |-> NoRef]
        ELSE [arena |-> [opened EXCEPT
                !.next = @ + AlignUp(n),
                !.mem = Store(@, opened.slot, opened.next, v, n)],
              ref |-> [slot |-> opened.slot, offset |-> opened.next, size |-> n]]

\* upload_copy: no reference when there is nothing to copy or no room for it.
UploadCopy(a, f, v, n) ==
  LET opened == ArenaBeginFrame(a, f)
      need == AlignUp(n)
  IN  IF n = 0 \/ need > SlotBytes
        THEN [arena |-> a, ref |-> NoRef]
      ELSE IF opened.next > SlotBytes - need
        THEN [arena |-> opened, ref |-> NoRef]
      ELSE [arena |-> [opened EXCEPT
              !.next = @ + need,
              !.mem = Store(@, opened.slot, opened.next, v, n)],
            ref |-> [slot |-> opened.slot, offset |-> opened.next, size |-> n]]

\* The constants of one kind for a draw: copied, or the last copy again.
ConstantRef(a, f, c) ==
  IF c.dirty \/ c.ref.size = 0
    THEN UploadCopy(a, f, c.value, ConstantBytes)
    ELSE [arena |-> a, ref |-> c.ref]

-----------------------------------------------------------------------------
\* SetVertexShaderConstantF and SetPixelShaderConstantF.
SetConstants(d, kind, v) ==
  /\ ~crashed
  /\ constants' = [constants EXCEPT ![d][kind].value = v,
                                    ![d][kind].dirty = TRUE]
  /\ UNCHANGED <<arena, mapped, crashed, frameId, begun, bridge>>

\* The first of a frame or another after an EndScene.
BeginScene(d) ==
  /\ ~crashed
  /\ begun' = [begun EXCEPT ![d] = TRUE]
  /\ commands' = IF frameId[d] # lastFrame THEN {} ELSE commands
  /\ lastFrame' = frameId[d]
  /\ UNCHANGED <<arena, mapped, crashed, frameId, constants, screen>>

\* The game draws and presents only frames that it has begun; DeviceFrames
\* shows what becomes of commands before that.
MayDraw(d) == ~crashed /\ begun[d]

\* The references of a draw and what the game wants them to lead to.
Content(vs, ps, payload) == [vs |-> vs, ps |-> ps, payload |-> payload]

Followed(mem, refs) ==
  Content(Follow(mem, refs.vs), Follow(mem, refs.ps), Follow(mem, refs.payload))

\* The references are kept for the next draw, those of a failed copy too.
Sent(cs, vs, ps) ==
  [kind \in Kinds |->
     [cs[kind] EXCEPT !.ref = IF kind = "vs" THEN vs ELSE ps, !.dirty = FALSE]]

\* DrawIndexedPrimitive with n bytes of v besides the constants.  The bridge
\* refuses a draw without constants; other data that did not fit is missing.
Draw(d, v, n) ==
  /\ MayDraw(d)
  /\ LET cs == constants[d]
         vs == ConstantRef(arena, frameId[d], cs["vs"])
         ps == ConstantRef(vs.arena, frameId[d], cs["ps"])
         payload == UploadCopy(ps.arena, frameId[d], v, n)
         command ==
           [refs |-> [vs |-> vs.ref, ps |-> ps.ref, payload |-> payload.ref],
            content |-> Content(Block(cs["vs"].value, ConstantBytes),
                                Block(cs["ps"].value, ConstantBytes),
                                Block(v, payload.ref.size))]
     IN  /\ arena' = payload.arena
         /\ constants' = [constants EXCEPT ![d] = Sent(cs, vs.ref, ps.ref)]
         /\ commands' = IF vs.ref.size > 0 /\ ps.ref.size > 0
                          THEN commands \cup {command} ELSE commands
  /\ mapped' = TRUE
  /\ UNCHANGED <<crashed, frameId, begun, lastFrame, screen>>

\* The first upload finds no arena: begin_frame returns, upload_copy does not.
DrawWithoutArena(d) ==
  /\ MayDraw(d)
  /\ ~mapped
  /\ MayFail
  /\ crashed' = TRUE
  /\ UNCHANGED <<arena, mapped, device, bridge>>

\* Mutant: the pixel shader's copy is forgotten.
InvalidatedHalf(cs) ==
  [cs EXCEPT !["vs"].ref = NoRef, !["vs"].dirty = TRUE]

\* Present invalidates the last copy of either kind.
Invalidated(cs) ==
  [kind \in Kinds |-> [cs[kind] EXCEPT !.ref = NoRef, !.dirty = TRUE]]

Present(d) ==
  /\ MayDraw(d)
  /\ screen' = {Followed(arena.mem, c.refs) : c \in commands}
  /\ lastFrame' = frameId[d]
  /\ frameId' = [frameId EXCEPT ![d] = (@ + 1) % FrameIds]
  /\ constants' = [constants EXCEPT ![d] = Invalidated(@)]
  /\ begun' = [begun EXCEPT ![d] = FALSE]
  /\ UNCHANGED <<arena, mapped, crashed, commands>>

Next ==
  \E d \in Devices :
    \/ BeginScene(d) \/ Present(d) \/ DrawWithoutArena(d)
    \/ \E kind \in Kinds, v \in Settings : SetConstants(d, kind, v)
    \/ \E v \in Buffers, n \in Payloads : Draw(d, v, n)

Spec == Init /\ [][Next]_vars

-----------------------------------------------------------------------------
\* Properties.

RefType == [slot : 0..(Slots - 1), offset : Nat, size : Nat]

ArenaType ==
  [frame : 0..(FrameIds - 1), slot : 0..(Slots - 1), next : 0..SlotBytes,
   mem : [Cells -> Settings \cup Buffers \cup {Blank}]]

ConstantType ==
  [value : Settings \cup {Blank}, ref : RefType, dirty : BOOLEAN]

Contents ==
  {Content(Block(u, ConstantBytes), Block(v, ConstantBytes), Block(w, n)) :
     u \in Settings \cup {Blank}, v \in Settings \cup {Blank}, w \in Buffers,
     n \in Payloads \cup {0}}

\* A reference that may be followed: its bytes are below the next free one of
\* the slot in use.
Placed(ref) ==
  ref.size > 0 => ref.slot = arena.slot /\ ref.offset + ref.size <= arena.next

\* The arena never writes beyond its slot, and references stay in their types.
TypeOK ==
  /\ arena \in ArenaType
  /\ mapped \in BOOLEAN
  /\ crashed \in BOOLEAN
  /\ frameId \in [Devices -> 0..(FrameIds - 1)]
  /\ constants \in [Devices -> [Kinds -> ConstantType]]
  /\ begun \in [Devices -> BOOLEAN]
  /\ commands \subseteq
       [refs : [vs : RefType, ps : RefType, payload : RefType],
        content : Contents]
  /\ lastFrame \in 0..(FrameIds - 1)

\* While a frame is being built every draw the bridge holds still leads to the
\* data the game had set when it was called, whatever has been set, copied and
\* reused since, however full the slot is (the comment on overflow in
\* upload_copy).
CommandsKeepTheirData ==
  \A d \in Devices : begun[d] =>
    \A c \in commands : Followed(arena.mem, c.refs) = c.content

\* A copy of constants that would be used again is still there, in the slot of
\* the device's frame, and is what the game has set: no draw shows constants
\* of another frame or of an earlier setting.
CachedConstantsAreCurrent ==
  \A d \in Devices, kind \in Kinds :
    LET c == constants[d][kind] IN
    c.ref.size > 0 /\ ~c.dirty =>
      /\ arena.frame = frameId[d]
      /\ Follow(arena.mem, c.ref) = Block(c.value, ConstantBytes)

\* The inductive invariant, for one device.
PlacedInv ==
  /\ \A d \in Devices : begun[d] =>
       \A c \in commands :
         Placed(c.refs.vs) /\ Placed(c.refs.ps) /\ Placed(c.refs.payload)
  /\ \A d \in Devices, kind \in Kinds :
       ~constants[d][kind].dirty => Placed(constants[d][kind].ref)

FrameInv ==
  \A d \in Devices :
    /\ begun[d] => lastFrame = frameId[d]
    /\ begun[d] /\ commands # {} => arena.frame = frameId[d]
    /\ lastFrame = frameId[d] => begun[d]

IInv == TypeOK /\ PlacedInv /\ FrameInv
          /\ CommandsKeepTheirData /\ CachedConstantsAreCurrent

\* The refinement, for one device.
Immediate == INSTANCE ImmediateDraws WITH
                    drawn <- IF \E d \in Devices : begun[d]
                               THEN {c.content : c \in commands} ELSE {}

ImplementsImmediate == Immediate!Spec
=============================================================================
