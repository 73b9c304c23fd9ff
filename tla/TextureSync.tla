---------------------------- MODULE TextureSync ----------------------------
(***************************************************************************)
(* How the texels of a texture get from the game's memory to the viewer.   *)
(* A draw carries a copy of a texture it binds only when the texture has   *)
(* changed since the last copy or that copy is RefreshInterval frames old; *)
(* otherwise the viewer is expected to have it.  Nothing tells the         *)
(* frontend whether a copy has arrived: it may be lost with a draw that is *)
(* refused, dropped or cut off, with a frame that the viewer does not see, *)
(* or with a draw that the viewer leaves out.                              *)
(*                                                                         *)
(* Textures here are those the game fills itself; what becomes of rendered *)
(* ones is in ViewerReplay.  A frame in the file is seen whole or not at   *)
(* all (FrameIpc), and a copy keeps its contents until Present             *)
(* (UploadArena).  The game does not draw with a texture while it is       *)
(* locked, so LockRect, the writing and UnlockRect are one step.  It opens *)
(* each frame with BeginScene, so a Present leaves nothing recorded that   *)
(* counts (DeviceFrames).  Frame numbers wrap, generations do not.         *)
(***************************************************************************)
EXTENDS Integers, Sequences

CONSTANTS
  Textures,
  Levels,            \* mip levels of each texture
  Texels,            \* what the game writes into a level
  Zeros, NoTexels,   \* a level just allocated, and one without memory
  RefreshInterval,   \* DX9MT_TEXTURE_UPLOAD_REFRESH_INTERVAL, 8
  FrameIds,          \* 2^32: frame_id is a uint32_t
  IpcDraws,          \* DX9MT_METAL_IPC_MAX_DRAWS, 2048
  MaxFrames,         \* bound: frames of the device
  MaxDraws,          \* bound: draws of a frame
  MaxGeneration      \* bound: changes of a texture, below 2^32

ASSUME TextureAssumption ==
  /\ Levels \in Nat \ {0}
  /\ Zeros # NoTexels
  /\ NoTexels \notin Texels
  /\ RefreshInterval \in Nat \ {0}
  /\ FrameIds \in Nat \ {0}
  /\ IpcDraws \in Nat
  /\ MaxFrames \in Nat \ {0}
  /\ MaxDraws \in Nat
  /\ MaxGeneration \in Nat \ {0}

VARIABLES
  textures,    \* each dx9mt_texture: generation, lod, levels, last upload
  frame,       \* frames of the device so far; frame_id is this modulo 2^32
  recorded,    \* draws of the frame that the bridge holds
  file,        \* the frame in the shared file, with its number; 0 for none
  taken,       \* the number of the frame the viewer took last
  replaying,   \* what it has still to replay of it
  cache,       \* s_texture_cache
  disturbed    \* history: textures and frames in which a copy was lost, or
               \* another level chosen

device == <<textures, frame, recorded>>
viewer == <<taken, replaying, cache>>
vars == <<device, file, viewer, disturbed>>

LevelNumbers == 0..(Levels - 1)
Contents == Texels \cup {Zeros, NoTexels}

FrameId == frame % FrameIds

NewTexture ==
  [generation |-> 1, lod |-> 0, data |-> [l \in LevelNumbers |-> NoTexels],
   lastGeneration |-> 0, lastFrame |-> 0]

Init ==
  /\ textures = [t \in Textures |-> NewTexture]
  /\ frame = 1
  /\ recorded = <<>>
  /\ file = [frame |-> 0, draws |-> <<>>]
  /\ taken = 0
  /\ replaying = <<>>
  /\ cache = [t \in Textures |-> NoTexels]
  /\ disturbed = {}

-----------------------------------------------------------------------------
\* What the game does to its textures.

\* texture_next_generation, before it wraps.
MarkedDirty(x) == [x EXCEPT !.generation = @ + 1]

\* LockRect and UnlockRect, or a copy or fill of the level's surface.
Update(t, l, v) ==
  /\ textures[t].generation < MaxGeneration
  /\ textures' = [textures EXCEPT ![t] = [MarkedDirty(@) EXCEPT !.data[l] = v]]
  /\ UNCHANGED <<frame, recorded, file, viewer, disturbed>>

\* AddDirtyRect.
AddDirtyRect(t) ==
  /\ textures[t].generation < MaxGeneration
  /\ textures' = [textures EXCEPT ![t] = MarkedDirty(@)]
  /\ UNCHANGED <<frame, recorded, file, viewer, disturbed>>

\* A level that is the source of a copy gets memory but no generation.
EnsureSysmem(t, l) ==
  /\ textures[t].data[l] = NoTexels
  /\ textures' = [textures EXCEPT ![t].data[l] = Zeros]
  /\ UNCHANGED <<frame, recorded, file, viewer, disturbed>>

\* SetLOD: another level is bound from now on, of the same generation.
SetLOD(t, l) ==
  /\ l < Levels
  /\ textures' = [textures EXCEPT ![t].lod = l]
  /\ disturbed' = disturbed \cup {<<t, frame>>}
  /\ UNCHANGED <<frame, recorded, file, viewer>>

-----------------------------------------------------------------------------
\* The device and the bridge.

\* Mutant: the refresh comes a frame late.
NeedsUploadLate(x) ==
  \/ x.lastGeneration # x.generation
  \/ x.lastFrame = 0
  \/ x.lastFrame > FrameId
  \/ FrameId - x.lastFrame > RefreshInterval

NeedsUpload(x) ==
  \/ x.lastGeneration # x.generation
  \/ x.lastFrame = 0
  \/ x.lastFrame > FrameId
  \/ FrameId - x.lastFrame >= RefreshInterval

Bound(x) == x.data[x.lod]

\* upload_copy gave a reference.
Uploaded(x) == [x EXCEPT !.lastGeneration = x.generation, !.lastFrame = FrameId]

\* A draw: the textures it binds with the texels the game wants sampled
\* (history), and the copies that come with it.
Carried(bound, copied) ==
  [frame |-> frame, bound |-> bound,
   want |-> [t \in Textures |->
               IF t \in bound THEN Bound(textures[t]) ELSE NoTexels],
   copy |-> [t \in Textures |->
               IF t \in copied THEN Bound(textures[t]) ELSE NoTexels]]

Copies(draw) == {t \in Textures : draw.copy[t] # NoTexels}

LostWith(draws) ==
  UNION {{<<t, draws[i].frame>> : t \in Copies(draws[i])} : i \in DOMAIN draws}

\* DrawIndexedPrimitive.  The arena may be full for some of the copies, and
\* the bridge may refuse the draw or have no room for it.
Draw(bound, copied, kept) ==
  LET wanted == {t \in bound : NeedsUpload(textures[t])
                                 /\ Bound(textures[t]) # NoTexels}
      draw == Carried(bound, copied)
  IN  /\ Len(recorded) < MaxDraws
      /\ copied \subseteq wanted
      /\ textures' = [t \in Textures |->
                        IF t \in copied THEN Uploaded(textures[t]) ELSE textures[t]]
      /\ recorded' = IF kept THEN Append(recorded, draw) ELSE recorded
      /\ disturbed' = disturbed \cup {<<t, frame>> : t \in wanted \ copied}
                        \cup (IF kept THEN {} ELSE LostWith(<<draw>>))
      /\ UNCHANGED <<frame, file, viewer>>

\* The draws that reach the file.  Copies for which its bulk region has no
\* room are left out, the draws stay.
Fits(draws) == SubSeq(draws, 1, IF Len(draws) <= IpcDraws THEN Len(draws) ELSE IpcDraws)
CutOff(draws) == SubSeq(draws, IpcDraws + 1, Len(draws))

Stripped(draws, omitted) ==
  [i \in DOMAIN draws |->
     [draws[i] EXCEPT !.copy = [t \in Textures |->
        IF <<i, t>> \in omitted THEN NoTexels ELSE @[t]]]]

\* bridge_present, over a frame that the viewer may not have taken yet.
Present(omitted) ==
  LET shown == Fits(recorded) IN
  /\ frame < MaxFrames
  /\ omitted \subseteq {p \in (DOMAIN shown) \X Textures : p[2] \in Copies(shown[p[1]])}
  /\ file' = [frame |-> frame, draws |-> Stripped(shown, omitted)]
  /\ recorded' = <<>>
  /\ frame' = frame + 1
  /\ disturbed' = disturbed \cup {<<p[2], frame>> : p \in omitted}
                    \cup LostWith(CutOff(recorded))
                    \cup (IF file.frame # taken THEN LostWith(file.draws) ELSE {})
  /\ UNCHANGED <<textures, viewer>>

-----------------------------------------------------------------------------
\* The viewer.

\* A new frame is taken; without a drawable it is not replayed.
TakeFrame(replayed) ==
  /\ replaying = <<>>
  /\ file.frame # taken
  /\ taken' = file.frame
  /\ replaying' = IF replayed THEN file.draws ELSE <<>>
  /\ disturbed' = IF replayed THEN disturbed ELSE disturbed \cup LostWith(file.draws)
  /\ UNCHANGED <<device, file, cache>>

\* texture_for_draw_stage: the copy that came with the draw, unless Metal
\* cannot keep it, else what is cached, whatever its generation.
Resolved(draw, failed, t) ==
  IF t \in Copies(draw) \ failed THEN draw.copy[t] ELSE cache[t]

\* Stages are resolved in order up to the first that has no texture.
Reaches(draw, failed, reached) ==
  LET missing == {t \in draw.bound : Resolved(draw, failed, t) = NoTexels} IN
  /\ reached \subseteq draw.bound
  /\ IF missing = {} THEN reached = draw.bound
     ELSE \E t \in missing : reached \cap missing = {t}

Cached(draw, failed, reached) ==
  [t \in Textures |-> IF t \in reached THEN Resolved(draw, failed, t) ELSE cache[t]]

\* One draw whose textures are looked at, whether it is executed or not.
ReplayDraw(failed, reached) ==
  LET draw == Head(replaying) IN
  /\ replaying # <<>>
  /\ failed \subseteq Copies(draw)
  /\ Reaches(draw, failed, reached)
  /\ cache' = Cached(draw, failed, reached)
  /\ disturbed' = disturbed \cup
       {<<t, draw.frame>> : t \in Copies(draw) \cap (failed \cup (Textures \ reached))}
  /\ replaying' = Tail(replaying)
  /\ UNCHANGED <<device, file, taken>>

\* A draw that is left out before its textures are looked at: no geometry, no
\* pass, no vertex declaration.
SkipDraw ==
  /\ replaying # <<>>
  /\ replaying' = Tail(replaying)
  /\ disturbed' = disturbed \cup LostWith(<<Head(replaying)>>)
  /\ UNCHANGED <<device, file, taken, cache>>

Next ==
  \/ \E t \in Textures, l \in LevelNumbers, v \in Texels : Update(t, l, v)
  \/ \E t \in Textures : AddDirtyRect(t)
  \/ \E t \in Textures, l \in LevelNumbers : EnsureSysmem(t, l)
  \/ \E t \in Textures, l \in 0..Levels : SetLOD(t, l)
  \/ \E bound \in SUBSET Textures, kept \in BOOLEAN :
       \E copied \in SUBSET bound : Draw(bound, copied, kept)
  \/ \E omitted \in SUBSET ((DOMAIN recorded) \X Textures) : Present(omitted)
  \/ \E replayed \in BOOLEAN : TakeFrame(replayed)
  \/ \E failed, reached \in SUBSET Textures : ReplayDraw(failed, reached)
  \/ SkipDraw

Spec == Init /\ [][Next]_vars

-----------------------------------------------------------------------------
\* Properties.

DrawType ==
  [frame : 1..MaxFrames, bound : SUBSET Textures,
   want : [Textures -> Contents], copy : [Textures -> Contents]]

\* A texture never has a level that it has no surface for bound, and draws
\* are of frames that exist.
TypeOK ==
  /\ textures \in [Textures ->
       [generation : 1..MaxGeneration, lod : LevelNumbers,
        data : [LevelNumbers -> Contents], lastGeneration : 0..MaxGeneration,
        lastFrame : 0..(FrameIds - 1)]]
  /\ frame \in 1..MaxFrames
  /\ recorded \in Seq(DrawType)
  /\ file \in [frame : 0..MaxFrames, draws : Seq(DrawType)]
  /\ taken \in 0..MaxFrames
  /\ replaying \in Seq(DrawType)
  /\ cache \in [Textures -> Contents]
  /\ disturbed \subseteq Textures \X (1..MaxFrames)

\* docs/architecture.md, "Texture Upload Strategy": a copy that is lost on any
\* of its ways is made up for by the refresh.  When no copy of a texture was
\* lost and no other level chosen in the RefreshInterval frames up to that of a
\* draw, then the viewer, when it comes to the draw, has what the game had in
\* the texture at the call, although either side keeps books of its own.
Recent(f) == (f - RefreshInterval + 1)..f

LossesAreRepaired ==
  [][replaying # <<>> /\ replaying' # replaying =>
       LET draw == Head(replaying) IN
       \A t \in draw.bound :
         draw.want[t] # NoTexels
           /\ (\A f \in Recent(draw.frame) : <<t, f>> \notin disturbed')
         => cache'[t] = draw.want[t]]_vars
=============================================================================
