# dx9mt in TLA+

A TLA+ model of dx9mt, the Direct3D 9 to Metal layer: model-checked with TLC on
small instances, with theorems checked by TLAPS for all instances. File and line
numbers refer to the sources under `dx9mt/` and to `docs/`.

## 1. The system

    game (i686, Wine)  --calls-->  d3d9.dll frontend  --packets-->  backend bridge
                                        |                              |
                                   upload arena  <--references--       | Present
                                                                       v
    window  <--Metal--  viewer (ARM64)  <--poll, copy--  shared file (256 MB)

* The **frontend** (`src/frontend/d3d9.c`, `d3d9_device.c`, `runtime.c`) implements
  the interfaces of Direct3D 9 as COM objects. A call is synchronous: it changes
  the device or a resource, perhaps copies data into the upload arena, makes a
  packet with the next sequence number and submits it. It ignores what the bridge
  returns.
* The **bridge** (`src/backend/backend_bridge_stub.c`, in the same process)
  checks each packet, records draws and blits, and at Present writes the frame
  with all data it refers to into the file `/tmp/dx9mt_metal_frame.bin`.
* The **viewer** (`src/tools/metal_viewer.m`, another process) polls the file 120
  times a second, copies a new frame, checks that it was not overwritten
  meanwhile, and replays it with Metal. For that it translates each shader
  (`d3d9_shader_parse.c`, `d3d9_shader_emit_msl.c`) when it first meets it.

The only concurrency that matters is between writer and viewer; they share the
file and its 32-bit sequence word, and nothing flows back. Within the game's
process the difficulty is in the *order* of calls and in state kept in two places:
device and bridge number frames separately, draws are recorded as references that
are followed much later, objects refer to each other with and without counting,
contents of textures are known by a generation, and each side has a capacity the
other does not see. Within the viewer it is in what one command leaves for the
next, and in reading a stream of dwords whose structure nobody else checks.

### Components

| Component | State it keeps | Operations | What makes it correct | Where |
|---|---|---|---|---|
| Shared file protocol | the mapping, sequence word, the viewer's last number and copies | map, present, close or die; poll, copy, re-check, render | frames taken are whole, newest last, once; a frame left is taken | `FrameIpc` |
| Backend bridge | ready, target, last frame, last sequence, replay state | init, submit, begin_frame, present, shutdown | commands in order, flushed together, never beyond capacity; the right frame is published | `BridgeState`, `BackendBridge` |
| Bulk packing | offset and use of the region behind the draws | pack an item, publish; check header and ranges | every frame is accepted; the viewer takes what was packed and nothing else | `BulkPack` |
| Device frame path | frame id, scene flag, packet counter | Begin/EndScene, draw, StretchRect, Clear, Present, create, release | what a Present shows is what was issued since the last | `DeviceFrames` |
| COM objects | reference counts, bindings, pointers between objects | create and fail, AddRef, Release, Get, Set, Reset | counts are exact; what exists is what the game can reach | `ComObjects` |
| Surface memory and copies | memory of surfaces, generations of textures | lock, fill, copy, scale, update a texture; copy for a draw | no call leaves a surface's memory; a change gets a generation; pixels change as promised | `SurfaceCopies` |
| Upload arena, constants cache | slots, next offset, cached references with dirty flags | upload, set constants, draw, Present | a draw keeps leading to the data of its call | `UploadArena` |
| Texture synchronisation | generations, levels, last upload; the viewer's cache | lock, copy, SetLOD, draw with upload; resolve | what was lost is made up for within the refresh interval | `TextureSync` |
| Viewer replay | open pass, targets seen, links to textures | draw, blit, overlay, commit | each surface holds its commands; reads find what was drawn | `ViewerReplay` |
| Shader parser and emitter | position in the bytecode, program, text | parse an instruction, emit declarations and lines | the program is the one written, its text complete and of the same meaning | `ShaderTranslation` |
| Shader and pipeline caches, runtime latch, adapter tables, logging, crash handler, in-process presenter, build | | | | section 6 |

`PROJECT.json` lists them all with sources and reasons, and under `hazards` every
place where the code can go wrong in a way that tests hardly reach.

## 2. Modules

| Module | Role | Extends / instantiates |
|---|---|---|
| `FrameChannel` | abstract: a frame is offered, withdrawn, taken, shown or lost | |
| `FrameIpc` | the file, its writer and its viewer, word by word | refines `FrameChannel` |
| `FrameIpc_inv` | its inductive invariant | |
| `BridgeState` | the bridge's state as a record, its calls as operators | |
| `BackendBridge` | the bridge under every client | `BridgeState` |
| `BulkPack` | the layout of a presented frame | |
| `FrameFile_proofs` | proofs about the file and what is packed into it | `FrameIpc_inv`, `BulkPack` |
| `FrameAssembly` | abstract: a Present shows what was issued since the last | |
| `DeviceFrames` | the device and the bridge together | `BridgeState`; refines `FrameAssembly` |
| `Bridge_proofs` | proofs about the bridge, alone and under the device | `BackendBridge`, `DeviceFrames` |
| `ComObjects`, `ComObjects_proofs` | reference counts and pointers of all objects; proofs | |
| `Pictures` | abstract: a call puts the pixels it names at the coordinates it names | |
| `SurfaceCopies`, `SurfaceCopies_proofs` | memory behind surfaces; proofs | refines `Pictures` |
| `ImmediateDraws` | abstract: a draw uses the data of its call | |
| `UploadArena`, `UploadArena_proofs` | arena, constants cache, following of references; proofs | refines `ImmediateDraws` |
| `TextureSync`, `TextureSync_proofs` | texels from the game to the viewer's texture cache; proofs | |
| `TargetImages` | abstract: what a frame means for the game's surfaces | |
| `ViewerReplay`, `ViewerReplay_proofs` | render_frame; proofs | refines `TargetImages` |
| `ShaderProgram` | dwords of the bytecode, and programs | |
| `ShaderParse` | the parser, one action per instruction | `ShaderProgram` |
| `ShaderEmit` | the text of a program, as operators | `ShaderProgram` |
| `ShaderTranslation`, `ShaderTranslation_proofs` | parser and emitter, as the viewer calls them; proofs | `ShaderParse`, `ShaderEmit` |
| `MC...` | small instances for TLC | |

How they meet. What `DeviceFrames` publishes (`FrameOf`) is one present of
`FrameIpc`, where only its number and its wholeness matter; inside the present
`BulkPack` lays it out; what `FrameIpc` renders is one frame of `ViewerReplay`,
which picks the commands of a frame nondeterministically, so it covers every frame
the others could produce. `UploadArena` is `DeviceFrames` seen from the data: order
and capacity of the commands are left to the one, memory to the other.
`SurfaceCopies` shows that a level changes only with its generation, and
`TextureSync` looks at what happens to a copy from there on: it takes from the
others that a frame is seen whole or not at all and that a copy keeps its contents
until Present, and lets everything else go wrong that they allow. `ComObjects`
has the objects that the others take to exist. The text of `ShaderTranslation` is
what a draw of `ViewerReplay` runs; without it the draw is left out there.

Operators whose comment begins with "Mutant:" or "Mistaken:" are deliberate
mistakes. No specification uses them; substituting one for the operator it imitates
makes a property fail (`PROJECT.json`, `mutants`).

### FrameIpc

State: `mem` (one value per word: the number of the present that wrote it) and
`shSeq` are the file; `wpc`, `pending`, `ipcSeq` (`g_metal_ipc_sequence`) the
writer; `rpc`, `rseq`, `hdrCopy`, `snap`, `todo`, `lastSeq` (`_last_seq`) the
viewer. `frame` numbers presents over all sessions and is history; so are `taken`,
the frame whose header was checked, and `late`, the words loaded after the re-check.

`OpenMapping`, `ClearWord`, `FinishOpen` are the mapping and memset in
`bridge_init`; `BeginPresent`, `WriteWord`, `Publish` the three phases of
`bridge_present` (sequence 0, all stores, release store of the new number);
`CloseMapping` is a shutdown or the end of the process at any point. `PollStart`,
`CopyHeaderWord`, `RejectHeader`/`RefuseSnapshot`/`AcceptHeader`, `CopyWord`,
`RecheckFails`/`RecheckHolds`, `Render`/`RenderNothing` are `pollAndRender` in its
order. `RefuseSnapshot` is the failed allocation after a good header. `RenderNothing`
is `render_frame` returning before it presents anything, since there is no drawable,
command buffer or encoder; the number is remembered already (`metal_viewer.m:3824`),
so such a frame is lost. `FrameChannel` therefore tells a frame that is *taken*
(`Take`) from one that is *shown* (`Show`, or `Lose`): what is promised of a frame
left in the file is that it is taken.
Words move one at a time, in any order. The header's checks pass for every header
the writer completes and fail for one that is all zero; for a mixture both
outcomes are allowed. `RestartDuringPoll = FALSE` says that no process maps the
file within one poll (microseconds, against the start of a Wine process);
`LateLoads = TRUE` lets loads of the copy complete after the re-check, which the
viewer's code permits on ARM64. The writer runs as x86 code, whose stores are seen in
the order they are made in.

### BridgeState, BackendBridge, DeviceFrames

A command is the number of its packet. `Submit` is one packet through
`submit_packets`: header checks, number taken, content checks, effect.
`BackendBridge` makes an action of each exported function. A call of
`submit_packets` is `SubmitPackets(n)` followed by a `SubmitPacket(p)` for each
packet, any of which may be bad; `left` counts those still to be looked at, and no
other call comes between, since one thread calls the bridge. `DeviceFrames` calls the same operators as the
device's handlers do. `Draw(FALSE)` is a draw with a missing id or a failed upload,
which the bridge refuses after taking its number. `issued`, `cleared`, `begun` are
history variables: what the game asked for since its last Present. `SceneFirst`
restricts the game to opening each frame with BeginScene before it draws or
clears; with `FALSE` it may call in any order.

### BulkPack

One action of the packer is one item of one draw (vertices, indices, declaration,
constants, textures, bytecode), in the code's order; `table` is the draw array in
the file, which the next frame finds as this one left it; `held` is history: which
data lies where, whole. `LeaveOut` is an item that finds no room. `HeaderValid` and `Taken` are
the viewer's checks of a header and of one range. A frame begins with the numbers
of the frame before it still in the table.

### ComObjects

`heap` holds for each address the count, the pointers that count (one *field* for
each binding, level, swap chain, back buffer, parent, device of a query), and the
two that do not: the container of a surface and the device of a resource. `game` is
history: how many references the game has been given and not returned. A call is
one step, with all AddRef and Release calls it makes and everything the last
Release frees; `Settle` follows that to its end. Creations have an action for
success and one for each point at which memory may run out. `CallWithoutSwapChain`
is a call that follows the pointer a failed Reset has cleared.

The game keeps to COM: it releases only what it holds. It has one thread.

### SurfaceCopies

`sysmem` is the memory of each surface in units of one pixel, or none, since it is
allocated at first use; a cell is where row and pitch lead. `LockRect`,
`WritePixel`, `UnlockRect` are the game's own writing; `ColorFill` is `fill_rect`,
which Clear also calls; `UpdateSurface`, `StretchRect`, `GetRenderTargetData` and
`UpdateTexture` are the callers of `surface_copy_rect`, with `CopyRunsOutOfMemory`
for the copy that gets memory for its source only. `MarkDirty` is
`surface_mark_container_dirty`. `sent` is one copy made for a draw: a state variable
follows one of them at a time, and TLC every one. `astray` says that a call left a
surface's memory: it is the set of the surfaces left, and nothing is modelled after
that. What the game asks for (`Asked`) are all rectangles of the surface and such as
are empty or leave it on one side.

`call` is history, the last call that wrote pixels with the arguments the game gave
it. `Pictures` has it too, and its actions do exactly what `call` says: the colour or
the source, the rectangles and the number of levels are not for `Pictures` to choose.
A game's own write is a fill of one pixel. Surfaces in a block format have no pixels
and are no pictures; of a copy out of one it is promised that it keeps to its
rectangle. The run's `VIEW` leaves `call` out of what tells states apart: no action
and no invariant reads it, and properties of steps are checked for every step.

The game keeps to Direct3D: it writes only while it has a lock, and does not
copy a surface onto itself.

### UploadArena

`arena` is `g_frontend_upload_state` with the contents of the slots;
`constants[d][kind]` holds value, `last_*_const_ref` and dirty flag. A recorded
command keeps its references and, as history, the content of its call. `Present`
follows the references as `bridge_present` does. Bytecode, vertex, index and
texture data are all copied on every draw, in the same way, so one upload of
variable size stands for them. `DrawWithoutArena` is the case that the arena
could not be allocated: `upload_begin_frame` tests for it and `upload_copy` does
not, so the process stops there.

### TextureSync

`textures` holds for each `dx9mt_texture` its generation, level in use (`lod`),
the contents of its levels and `last_upload_generation`, `last_upload_frame_id`;
`cache` is `s_texture_cache`. A draw is the set of textures it binds with the
copies that came with it, and as history what the game had in them. `Draw` is
`fill_draw_texture_stages` with `NeedsUpload` as its condition. Copies are lost
in `Draw` (full arena, refused draw, full replay array), `Present` (no room for
the data, beyond the draws of the file, an earlier frame overwritten unseen),
`TakeFrame` (no drawable), `ReplayDraw` (Metal refuses the texture, or an earlier
stage has none) and `SkipDraw`. `disturbed` remembers, as history, for which
texture and frame this happened. `s_texture_generation` is not a variable: it
decides only which log line is written, since without a copy the cached texture
is used whatever its generation.

Assumed: the game binds textures it fills itself (rendered ones are in
`ViewerReplay`), does not draw with a texture that it has locked, and opens each
frame with BeginScene.

### ViewerReplay

`passes` holds the open encoder, the targets seen in the frame, and what each
texture holds; `overrides` is `s_texture_rt_overrides`, `cached` the ids in
`s_texture_cache`. One action replays one command. `SkipCommand` is every
`continue` before a pass is chosen, `DrawLeftOut` every one after, so both the
effect a draw has and the effect it leaves when dropped are modelled.
`StretchRect` always opens its own pass. `CommitFrame` and `AbandonFrame` are the
end of `render_frame` with and without an encoder for the overlay. `executed` and
`last` are history. `TargetImages` names the presented surface when a frame begins
(`presented`) and numbers the commands as they are met (`at`): what it shows is the
image of that surface, or nothing if the frame named none.

Assumed of the code around it: a surface keeps its description as long as it
keeps its id; the overlay's pipeline exists and the window has a size; the
contents of a drawable do not survive from one frame to the next; when no drawable
or command buffer is to be had, `render_frame` returns before anything changes,
which is a frame that is not begun. Viewport, scissor, blend, cull, depth and
sampler state are set again before every draw, so they cannot leak and are left
out.

### ShaderProgram, ShaderParse, ShaderEmit, ShaderTranslation

A shader is a sequence of units (the dwords of one instruction as they were written)
and a count, the dwords that the packet says belong to it. The parser does not see
units: it reads dwords one after the other, and what it reads when it is out of step
is modelled too (`Opcode`, `Register`: the low bits of a register taken for an opcode
and the other way round; the low bits of a semantic are a usage, which is an opcode
too). `Parse` is one turn of the loop of `dx9mt_sm_parse`.

`ShaderEmit` writes lines rather than text: a declaration with the name it declares,
an assignment with the names it uses and, for each component of the destination, the
expression it receives. `<<>>` is an expression that the Metal compiler refuses:
a component of what is declared as a float (`Extent`, `Compiles`: inputs of one
component, fog, depth), a destination without components (`Fits`), a scalar where a
vector is meant and the other way round. `Emit` appends lines until the buffer is
full, like the emitter's `emit`. The operand of `lit` and the vector of a matrix
operation go through a buffer of 128 bytes (`d3d9_shader_emit_msl.c:414`) that cuts
what does not fit and sets no error; `TooLong` counts the characters, and a line with
an operand cut off is "unclosed", since the brackets at its end are gone.

## 3. Runs

| Run | Instance | What it shows |
|---|---|---|
| `ipc_restart` | 2 header and 2 payload words, 3 presents, 2 processes each of which may stop anywhere, fair viewer, loads not late | numbers start again from 1, and still what is rendered is one present, with the header that was checked, and frames come in order; a number other than the last one taken does not stay in the file, if there is memory for a snapshot |
| `ipc_late_loads` (violation) | the same with 1 process and late loads | see below |
| `device_frames` | room for 3 commands and 2 in the file, 9 packets, 1 device | over any passes the bridge holds what was issued; its counters agree; each Present shows the frame |
| `bridge_client` | room for 3 commands and 2 in the file, packet numbers 0 to 5, frames 1 and 2, batches up to 3 | stored commands are in order of their numbers; a published frame continues the one in the file or is newer than all of it; commands stay or go together |
| `bulk_pack` | a file of 96 bytes, up to 2 draws with 8 items, 2 of them with data of 8, 16 or 40 bytes | each frame is accepted; the viewer takes the data that is there and takes it for what it is |
| `com_objects` | an object of every kind and 3 surfaces, 5 at a time, 3 references with the game | every count is exact; what exists is what can be reached; containers hold their surfaces; a device has a swap chain of its own unless a Reset failed; queries keep their device |
| `surface_copies` | 2 textures of 2 levels (1x2, 1x1), one of render targets, a 2x1 surface, 1 colour, 2 and 3 generations | nothing leaves a surface's memory; what was sent is current while the generation is; each call does what its arguments say to the pixels they name |
| `upload_frames` | 2 slots of 6 bytes aligned to 2, 3 frame ids, 2 settings | draws keep their data while slots fill, fail and come round; cached constants are current |
| `texture_refresh` | 1 texture with 2 levels, 2 generations, refresh every 2 frames, 3 frames presented with up to 2 draws each, 1 draw in the file, frame numbers modulo 4, copies lost anywhere | if in the refresh interval no copy was lost and no other level chosen, the viewer draws with the texels of the call |
| `replay_frames` | 2 surfaces, one belonging to a texture, 2 textures, frames of up to 3 commands, Metal may refuse anything | surfaces hold exactly their commands, reads of what the frame drew find it, what is shown is the presented surface and cleared |
| `shader_translation` | every operation on every mask with vectors and with replicated operands; five streams cut at every length; registers and tables at their limits; all pairs of 5 to 12 kinds of unit | what is accepted is what was written; the text is complete or not used, or has brackets left open; names are declared; masks select in the cases of `Handled` and in no others; both sides number attributes alike; every shader is settled |
| `shader_masks` (violation) | `cmp` with masks that leave out x | see below |

Why the bounds are enough. `FrameIpc`: two words on either side give a half-old
header and a half-old payload, three presents let one be shown, one overtaken
during the copy and one follow; the proofs remove the bound. `DeviceFrames`: 3
commands fill the array and exceed the file's, and 9 packets are enough to fill
it, drop one, present and begin the next frame. `BackendBridge`: six numbers give
a repeated, an older, a skipped and the invalid number 0, and fill the array with
one to spare; a batch of three can be bad at its beginning, middle and end; the
proofs remove the bound. `BulkPack`: two draws and
an overfull table, and data that leaves no, little or much room behind it; the
proofs remove the bound. `ComObjects`: five objects are a Direct3D object, device,
swap chain and back buffer with one resource, or a texture with two levels that
fails at each of them; three references let the game hold the same thing twice;
the proofs remove the bound.
`SurfaceCopies`: different shapes give different pitches, two levels an update that
stops between them; three generations of the one that is updated let both levels be
copied. `UploadArena`: three copies of two bytes fill a slot, so a draw
with a payload can fail at its last upload and the next at its first; 3 frame ids
with 2 slots wrap so that two frames in a row use the same slot, as 2^32 and 3 do.
`ViewerReplay`: three commands give a target, another one, and the return to the
first. `TextureSync`: textures do not influence one another except that a draw stops
at the first that is missing, which for the others is the loss that `SkipDraw` shows
for the one; an interval of 2 lets a copy be lost, be relied on in the next frame,
and be made up for in the one after; one draw in the file makes the second one of
a frame be cut off; the fourth frame has the number 0. `ShaderTranslation`: an
instruction is emitted without regard to the others except through declarations, so
single operations and pairs of units show what longer shaders do.
The runs without deadlock check (`CHECK_DEADLOCK FALSE`) are those in which the
game may be gone or its bound of packets, frames or generations reached, the process
stopped in a call that cannot go on, or the shader done.

### Disagreements between the code and what is said of it

`ipc_late_loads`: `architecture.md:286` says that copying the frame and comparing the
sequence again keeps the viewer from "racing a writer mutating the shared buffer
underneath". The second load of the sequence (`metal_viewer.m:3818`) is an acquire
load; it keeps later accesses behind it, not the `memcpy` before it. In a build that
loads words of the copy after it, as ARM64 permits, a frame mixed of two presents is
rendered. A fence before the load would forbid it.

`shader_masks`: the comment at `d3d9_shader_emit_msl.c:558` says that `cmp` selects
per component. The emitter takes as many components of each operand as the mask has,
beginning with x, so that `cmp r0.yz` compares and selects x and y. All operations
that work component by component do it that way. `MasksSelect` says in which cases an
assignment has the meaning of its instruction (`Handled`) and that it has it in no
others: masks that begin with x and leave none out, and others when the operands have
the same at the places that are mixed up (`LinedUp`).

### Observed, without a run

Found while modelling; the models contain what is said here unless it says
otherwise.

* *Frame file.* A frame that the viewer has taken and cannot show is not tried again
  (`RenderNothing`): the number is remembered before `render_frame`, which may find no
  drawable. If the game presents no other, the window keeps the old picture.
  `metal_ipc.h:7` says 16 MB; the size is 256 MB.
* *Frames.* With `SceneFirst = FALSE`, a Clear or StretchRect after Present and
  before BeginScene is thrown away by that BeginScene, although the comment at
  `backend_bridge_stub.c:1192` says that frames are only flushed on Present.
* *Counters.* `bridge_present` compares `g_frame_draw_indexed_count` with
  `draw_total` (line 1238), but a StretchRect is counted in the second only (line
  835), so every frame with one is logged as a mismatch. `CountsAgree` states the
  relation that does hold.
* *Replay.* A draw after a blit to the same target continues in the blit's pass,
  which has no depth attachment, or later loads depth values of an earlier frame
  (`DrawsHaveDepth`). A frame with a Clear and no commands is presented without a
  pass (`ClearIsShown`). A blit from the presented surface reads an offscreen
  texture, but its commands went to the drawable (`ReadsPresented = TRUE`).
* *Two devices.* Every device starts at frame 1 while arena and bridge are global,
  so one device can restart the slot another has not presented, and a new device may
  find the old one's commands (`Devices`, `MaxDevices`). Runs and theorems are about
  one device, which is what the supported game creates.
* *Wrapping.* After 2^32 packets the bridge refuses all of them, since it compares
  numbers without regard to wrapping (`SeqMax`). A texture whose copy was lost and
  that is then not drawn for exactly 2^32 frames (to within the refresh interval)
  looks recently sent, and is drawn from an old copy for a while. TLC shows it with
  more frames than frame numbers (`FirstFrames` excludes it).
* *Objects.* After a failed Reset the swap chain is gone: `GetDisplayMode`,
  `GetBackBuffer` and `GetRasterStatus` go through a NULL pointer
  (`CallWithoutSwapChain`). Resources other than queries do not count their device;
  `GetDevice` after the device's last Release returns a freed one (`Freed`). When
  the present target of a new device were refused, `device_create` would leave the
  swap chain behind; this cannot happen in the order of calls that reach it.
* *Surfaces.* Copies and fills of surfaces in block formats use 4 bytes per pixel
  and one row per line although their memory has one row per four lines, so they
  leave it; `README.md:54` names DXT1, 3 and 5 as supported. `StaysInside` says that
  these are the only surfaces left, and the theorem `BlocksAreLeft` that they are left
  by every call for the whole of one with two rows of pixels or more. `LockRect` returns the start of a surface whatever rectangle is
  asked for. `ColorFill` stores the low bits of the ARGB colour in 16-bit formats.
  `UpdateTexture` reports a failure after levels have been copied.
  `GetRenderTargetData` reads memory that rendering never writes. Copies of a
  surface onto itself are not refused. `levels = 0` makes one level. A texture last
  sent exactly 2^32 changes ago would be taken for unchanged until the refresh.
* *Vertex formats* (not modelled). `SetFVF` takes two blend weights for
  `D3DFVF_XYZB1`, since it halves the difference of two codes that lie 2 apart, so
  that what follows is read 4 bytes too far.
* *Viewer and game* (not modelled). The viewer outlives the game, whose object ids
  start again from 1; cached textures and targets of the last process answer until
  data comes. Object ids have a 24-bit counter that may wrap. A declaration of 64
  elements, which the frontend allows, is refused by the viewer.
* *Shaders.* `sincos` of shader model 2 has three sources and the parser takes one;
  so has `tex` of pixel shaders 1.x a form it does not know, and a relative operand
  of shader model 1 no dword for its address. A relative operand of `ifc` or `breakc`
  has one, which the parser does not skip. (`WellFormed` takes what the parser takes
  and leaves these out.) `lit`, `m4x3`, `m3x3`
  and `m3x2` with partial masks, and `nrm`, `crs`, `dst` and `texld` with replicated
  operands and partial masks, are not cut to the width of the mask. `slt`, `sge` and
  `cmp` on one component append `.x` to what is already one, and with replicated
  operands they assign a vector to `oDepth`. `out.fog`, a float, is
  assigned a vector; inputs of one component are floats and get `.x`; an empty write
  mask leaves `r0.` in the text. None of that compiles, and `Handled` leaves it out. An
  operand of `lit` or a matrix operation whose text is longer than 127 characters, such
  as a relative constant, is cut without an error; the text is compiled and refused. Matrix operations and relative
  reads go to `c[n]` and miss constants defined in the shader. `i#` and `b#` set by
  the game, `out.pointsize`, inputs without an attribute and samplers of vertex
  shaders are used and not declared (`KnownGap`). `num_color_outputs` is the number
  of the last output written plus one. An attribute name made from the register is
  not unique; registers that hold two semantics are declared twice. The viewer puts
  every POSITION in attribute 0, the emitter only the first. The number of a declared
  sampler, of 11 bits, is shifted by without a check (`d3d9_shader_parse.c:327`), which
  is undefined from 32 on; only a line of the log depends on the mask. The models keep
  the number itself, and `TypeOK` names the exception.

## 4. Fairness

`FairSpec` of `FrameIpc` has `WF_vars(ViewerNext)`. The viewer's timer repeats for
the life of the process and a poll has no loop that waits, so a step of the viewer
that stays possible is taken. The writer owes nothing: it may stop presenting, or
die, anywhere. `PollNothing` is left out of `ViewerNext`, since a poll that finds
nothing is no progress. Weak fairness is enough, because a frame that stays in the
file keeps the re-check true; when the writer is always ahead of the viewer a frame
may never be taken, and neither property claims otherwise. Both have the condition
`MemoryIsGranted`: from some time on the snapshot can be allocated. It is a condition
and not fairness, since the code has no claim to memory. `NewSequenceIsTaken`
excuses states in which a present is being written, so that a process that stops in
the middle of one is covered too (its word is 0).

`ShaderTranslation` has `WF_vars(Next)`: the translation is a sequence of calls on
the thread that draws and waits for nothing.

All other specifications are safety only: the game may stop calling at any time,
and `render_frame` runs through without waiting.

## 5. Proofs

All theorems hold for every value of the constants that satisfies the modules'
assumptions and the conditions below. None of the modules uses a recursive operator;
where the code walks a list there is a recursive function or a fold.

| Module | Theorems | Conditions |
|---|---|---|
| `FrameFile_proofs` (`FrameIpc`) | `TypeCorrect` | none |
| | `InvHolds`, `NeverTorn`, `HeaderValidated`, `ChannelRefined` | no process maps the file inside a poll, no more presents than sequence numbers; loads late or not |
| the same (`BulkPack`) | `PackTypeCorrect`, `FramesAreAccepted`, `ViewerTakesWhatIsThere`, `DataIsInPlace` | the table of a full frame fits into the file, which is whole lines of 16 bytes; sums stay below 2^30 |
| `Bridge_proofs` (`BackendBridge`) | `ClientTypeCorrect`, `OrderHolds`, `NeverGoesBack`, `KeptTogether` | none: any client of one thread, any capacities and numbers |
| the same (`DeviceFrames`) | `TypeCorrect`, `CountsHold` | none: any number of devices, any order of calls, wrapping sequence |
| | `InvHolds`, `ReplayHolds`, `AssemblyRefined` | one device, BeginScene first, sequence does not wrap |
| `ComObjects_proofs` | `TypeCorrect`, `InvHolds`, `CountsHold`, `NothingLeaksOrDangles`, `ContainersHold`, `SwapChainsOwned`, `QueriesKeep` | none: any number of objects, bindings, levels and references |
| `SurfaceCopies_proofs` | `TypeCorrect`, `SentStaysCurrent`, `OnlyBlocksAreLeft`, `BlocksAreLeft`, `PicturesRefined` | none: any sizes, formats, number of levels |
| `TextureSync_proofs` | `TypeCorrect` | none: any number of textures, levels and draws, any interval |
| | `InvHolds`, `LossesRepaired` | the first 2^32 frames |
| `ShaderTranslation_proofs` | `TypeCorrect`, `WholeOrNotAtAll`, `TablesAgree`, `MasksCorrect`, `TranslationBounded` | none: any dwords, cut off anywhere, any limits |
| | `ParsedAsWritten` | `WellFormedShaders`: units have the operands the parser takes for their opcode; still cut off anywhere |
| | `UsesAreDeclared` | in states in which the program declares what it uses (`DeclaresWhatItUses`), otherwise any dwords |
| `UploadArena_proofs` | `TypeCorrect` | none: any devices, slots, sizes |
| | `InvHolds`, `DataKept`, `CacheIsCurrent`, `ImmediateRefined` | one device |
| `ViewerReplay_proofs` | `InvHolds`, `SurfacesHold`, `ShownCleared`, `ImagesRefined` | none |
| | `ReadsCurrent` | surfaces do not share a texture, the presented surface is not read |

The conditions are not conveniences: without each of them the property fails, and
TLC shows it with the constants named above.

*FrameIpc.* `NoTornFrame` alone is not inductive, because it says nothing of copies
that are under way. `WriterInv`: a number in the file means that the whole file is
the newest present. `PollInv`: a poll started from a number already issued, and
while that number is still there, what has been copied is the frame it stands for.
This rests on a number not coming back during a poll, which is why wrapping and a
restart inside a poll are excluded. `TakenInv` relates the frame taken last to
`lastSeq`, which the refinement needs for a frame to be taken once. None of it asks
when the loads of the copy complete: the words of the header copy are loaded before the
header is checked, so `taken` is known, and at the re-check the loaded words are of
that frame, in every build. `NeverTorn` and `HeaderValidated` say so, and that what a
late build loads afterwards is never older; only that a picture is of one frame needs a
build whose loads are not late. `ChannelRefined` has the same distinction in the
constant `MayMix` of `FrameChannel`.

*DeviceFrames.* `ReplayHoldsTheFrame` needs that the number of the device and that
of the bridge agree: `NumberInv` says that every packet was taken, and that the
bridge's last frame is the device's once it is begun and smaller before, so the
first BeginScene flushes and later ones do not. `HoldInv` adds that nothing is
issued before. `TypeCorrect` shows that neither array overflows without any of it.

*BackendBridge.* `StoredInSequence` is inductive since `Submit` takes a number
only if it is above the last, and a command is recorded with the number just taken
(`SubmitEffect` says what one packet can do to the record). `KeptTogether` needs it:
after a flush, what is recorded next has a number above everything that was flushed.
`NeverGoesBack` relates the file to the record (`FileInv`): while the bridge is ready,
the frame in the file is a beginning of what is recorded or older than all of it, and
all its numbers have been taken. `StoredInSequence` is what makes a beginning of one
record and a later record comparable.

*ComObjects.* A call is a composition of steps on a heap (AddRef, store a pointer,
empty fields, allocate, add parts, settle), and there is a lemma for each step
that it keeps `Good`: counts are exact, counting pointers lead downwards from query to
device to container to the rest (`Height`), what is not allocated refers to
nothing, devices of resources exist or are marked as gone, containers hold their
surfaces, and devices and queries outside a set X of those under construction are
complete. Between the steps somebody holds the references that are on the way;
`Good` counts them as if they were the game's. The step that matters is `Settle`: the
code follows a last Release from object to object, and since a chain has at most four
heights, three rounds of `Doomed` find all that loses its last reference
(`FreedObjects`). `NothingLeaksOrDangles` is then an argument by height.

*BulkPack.* `used` stays on a 16-byte line inside the file, everything packed ends
at or before it, and the entries passed so far name exactly the data that is held;
so a later item overlaps no earlier one, and an entry not reached yet is never read.
That rounding up never turns what fits into what does not is a lemma on multiples
of 16 (`RoundedFits`).

*SurfaceCopies.* `SentIsCurrent` needs only that no generation is ahead of its
texture's and that what was sent was there. The step is split in two facts about
every call (`Relied`): no generation goes back, and where one stays, an unlocked
level keeps its contents. `OnlyBlocksAreLeft` rests on rows and columns of a valid
rectangle leading into the memory (`RowColumn`), and types on a scaled offset staying
in the scaled side (`Scaled`). `BlocksAreLeft` is the other
side: the rectangle of a whole surface in a block format is valid, and its last row is
looked for behind the memory. `PicturesRefined` shows that each call changes the pixels
that its arguments name and no other, and to what they name, because different pixels
of a surface with pixels lie in different cells (`CellsDiffer`), because the unit
taken for a pixel is the one its coordinates lead to in the source's rectangle
(`MovedPixel`), and because memory which appears on first use shows nothing, as no
memory does.

*TextureSync.* What the promise says of a draw that is replayed has to be known while
the draw is on its way. The invariant looks at the draws on their way as one sequence,
from the first in the frame shown to the last recorded. Each draw relies on the last
copy before it in that sequence, or on the viewer's cache if there is none, and that
copy holds what the game had in the texture unless it was lost; in that case it is
not older than the refresh interval, and the loss is among those remembered. The
books of the game's side (`last_upload_generation`, `last_upload_frame_id`) make the
same promise for the draw that comes next. A copy that is not made because the frame
number seems recent is where numbers that come back would break it.

*ShaderTranslation.* The assumption on shaders says that they are made of dwords and
that the count of a shader does not exceed what is in memory; the viewer looks
at that before it parses (`invalid shader bytecode bulk range`). It does not say that
the dwords are a program: the operand of an instruction may be a comment, and the
parser goes on from there. `ParseType` gives every dword a type both as an opcode and
as a register and shows that each of the eleven actions keeps the program's; that a
register number which becomes a bit is below 32 is what `InRange` and the check of
`Dcl` contribute, and `TypeOK` is exact about the one that neither looks at, a declared
sampler's. `WholeOrNotAtAll` rests on `AllWritten`: as long as there is no
error the buffer holds the declarations and the lines of the instructions done.
`FlattenSeq`, with which all text is put together, is a recursive function; its value
on a longer sequence is shown by induction over a set of numbers (`SetInduction`),
for which the library's least-number principle is enough. `TablesAgree` follows the
declarations of the inputs through the emitted struct and compares the emitter's table
of attributes with the viewer's, usage by usage. `NothingLeftOut` also says that a
line has brackets left open exactly if an operand was cut.

`MasksCorrect` has two directions, one for each group of operations. The component c of
a mask gets what the operands have at the place of c among the components written
(`Rank`), and is meant to get what they have at c (`EachRight`); the two are the same if
and only if the operands agree there (`LinedUp`), since the text of an assignment tells
its operands apart (`EachSame`). A mask that begins with x and leaves none out puts
every component at its own place (`InPlaceIsPrefix`), and replicated operands have the
same everywhere (`ReplicatedLinesUp`). What is computed on four components and not cut
(`NotCut`) has the wrong number of them. The second direction leaves `dst` out, two
components of which may be the same operand's.

`ParsedAsWritten` is about shaders that are programs. Under
`WellFormedShaders` the parser, wherever it looks for the next opcode, is between two
units: for some k it has taken the first k, and its instructions, declarations and
constants are what those say (`Passed`). `UnitAt` shows that the dwords from there on
begin with unit k + 1, although the parser sees only the stream and the stream may be
cut off inside the unit; `OperandsFound`, that the places it computes for operands,
from one to the next past the address of each relative one, are those of the unit's
registers. Each of the actions then takes exactly that unit or fails (`TakesUnit`).
The hypothesis is needed: what the parser makes of other units is among the
observations on *Shaders* below. Of the shaders of `shader_translation`, TLC evaluates
the hypothesis as an assumption of `MCShaderTranslation`.

`UsesAreDeclared` relates the two halves of the translation, which share only the
numbers that the parser keeps: the emitter declares temporaries up to `maxTemp`, the
outputs in a set of bits, `fog` and depth if a flag is set, while its statements name
the registers of each instruction. `AllCounted` says that the numbers cover every
register of every instruction kept (they only grow, `Beyond`); `VsHave` and `PsHave`
say which names a stage declares, `LinesNames` that a statement names registers of
its instruction only. `track_register_usage` counts colours, fog and depth of a
destination only and is not called for the operands of conditions; that an
instruction writes those, and that inputs, textures and the outputs of version 3 are
declared, is the condition `DeclaresWhatItUses` on the program. It is a condition on
the bytecode that shaders out of a compiler meet as a rule, and every shader that the run `shader_translation`
translates meets it (add it as an invariant,
`status = "translated" => DeclaresWhatItUses(prog)`, to see that). A shader that breaks
it names what is not declared, and the Metal compiler refuses its function.

`TranslationBounded` is the part of termination that is a safety property. `StepsLeft`
counts the dwords not passed, the instructions not written and the phases to come;
`ParsePasses` shows that a turn of the parser's loop gives up, ends or passes at least
one dword of the shader, whatever that dword is (a comment of length zero, a relative
operand, an instruction cut off), so every step makes the count smaller. A translation
has at most `shader.count + MaxInstructions + 4` steps. That the steps are taken, and
that one can be taken until the shader is translated or given up, is what TLC adds
with `Settles`.

*UploadArena.* A draw's data is safe because references lie below the next free
byte of the slot in use (`PlacedInv`) and copies only write above it; cached
references stay good because they are of the frame the arena is in (`FrameInv`).
A copy that fails changes nothing below `next` and gives an empty reference,
which is not reused.

*ViewerReplay.* `PassesOK` says that the open pass is on a target seen in this
frame and that only seen targets hold commands, so a first pass never clears work
of the frame and a later one always loads it. `LinksAreCurrent` says that what was
drawn off screen is linked, which makes a read find it.

`ImagesRefined` follows the numbers of the commands: what a surface holds is the
numbers of its commands in order, and the frame's presented surface is fixed when it
begins, so that `Show` is left no choice.

Each refinement is proved as: `Init` maps to the abstract `Init`, and a step under
the invariant maps to an abstract step or a stutter.

Only model-checked: liveness (`ImplementsLiveChannel`, `NewSequenceIsTaken`,
`Settles`), which is outside the prover; of `Settles`, the bound on the number of
steps is proved.

## 6. Not modelled

* *Shader and pipeline caches of the viewer.* Libraries by the hash of the
  bytecode, pipelines and samplers by keys. `ViewerReplay` lets any draw find no
  pipeline. The keys are values computed from one draw; that a pipeline's key has the
  stride but not the declaration is listed among the hazards.
* *Runtime.* The packet counter is in `DeviceFrames`. The latch of
  `ensure_initialized` and two threads racing in it are left out; the game drives its
  device from one thread.
* *Setters of render state, sampler state, transforms, viewport, scissor.*
  Assignments to words that a draw copies. State blocks are stubs. Contents of vertex
  and index buffers are data of a draw (`UploadArena`).
* *Software present.* Off unless an environment variable is set; it writes a pattern
  into the back buffer.
* *Adapter tables, capabilities, exports; logging and dumps; crash handler; the
  in-process presenter; the contract test.* Constants, output, machine patches, a
  window with one colour, and calls that `BackendBridge` admits.
