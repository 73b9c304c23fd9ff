----------------------------- MODULE ComObjects -----------------------------
(***************************************************************************)
(* The COM objects of the frontend: who refers to whom, the reference      *)
(* counts, and what the last Release of an object takes with it.  The game *)
(* calls from one thread; a call is one step.                              *)
(*                                                                         *)
(* A field is a pointer that counts: a binding of a device, its swap chain *)
(* and its parent, the back buffer of a swap chain, the levels of a        *)
(* texture, the device of a query.  Two pointers do not count: the         *)
(* container of a surface and the device of everything but a query.        *)
(*                                                                         *)
(* The present target of a new device is always accepted: the bridge has   *)
(* been ready since Direct3DCreate9, and sizes and ids are not zero.       *)
(***************************************************************************)
EXTENDS Integers, FiniteSets

CONSTANTS
  Objects,        \* addresses of the process heap
  Kind,           \* what is allocated at each
  RenderTargets,  \* DX9MT_MAX_RENDER_TARGETS
  Stages,         \* DX9MT_MAX_TEXTURE_STAGES
  Streams,        \* DX9MT_MAX_STREAMS
  Levels,         \* the most levels of a texture
  Faces,          \* 6
  HeapObjects,    \* how many objects there is memory for
  GameRefs,       \* how many references the game keeps
  Null,           \* NULL
  Freed           \* history: a pointer to a device that is no more

Kinds == {"d3d9", "device", "swapchain", "surface", "texture", "cube", "vb",
          "ib", "vdecl", "vs", "ps", "query"}

ASSUME ObjectsAssumption ==
  /\ IsFiniteSet(Objects)
  /\ Kind \in [Objects -> Kinds]
  /\ RenderTargets \in Nat \ {0}
  /\ Stages \in Nat
  /\ Streams \in Nat
  /\ Levels \in Nat
  /\ Faces \in Nat
  /\ HeapObjects \in Nat
  /\ GameRefs \in Nat
  /\ Null \notin Objects
  /\ Freed \notin Objects
  /\ Null # Freed

Containers == {"swapchain", "texture", "cube"}

VARIABLES
  heap,     \* reference counts and pointers of the objects
  game,     \* history: the references the game has been given
  fvf,      \* is the fvf of a device set
  lost,     \* history: has the last Reset of a device failed half-way
  crashed   \* history: a call went through a NULL or freed pointer

vars == <<heap, game, fvf, lost, crashed>>

Of(kind) == {o \in Objects : Kind[o] = kind}
Surfaces == Of("surface")
Devices == Of("device")

\* The counting fields of each kind of object, and their number.
Width(kind) ==
  CASE kind = "device" ->
         [rt |-> RenderTargets, texture |-> Stages, stream |-> Streams,
          depth |-> 1, indices |-> 1, vdecl |-> 1, vs |-> 1, ps |-> 1,
          swapchain |-> 1, parent |-> 1]
    [] kind = "swapchain" -> [backbuffer |-> 1]
    [] kind = "texture" -> [level |-> Levels]
    [] kind = "cube" -> [level |-> Levels * Faces]
    [] kind = "query" -> [device |-> 1]
    [] OTHER -> [none |-> 0]

Slots(kind) ==
  UNION {{role} \X (0..(Width(kind)[role] - 1)) : role \in DOMAIN Width(kind)}

Own == [o \in Objects |-> {o} \X Slots(Kind[o])]
FieldsOf(D) == UNION {Own[o] : o \in D}
Fields == FieldsOf(Objects)

At(o, role, i) == <<o, <<role, i>>>>
The(o, role) == At(o, role, 0)

Init ==
  /\ heap = [refs |-> [o \in Objects |-> 0],
             ptr |-> [f \in Fields |-> Null],
             container |-> [s \in Surfaces |-> Null],
             device |-> [o \in Objects |-> Null]]
  /\ game = [o \in Objects |-> 0]
  /\ fvf = [d \in Devices |-> FALSE]
  /\ lost = [d \in Devices |-> FALSE]
  /\ crashed = FALSE

-----------------------------------------------------------------------------
\* Counting.

Alive(h) == {o \in Objects : h.refs[o] > 0}
Unused(h, kind) == Of(kind) \ Alive(h)
Room(h, n) == Cardinality(Alive(h)) + n <= HeapObjects

\* Which of the fields F refer to o.
From(h, F, o) == {f \in F : h.ptr[f] = o}
Names(h, o) == From(h, Fields, o)

SafeAddRef(h, o) == IF o = Null THEN h ELSE [h EXCEPT !.refs[o] = @ + 1]

\* The fields F give up what they refer to.
Drop(h, F) ==
  [h EXCEPT !.refs = [o \in Objects |->
                        h.refs[o] - Cardinality(From(h, F, o))],
            !.ptr = [f \in Fields |-> IF f \in F THEN Null ELSE h.ptr[f]]]

\* D, and the objects to which nothing but fields of D refers.
Doomed(h, D) ==
  LET F == FieldsOf(D)
      last == {f \in F : /\ h.ptr[f] # Null
                        /\ h.refs[h.ptr[f]] = Cardinality(From(h, F, h.ptr[f]))}
  IN  D \cup {h.ptr[f] : f \in last}

\* Mutant: surfaces keep the container.
FreeKeepingContainers(h, D) ==
  [Drop(h, FieldsOf(D)) EXCEPT
     !.container = [s \in Surfaces |-> IF s \in D THEN Null ELSE h.container[s]],
     !.device = [o \in Objects |->
        IF o \in D THEN Null
        ELSE IF h.device[o] \in D THEN Freed ELSE h.device[o]]]

\* The objects D are freed: they release what their fields refer to, surfaces
\* forget the texture or swap chain they were part of, and a device is no
\* longer where its resources look for it.
Free(h, D) ==
  LET F == FieldsOf(D)
      parts == {f \in F : Kind[f[1]] \in Containers}
  IN  [Drop(h, F) EXCEPT
         !.container = [s \in Surfaces |->
            IF s \in D \/ From(h, parts, s) # {}
              THEN Null ELSE h.container[s]],
         !.device = [o \in Objects |->
            IF o \in D THEN Null
            ELSE IF h.device[o] \in D THEN Freed ELSE h.device[o]]]

\* The objects S have lost references.  Those with none left are freed, and
\* what they were the last to refer to: at most a query, its device, a texture
\* bound to that and a surface of it.
Settle(h, S) ==
  LET first == UNION {{o} : o \in {x \in S : h.refs[x] = 0}} IN
  IF first = {} THEN h
  ELSE Free(h, Doomed(h, Doomed(h, Doomed(h, first))))

\* Release, of whichever kind.
Release(h, o) == Settle([h EXCEPT !.refs[o] = @ - 1], {o})

\* The fields F let go of what they refer to.
Clear(h, F) == Settle(Drop(h, F), {h.ptr[f] : f \in F} \ {Null})

\* Mutant: the old binding is released, the new one does not count.
BindUncounted(h, f, o) ==
  IF h.ptr[f] = o
    THEN h
    ELSE Settle([Drop(h, {f}) EXCEPT !.ptr[f] = o], {h.ptr[f]} \ {Null})

\* A setter: nothing if it is bound already, otherwise AddRef before Release.
Bind(h, f, o) ==
  IF h.ptr[f] = o
    THEN h
    ELSE Settle([Drop(SafeAddRef(h, o), {f}) EXCEPT !.ptr[f] = o],
                {h.ptr[f]} \ {Null})

\* HEAP_ZERO_MEMORY and a reference count of one.
Allocate(h, o, d) == [h EXCEPT !.refs[o] = 1, !.device[o] = d]

\* Surfaces made for the fields of a new texture, cube or swap chain c.
AddParts(h, c, d, part) ==
  LET made == {part[f] : f \in DOMAIN part} IN
  [refs |-> [o \in Objects |-> IF o \in made THEN 1 ELSE h.refs[o]],
   ptr |-> [f \in Fields |-> IF f \in DOMAIN part THEN part[f] ELSE h.ptr[f]],
   container |-> [s \in Surfaces |->
                    IF s \in made THEN c ELSE h.container[s]],
   device |-> [o \in Objects |-> IF o \in made THEN d ELSE h.device[o]]]

\* Different surfaces for the fields F.
PartsFor(h, F) ==
  {part \in [F -> Unused(h, "surface")] :
     \A f, g \in F : part[f] = part[g] => f = g}

\* A swap chain c of device d with its back buffer b, bound as target 0.
AddSwapChain(h, d, c, b) ==
  LET made == AddParts(Allocate(h, c, d), c, d,
                       [f \in {The(c, "backbuffer")} |-> b])
  IN  [SafeAddRef(made, b) EXCEPT !.ptr[The(d, "swapchain")] = c,
                                  !.ptr[The(d, "rt")] = b]

-----------------------------------------------------------------------------
\* Calls.  The game calls only what it has a reference to, and passes only
\* objects it has a reference to.

Holds(o) == ~crashed /\ game[o] > 0

\* The game is given a new reference to o.
Give(o) ==
  /\ Cardinality({p \in Objects \X (1..GameRefs) : p[2] <= game[p[1]]}) < GameRefs
  /\ game' = [game EXCEPT ![o] = @ + 1]

Hand(h, o) ==
  /\ Give(o)
  /\ heap' = h
  /\ UNCHANGED <<fvf, lost, crashed>>

Fail(h) == heap' = h /\ UNCHANGED <<game, fvf, lost, crashed>>

\* A getter: what a field refers to, with a reference.
Get(f) ==
  /\ heap.ptr[f] # Null
  /\ Hand(SafeAddRef(heap, heap.ptr[f]), heap.ptr[f])

Crash == crashed' = TRUE /\ UNCHANGED <<heap, game, fvf, lost>>

Direct3DCreate9(o) ==
  /\ ~crashed
  /\ o \in Unused(heap, "d3d9") /\ Room(heap, 1)
  /\ Hand(Allocate(heap, o, Null), o)

\* QueryInterface for an interface the object has, or AddRef.
QueryInterface(o) == Holds(o) /\ Hand(SafeAddRef(heap, o), o)

D3D9QueryInterface(o) == Kind[o] = "d3d9" /\ QueryInterface(o)
DeviceQueryInterface(o) == Kind[o] = "device" /\ QueryInterface(o)
SwapChainQueryInterface(o) == Kind[o] = "swapchain" /\ QueryInterface(o)
SurfaceQueryInterface(o) == Kind[o] = "surface" /\ QueryInterface(o)
TextureQueryInterface(o) == Kind[o] = "texture" /\ QueryInterface(o)
CubeQueryInterface(o) == Kind[o] = "cube" /\ QueryInterface(o)
VertexBufferQueryInterface(o) == Kind[o] = "vb" /\ QueryInterface(o)
IndexBufferQueryInterface(o) == Kind[o] = "ib" /\ QueryInterface(o)
DeclarationQueryInterface(o) == Kind[o] = "vdecl" /\ QueryInterface(o)
VertexShaderQueryInterface(o) == Kind[o] = "vs" /\ QueryInterface(o)
PixelShaderQueryInterface(o) == Kind[o] = "ps" /\ QueryInterface(o)
QueryQueryInterface(o) == Kind[o] = "query" /\ QueryInterface(o)

\* GetDevice of a resource, a swap chain or a query.
GetDevice(o) ==
  /\ Holds(o)
  /\ \/ heap.device[o] \in Objects
        /\ Hand(SafeAddRef(heap, heap.device[o]), heap.device[o])
     \/ heap.device[o] = Freed /\ Crash

SwapChainGetDevice(o) == Kind[o] = "swapchain" /\ GetDevice(o)
SurfaceGetDevice(o) == Kind[o] = "surface" /\ GetDevice(o)
TextureGetDevice(o) == Kind[o] = "texture" /\ GetDevice(o)
CubeGetDevice(o) == Kind[o] = "cube" /\ GetDevice(o)
VertexBufferGetDevice(o) == Kind[o] = "vb" /\ GetDevice(o)
IndexBufferGetDevice(o) == Kind[o] = "ib" /\ GetDevice(o)
DeclarationGetDevice(o) == Kind[o] = "vdecl" /\ GetDevice(o)
VertexShaderGetDevice(o) == Kind[o] = "vs" /\ GetDevice(o)
PixelShaderGetDevice(o) == Kind[o] = "ps" /\ GetDevice(o)
QueryGetDevice(o) == Kind[o] = "query" /\ GetDevice(o)

\* Release by the game.
GiveBack(o) ==
  /\ Holds(o)
  /\ heap' = Release(heap, o)
  /\ game' = [game EXCEPT ![o] = @ - 1]
  /\ UNCHANGED <<fvf, lost, crashed>>

D3D9Release(o) == Kind[o] = "d3d9" /\ GiveBack(o)
DeviceRelease(o) == Kind[o] = "device" /\ GiveBack(o)
SwapChainRelease(o) == Kind[o] = "swapchain" /\ GiveBack(o)
SurfaceRelease(o) == Kind[o] = "surface" /\ GiveBack(o)
TextureRelease(o) == Kind[o] = "texture" /\ GiveBack(o)
CubeRelease(o) == Kind[o] = "cube" /\ GiveBack(o)
VertexBufferRelease(o) == Kind[o] = "vb" /\ GiveBack(o)
IndexBufferRelease(o) == Kind[o] = "ib" /\ GiveBack(o)
DeclarationRelease(o) == Kind[o] = "vdecl" /\ GiveBack(o)
VertexShaderRelease(o) == Kind[o] = "vs" /\ GiveBack(o)
PixelShaderRelease(o) == Kind[o] = "ps" /\ GiveBack(o)
QueryRelease(o) == Kind[o] = "query" /\ GiveBack(o)

-----------------------------------------------------------------------------
\* Devices.

\* release_bindings and the release of the swap chain.
Unbound(h, d) == Clear(h, FieldsOf({d}) \ {The(d, "parent")})

\* reset_internal where the swap chain or its back buffer finds no memory: the
\* device has neither bindings nor a swap chain any more.
ResetFails(d) ==
  /\ Holds(d)
  /\ heap' = Unbound(heap, d)
  /\ lost' = [lost EXCEPT ![d] = TRUE]
  /\ UNCHANGED <<game, fvf, crashed>>

\* Mutant: the new swap chain is made first and then released with the rest.
ResetReleasingLast(d) ==
  /\ Holds(d) /\ Room(heap, 2)
  /\ \E c \in Unused(heap, "swapchain"), b \in Unused(heap, "surface") :
       heap' = Unbound(AddSwapChain(Unbound(heap, d), d, c, b), d)
  /\ lost' = [lost EXCEPT ![d] = FALSE]
  /\ UNCHANGED <<game, fvf, crashed>>

\* Reset: the new swap chain may be where the old one was.
Reset(d) ==
  /\ Holds(d)
  /\ LET bare == Unbound(heap, d) IN
       /\ Room(bare, 2)
       /\ \E c \in Unused(bare, "swapchain"), b \in Unused(bare, "surface") :
            heap' = AddSwapChain(bare, d, c, b)
  /\ lost' = [lost EXCEPT ![d] = FALSE]
  /\ UNCHANGED <<game, fvf, crashed>>

\* A new device refers to its parent.
NewDevice(h, p, d) ==
  [SafeAddRef(Allocate(h, d, Null), p) EXCEPT !.ptr[The(d, "parent")] = p]

CreateDevice(p, d, c, b) ==
  /\ Holds(p) /\ Kind[p] = "d3d9"
  /\ d \in Unused(heap, "device") /\ c \in Unused(heap, "swapchain")
  /\ b \in Unused(heap, "surface")
  /\ Room(heap, 3)
  /\ Give(d)
  /\ heap' = AddSwapChain(NewDevice(heap, p, d), d, c, b)
  /\ fvf' = [fvf EXCEPT ![d] = FALSE]
  /\ lost' = [lost EXCEPT ![d] = FALSE]
  /\ UNCHANGED crashed

\* No memory for the swap chain: the reference on the parent is given back.
CreateDeviceFails(p, d) ==
  /\ Holds(p) /\ Kind[p] = "d3d9"
  /\ d \in Unused(heap, "device") /\ Room(heap, 1)
  /\ Fail(Release(NewDevice(heap, p, d), d))

GetDirect3D(d) == Holds(d) /\ Get(The(d, "parent"))

\* GetSwapChain looks whether there is one,
GetSwapChain(d) == Holds(d) /\ Get(The(d, "swapchain"))

\* GetBackBuffer, GetDisplayMode and GetRasterStatus do not.
GetBackBuffer(d) ==
  /\ Holds(d)
  /\ heap.ptr[The(d, "swapchain")] # Null
  /\ Get(The(heap.ptr[The(d, "swapchain")], "backbuffer"))

CallWithoutSwapChain(d) ==
  /\ Holds(d)
  /\ heap.ptr[The(d, "swapchain")] = Null
  /\ Crash

SwapChainGetBackBuffer(c) ==
  Holds(c) /\ Kind[c] = "swapchain" /\ Get(The(c, "backbuffer"))

\* The Present of a swap chain is that of its device.
SwapChainPresent(c) ==
  /\ Holds(c) /\ Kind[c] = "swapchain"
  /\ heap.device[c] = Freed
  /\ Crash

-----------------------------------------------------------------------------
\* Resources.

MayCreate(d, o, kind) ==
  heap.refs[o] = 0 /\ Kind[o] = kind /\ Kind[d] = "device" /\ Holds(d)

\* An object of one piece.
Create(d, o, kind) ==
  /\ MayCreate(d, o, kind) /\ Room(heap, 1)
  /\ Hand(Allocate(heap, o, d), o)

CreateRenderTarget(d, s) == Create(d, s, "surface")
CreateDepthStencilSurface(d, s) == Create(d, s, "surface")
CreateOffscreenPlainSurface(d, s) == Create(d, s, "surface")
CreateVertexBuffer(d, b) == Create(d, b, "vb")
CreateIndexBuffer(d, b) == Create(d, b, "ib")
CreateVertexDeclaration(d, v) == Create(d, v, "vdecl")
CreateVertexShader(d, s) == Create(d, s, "vs")
CreatePixelShader(d, s) == Create(d, s, "ps")

\* The second allocation fails: data, elements or code.
CreateFails(d, o, kind) ==
  /\ MayCreate(d, o, kind) /\ Room(heap, 1)
  /\ Fail(Release(Allocate(heap, o, d), o))

VertexBufferCreateFails(d, b) == CreateFails(d, b, "vb")
IndexBufferCreateFails(d, b) == CreateFails(d, b, "ib")
DeclarationCreateFails(d, v) == CreateFails(d, v, "vdecl")
VertexShaderCreateFails(d, s) == CreateFails(d, s, "vs")
PixelShaderCreateFails(d, s) == CreateFails(d, s, "ps")

\* Mutant: like the other resources.
CreateQueryUncounted(d, q) == Create(d, q, "query")

\* A query refers to its device.
CreateQuery(d, q) ==
  /\ MayCreate(d, q, "query") /\ Room(heap, 1)
  /\ Hand([SafeAddRef(Allocate(heap, q, d), d)
             EXCEPT !.ptr[The(q, "device")] = d], q)

LevelsOf(t, n) == {At(t, "level", i) : i \in 0..(n - 1)}

\* An object of n surfaces.
CreateWithParts(d, t, kind, n) ==
  /\ MayCreate(d, t, kind) /\ Room(heap, n + 1)
  /\ \E part \in PartsFor(heap, LevelsOf(t, n)) :
       Hand(AddParts(Allocate(heap, t, d), t, d, part), t)

\* Mutant: only the texture itself is given back.
CreateWithPartsLeaks(d, t, kind, n) ==
  /\ MayCreate(d, t, kind) /\ Room(heap, n + 1)
  /\ \E part \in PartsFor(heap, LevelsOf(t, n)) :
       Fail([AddParts(heap, Null, d, part) EXCEPT !.ptr = heap.ptr])

\* After n surfaces there is no memory for another: they are given back.
CreateWithPartsFails(d, t, kind, n) ==
  /\ MayCreate(d, t, kind) /\ Room(heap, n + 1)
  /\ \E part \in PartsFor(heap, LevelsOf(t, n)) :
       Fail(Release(AddParts(Allocate(heap, t, d), t, d, part), t))

TextureCreate(d, t) ==
  \E n \in 1..Levels : CreateWithParts(d, t, "texture", n)
TextureCreateFails(d, t) ==
  \E n \in 0..(Levels - 1) : CreateWithPartsFails(d, t, "texture", n)
CubeCreate(d, t) ==
  \E n \in 1..Levels : CreateWithParts(d, t, "cube", n * Faces)
CubeCreateFails(d, t) ==
  \E n \in 0..(Levels * Faces - 1) : CreateWithPartsFails(d, t, "cube", n)

GetSurfaceLevel(t, i) ==
  /\ Holds(t) /\ Kind[t] = "texture" /\ i \in 0..(Levels - 1)
  /\ Get(At(t, "level", i))
GetCubeMapSurface(t, i) ==
  /\ Holds(t) /\ Kind[t] = "cube" /\ i \in 0..(Levels * Faces - 1)
  /\ Get(At(t, "level", i))

\* GetContainer: the texture or swap chain, if it is still there.
GetContainer(s) ==
  /\ Holds(s) /\ Kind[s] = "surface"
  /\ heap.container[s] # Null
  /\ Hand(SafeAddRef(heap, heap.container[s]), heap.container[s])

-----------------------------------------------------------------------------
\* Bindings.

\* What a setter may be given for a field: NULL or an object of these kinds.
Passed(o, kinds) == o = Null \/ (o \in Objects /\ game[o] > 0 /\ Kind[o] \in kinds)

Set(d, f, o, kinds) ==
  /\ Holds(d) /\ Kind[d] = "device" /\ Passed(o, kinds)
  /\ heap' = Bind(heap, f, o)
  /\ UNCHANGED <<game, lost, crashed>>

SetRenderTarget(d, i, s) ==
  i < RenderTargets /\ Set(d, At(d, "rt", i), s, {"surface"}) /\ UNCHANGED fvf
SetDepthStencilSurface(d, s) ==
  Set(d, The(d, "depth"), s, {"surface"}) /\ UNCHANGED fvf
SetTexture(d, i, t) ==
  /\ i < Stages
  /\ Set(d, At(d, "texture", i), t, {"texture", "cube"}) /\ UNCHANGED fvf
SetStreamSource(d, i, b) ==
  i < Streams /\ Set(d, At(d, "stream", i), b, {"vb"}) /\ UNCHANGED fvf
SetIndices(d, b) == Set(d, The(d, "indices"), b, {"ib"}) /\ UNCHANGED fvf
SetVertexShader(d, s) == Set(d, The(d, "vs"), s, {"vs"}) /\ UNCHANGED fvf
SetPixelShader(d, s) == Set(d, The(d, "ps"), s, {"ps"}) /\ UNCHANGED fvf

\* A declaration takes the place of the vertex format, unless it is the one
\* that is bound,
SetVertexDeclaration(d, v) ==
  /\ Set(d, The(d, "vdecl"), v, {"vdecl"})
  /\ fvf' = IF heap.ptr[The(d, "vdecl")] = v
              THEN fvf ELSE [fvf EXCEPT ![d] = FALSE]

\* and a vertex format, zero or not, that of the declaration.
SetFVF(d, isSet) ==
  /\ Holds(d) /\ Kind[d] = "device"
  /\ heap' = Clear(heap, {The(d, "vdecl")})
  /\ fvf' = [fvf EXCEPT ![d] = isSet]
  /\ UNCHANGED <<game, lost, crashed>>

GetBinding(d, role, i) ==
  /\ Holds(d) /\ Kind[d] = "device" /\ At(d, role, i) \in Fields
  /\ Get(At(d, role, i))

GetRenderTarget(d, i) == GetBinding(d, "rt", i)
GetDepthStencilSurface(d) == GetBinding(d, "depth", 0)
GetTexture(d, i) == GetBinding(d, "texture", i)
GetStreamSource(d, i) == GetBinding(d, "stream", i)
GetIndices(d) == GetBinding(d, "indices", 0)
GetVertexDeclaration(d) == GetBinding(d, "vdecl", 0)
GetVertexShader(d) == GetBinding(d, "vs", 0)
GetPixelShader(d) == GetBinding(d, "ps", 0)

-----------------------------------------------------------------------------
GameReleases(o) ==
  \/ D3D9Release(o) \/ DeviceRelease(o) \/ SwapChainRelease(o)
  \/ SurfaceRelease(o) \/ TextureRelease(o) \/ CubeRelease(o)
  \/ VertexBufferRelease(o) \/ IndexBufferRelease(o) \/ DeclarationRelease(o)
  \/ VertexShaderRelease(o) \/ PixelShaderRelease(o) \/ QueryRelease(o)

GameAsks(o) ==
  \/ D3D9QueryInterface(o) \/ DeviceQueryInterface(o)
  \/ SwapChainQueryInterface(o) \/ SurfaceQueryInterface(o)
  \/ TextureQueryInterface(o) \/ CubeQueryInterface(o)
  \/ VertexBufferQueryInterface(o) \/ IndexBufferQueryInterface(o)
  \/ DeclarationQueryInterface(o) \/ VertexShaderQueryInterface(o)
  \/ PixelShaderQueryInterface(o) \/ QueryQueryInterface(o)
  \/ SwapChainGetDevice(o) \/ SurfaceGetDevice(o) \/ TextureGetDevice(o)
  \/ CubeGetDevice(o) \/ VertexBufferGetDevice(o) \/ IndexBufferGetDevice(o)
  \/ DeclarationGetDevice(o) \/ VertexShaderGetDevice(o)
  \/ PixelShaderGetDevice(o) \/ QueryGetDevice(o)
  \/ GetContainer(o)
  \/ SwapChainGetBackBuffer(o) \/ SwapChainPresent(o)
  \/ \E i \in 0..(Levels * Faces - 1) :
       GetSurfaceLevel(o, i) \/ GetCubeMapSurface(o, i)

DeviceCreates(d, o) ==
  \/ CreateRenderTarget(d, o) \/ CreateDepthStencilSurface(d, o)
  \/ CreateOffscreenPlainSurface(d, o)
  \/ CreateVertexBuffer(d, o) \/ CreateIndexBuffer(d, o)
  \/ CreateVertexDeclaration(d, o) \/ CreateVertexShader(d, o)
  \/ CreatePixelShader(d, o) \/ CreateQuery(d, o)
  \/ VertexBufferCreateFails(d, o) \/ IndexBufferCreateFails(d, o)
  \/ DeclarationCreateFails(d, o)
  \/ VertexShaderCreateFails(d, o) \/ PixelShaderCreateFails(d, o)
  \/ TextureCreate(d, o) \/ TextureCreateFails(d, o)
  \/ CubeCreate(d, o) \/ CubeCreateFails(d, o)

DeviceSets(d, o) ==
  \/ \E i \in 0..(RenderTargets - 1) : SetRenderTarget(d, i, o)
  \/ \E i \in 0..(Stages - 1) : SetTexture(d, i, o)
  \/ \E i \in 0..(Streams - 1) : SetStreamSource(d, i, o)
  \/ SetDepthStencilSurface(d, o) \/ SetIndices(d, o)
  \/ SetVertexShader(d, o) \/ SetPixelShader(d, o)
  \/ SetVertexDeclaration(d, o)

DeviceGets(d) ==
  \/ GetDirect3D(d) \/ GetSwapChain(d) \/ GetBackBuffer(d)
  \/ CallWithoutSwapChain(d)
  \/ \E i \in 0..(RenderTargets - 1) : GetRenderTarget(d, i)
  \/ \E i \in 0..(Stages - 1) : GetTexture(d, i)
  \/ \E i \in 0..(Streams - 1) : GetStreamSource(d, i)
  \/ GetDepthStencilSurface(d) \/ GetIndices(d) \/ GetVertexDeclaration(d)
  \/ GetVertexShader(d) \/ GetPixelShader(d)

Next ==
  \/ \E o \in Objects : Direct3DCreate9(o) \/ GameReleases(o) \/ GameAsks(o)
  \/ \E d \in Devices :
       \/ DeviceGets(d) \/ ResetFails(d) \/ Reset(d)
       \/ \E o \in Objects : DeviceCreates(d, o)
       \/ \E o \in Objects \cup {Null} : DeviceSets(d, o)
       \/ \E isSet \in BOOLEAN : SetFVF(d, isSet)
       \/ \E p \in Of("d3d9") :
            \/ CreateDeviceFails(p, d)
            \/ \E c \in Of("swapchain"), b \in Surfaces :
                 CreateDevice(p, d, c, b)

Spec == Init /\ [][Next]_vars

-----------------------------------------------------------------------------
\* Properties.

TypeOK ==
  /\ heap \in [refs : [Objects -> Nat],
               ptr : [Fields -> Objects \cup {Null}],
               container : [Surfaces -> Objects \cup {Null}],
               device : [Objects -> Objects \cup {Null, Freed}]]
  /\ game \in [Objects -> 0..GameRefs]
  /\ fvf \in [Devices -> BOOLEAN]
  /\ lost \in [Devices -> BOOLEAN]
  /\ crashed \in BOOLEAN

\* Every reference count is what the game has been given plus the fields that
\* refer to the object, whatever has been bound, reset and released in which
\* order: no call forgets a Release or releases what it has not counted.
Accounted ==
  \A o \in Objects :
    heap.refs[o] = game[o] + Cardinality(Names(heap, o))

\* What the fields of some objects refer to.
Reached(S) ==
  S \cup {o \in Objects : \E f \in FieldsOf(S) : heap.ptr[f] = o}

\* The objects that exist are those the game can still get at: nothing is
\* freed that a field of one of them names, and nothing is left over, not by
\* failed calls either, when the game has given everything back.
ExistsWhileReachable ==
  Alive(heap) = Reached(Reached(Reached({o \in Objects : game[o] > 0})))

\* The container of a surface, which is not counted, is an object that the
\* surface is still a part of: GetContainer and the draws that ask for the
\* texture of a target never follow a pointer to a freed one.
ContainersHoldTheirSurfaces ==
  \A s \in Surfaces : heap.container[s] # Null =>
    \E f \in Names(heap, s) : f[1] = heap.container[s]

\* A device whose last Reset did not fail has a swap chain that is its own,
\* so GetBackBuffer, which does not look, finds one.
OwnSwapChain ==
  \A d \in Devices : heap.refs[d] > 0 /\ ~lost[d] =>
    LET c == heap.ptr[The(d, "swapchain")] IN
    c # Null /\ heap.device[c] = d

\* A query outlives its device in no order of releases: the pointer it keeps
\* is to a device that exists.  (A resource's pointer is not counted.)
QueriesKeepTheirDevice ==
  \A q \in Of("query") : heap.refs[q] > 0 =>
    heap.device[q] = heap.ptr[The(q, "device")]
=============================================================================
