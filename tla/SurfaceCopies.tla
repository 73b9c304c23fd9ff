---------------------------- MODULE SurfaceCopies ----------------------------
(***************************************************************************)
(* The memory behind surfaces, and the calls that read and write it: locks *)
(* of the game, fills, copies with and without scaling, the update of a    *)
(* texture level by level, and the copying of a level for a draw.  Memory  *)
(* is allocated at first use and may not be had.  A texture has a          *)
(* generation, by which a later draw knows whether to copy it again.       *)
(*                                                                         *)
(* A unit of memory is what bytes_per_pixel says a pixel is.  A surface in *)
(* a block format has 4 such bytes to a unit, like all formats the         *)
(* function does not know.  What a call does to memory that is not the     *)
(* surface's is not known: nothing is modelled after it.                   *)
(*                                                                         *)
(* The game keeps to the rules of Direct3D: it writes to a surface only    *)
(* between LockRect and UnlockRect, and does not copy a surface onto       *)
(* itself.  Objects and their references are in ComObjects.                *)
(***************************************************************************)
EXTENDS Integers, Sequences

CONSTANTS
  Surfaces,
  Textures,
  Desc,            \* D3DSURFACE_DESC, and whether a surface is lockable
  Levels,          \* of each texture, the surfaces that are its levels
  Colors,          \* what the game fills with or writes
  Zero,            \* HEAP_ZERO_MEMORY
  NoMemory,        \* sysmem is NULL
  MaxGeneration    \* bound: changes of each texture, below 2^32

Formats == {"X8R8G8B8", "R5G6B5", "A8", "DXT1", "DXT3", "DXT5"}

ASSUME SurfaceAssumption ==
  /\ Desc \in [Surfaces -> [width : Nat \ {0}, height : Nat \ {0},
                            format : Formats, target : BOOLEAN,
                            lockable : BOOLEAN]]
  /\ Levels \in [Textures -> Seq(Surfaces)]
  /\ \A t, u \in Textures : \A l \in DOMAIN Levels[t], k \in DOMAIN Levels[u] :
       Levels[t][l] = Levels[u][k] => t = u /\ l = k
  /\ MaxGeneration \in [Textures -> Nat]

VARIABLES
  sysmem,       \* the memory of each surface
  locked,       \* history: has the game locked a surface
  generation,   \* of each texture
  sent,         \* one of the copies made for draws: of which level, when
                \* (last_upload_generation), and as history its contents
  astray,       \* history: surfaces beside whose memory a call read or wrote
  call          \* history: the last call that wrote pixels, as the game made it

vars == <<sysmem, locked, generation, sent, astray, call>>

-----------------------------------------------------------------------------
\* Memory.

BytesPerPixel(format) ==
  CASE format = "R5G6B5" -> 2 [] format = "A8" -> 1 [] OTHER -> 4

BlockCompressed(format) == format \in {"DXT1", "DXT3", "DXT5"}

\* Of the bytes of a block, 4 make a unit.
BlockUnits(format) == IF format = "DXT1" THEN 2 ELSE 4

Blocks(n) == (n + 3) \div 4

\* surface_pitch and surface_upload_size, in units.
Pitch(s) ==
  IF BlockCompressed(Desc[s].format)
    THEN Blocks(Desc[s].width) * BlockUnits(Desc[s].format)
    ELSE Desc[s].width

Size(s) ==
  Pitch(s) * (IF BlockCompressed(Desc[s].format)
                THEN Blocks(Desc[s].height) ELSE Desc[s].height)

Memory(s) == 0..(Size(s) - 1)
Texels(s) == [Memory(s) -> Colors \cup {Zero}]

\* NULL is not the address of anything.
ASSUME NoMemoryAssumption == \A s \in Surfaces : NoMemory \notin Texels(s)

\* Where the row and column of a pixel are looked for.
Cell(s, x, y) == y * Pitch(s) + x

\* The pixel that the game means when it writes to a unit, as it has been told
\* the pitch: a rectangle of its own.
PixelAt(s, i) ==
  LET x == i % Pitch(s)  y == i \div Pitch(s)
  IN  [left |-> x, top |-> y, right |-> x + 1, bottom |-> y + 1]

NoCall == [op |-> "none"]

Init ==
  /\ sysmem = [s \in Surfaces |-> NoMemory]
  /\ locked = [s \in Surfaces |-> FALSE]
  /\ generation = [t \in Textures |-> 1]
  /\ sent = NoMemory
  /\ astray = {}
  /\ call = NoCall

Allocated(m, s) ==
  IF m[s] = NoMemory
    THEN [m EXCEPT ![s] = [i \in Memory(s) |-> Zero]] ELSE m

-----------------------------------------------------------------------------
\* Rectangles.

Whole(s) ==
  [left |-> 0, top |-> 0, right |-> Desc[s].width, bottom |-> Desc[s].height]

\* Mistaken: the edges may be one pixel outside.
ValidOneMore(r, s) ==
  /\ 0 <= r.left /\ r.left < r.right /\ r.right <= Desc[s].width + 1
  /\ 0 <= r.top /\ r.top < r.bottom /\ r.bottom <= Desc[s].height + 1

\* rect_valid_for_surface
Valid(r, s) ==
  /\ 0 <= r.left /\ r.left < r.right /\ r.right <= Desc[s].width
  /\ 0 <= r.top /\ r.top < r.bottom /\ r.bottom <= Desc[s].height

\* What the game may ask for: also what is empty or leaves the surface.
Asked ==
  [s \in Surfaces |->
     {r \in [left : 0..Desc[s].width, top : 0..Desc[s].height,
             right : 0..Desc[s].width, bottom : 0..Desc[s].height] : Valid(r, s)}
     \cup {[Whole(s) EXCEPT !.left = -1], [Whole(s) EXCEPT !.top = -1],
           [Whole(s) EXCEPT !.right = @ + 1], [Whole(s) EXCEPT !.bottom = @ + 1],
           [Whole(s) EXCEPT !.right = 0], [Whole(s) EXCEPT !.bottom = 0]}]

WidthOf(r) == r.right - r.left
HeightOf(r) == r.bottom - r.top
Offsets(r) == (0..(WidthOf(r) - 1)) \X (0..(HeightOf(r) - 1))

\* Mistaken: rows are counted from the top of the surface.
TargetFromTop(s, r, p) == Cell(s, r.left + p[1], p[2])

Target(s, r, p) == Cell(s, r.left + p[1], r.top + p[2])

\* The pixel that a copy takes to offset p: its rectangle is scaled, and one of
\* equal size copied row by row.
Source(c, p) ==
  Cell(c.src, c.from.left + (p[1] * WidthOf(c.from)) \div WidthOf(c.to),
              c.from.top + (p[2] * HeightOf(c.from)) \div HeightOf(c.to))

Inside(s, r) == \A p \in Offsets(r) : Target(s, r, p) \in Memory(s)

-----------------------------------------------------------------------------
\* Generations.

\* The surfaces S have new contents: their containers are marked dirty.
Dirtied(S) == {t \in Textures : \E l \in DOMAIN Levels[t] : Levels[t][l] \in S}

MarkDirty(T) ==
  /\ \A t \in T : generation[t] < MaxGeneration[t]
  /\ generation' = [t \in Textures |->
                      IF t \in T THEN generation[t] + 1 ELSE generation[t]]

-----------------------------------------------------------------------------
\* The game's own writing.

\* LockRect gives the start of the memory, whatever part of the surface it is
\* asked for.
LockRect(s) ==
  /\ Desc[s].lockable /\ ~locked[s]
  /\ sysmem' = Allocated(sysmem, s)
  /\ locked' = [locked EXCEPT ![s] = TRUE]
  /\ UNCHANGED <<generation, sent, astray, call>>

FillCall(s, r, v) == [op |-> "fill", dst |-> s, to |-> r, pixel |-> v]

WritePixel(s, i, v) ==
  /\ locked[s] /\ i \in Memory(s)
  /\ sysmem' = [sysmem EXCEPT ![s][i] = v]
  /\ call' = FillCall(s, PixelAt(s, i), v)
  /\ UNCHANGED <<locked, generation, sent, astray>>

\* Mistaken: the generation stays.
UnlockRectUnmarked(s) ==
  /\ locked[s]
  /\ locked' = [locked EXCEPT ![s] = FALSE]
  /\ UNCHANGED <<sysmem, generation, sent, astray, call>>

UnlockRect(s) ==
  /\ locked[s]
  /\ locked' = [locked EXCEPT ![s] = FALSE]
  /\ MarkDirty(Dirtied({s}))
  /\ UNCHANGED <<sysmem, sent, astray, call>>

AddDirtyRect(t) == MarkDirty({t}) /\ UNCHANGED <<sysmem, locked, sent, astray, call>>

-----------------------------------------------------------------------------
\* Fills and copies.  Calls that are refused change nothing.

GoAstray(S) ==
  astray' = S /\ UNCHANGED <<sysmem, locked, generation, sent, call>>

\* fill_rect, of ColorFill and of each rectangle of a Clear.
ColorFill(s, r, v) ==
  /\ Valid(r, s)
  /\ IF ~Inside(s, r) THEN GoAstray({s}) ELSE
       /\ sysmem' = [sysmem EXCEPT ![s] =
            [i \in Memory(s) |->
               IF \E p \in Offsets(r) : Target(s, r, p) = i
                 THEN v ELSE Allocated(sysmem, s)[s][i]]]
       /\ MarkDirty(Dirtied({s}))
       /\ call' = FillCall(s, r, v)
       /\ UNCHANGED <<locked, sent, astray>>

\* A copy call: a rectangle of one surface goes to a rectangle of another.
Copies ==
  UNION {{[src |-> s, from |-> r, dst |-> d, to |-> q] :
            r \in Asked[s], q \in Asked[d]} : s, d \in Surfaces}

WholeCopy(s, d) ==
  [src |-> s, from |-> Whole(s), dst |-> d, to |-> Whole(d)]

SameSize(c) ==
  WidthOf(c.from) = WidthOf(c.to) /\ HeightOf(c.from) = HeightOf(c.to)

\* What copy_rect accepts when it may scale,
Acceptable(c) ==
  /\ BytesPerPixel(Desc[c.src].format) = BytesPerPixel(Desc[c.dst].format)
  /\ Valid(c.from, c.src) /\ Valid(c.to, c.dst)

\* and when it may not.
Exact(c) == Acceptable(c) /\ SameSize(c)

\* The calls that change something.
Accepted == {c \in Copies : c.src # c.dst /\ Acceptable(c)}

StaysIn(c) == Inside(c.src, c.from) /\ Inside(c.dst, c.to)

\* The surfaces whose memory a copy leaves.
LeftBy(c) ==
  {s \in Surfaces : \/ s = c.src /\ ~Inside(s, c.from)
                    \/ s = c.dst /\ ~Inside(s, c.to)}

\* Which unit of the source each unit that is written takes.
Taken(c) ==
  [i \in {Target(c.dst, c.to, p) : p \in Offsets(c.to)} |->
     Source(c, CHOOSE p \in Offsets(c.to) : Target(c.dst, c.to, p) = i)]

\* The copies that stay inside, and what they take.
Moves == [c \in {x \in Accepted : StaysIn(x)} |-> Taken(c)]

\* The memory after an accepted copy.
Copied(m, c) ==
  LET from == Allocated(m, c.src)
      into == Allocated(from, c.dst)
  IN  [into EXCEPT ![c.dst] = [i \in Memory(c.dst) |->
         IF i \in DOMAIN Moves[c] THEN from[c.src][Moves[c][i]]
         ELSE into[c.dst][i]]]

\* surface_copy_rect
CopyRect(c) ==
  IF c \notin DOMAIN Moves THEN GoAstray(LeftBy(c)) ELSE
    /\ sysmem' = Copied(sysmem, c)
    /\ MarkDirty(Dirtied({c.dst}))
    /\ call' = [op |-> "copy", src |-> c.src, from |-> c.from, dst |-> c.dst, to |-> c.to]
    /\ UNCHANGED <<locked, sent, astray>>

\* UpdateSurface: a rectangle goes to a point of the other surface.
UpdateSurface(c) == SameSize(c) /\ CopyRect(c)

\* StretchRect without render targets; with one it only records a command.
StretchRect(c) ==
  /\ ~Desc[c.src].target /\ ~Desc[c.dst].target
  /\ CopyRect(c)

\* GetRenderTargetData, and with the back buffer as source GetFrontBufferData.
GetRenderTargetData(s, d) ==
  LET c == WholeCopy(s, d) IN s # d /\ Exact(c) /\ CopyRect(c)

\* There is memory for the source and none for what it is copied to.
CopyRunsOutOfMemory(s, d) ==
  /\ s # d
  /\ BytesPerPixel(Desc[s].format) = BytesPerPixel(Desc[d].format)
  /\ sysmem[d] = NoMemory
  /\ sysmem' = Allocated(sysmem, s)
  /\ UNCHANGED <<locked, generation, sent, astray, call>>

\* The memory after the first n levels of t have been copied to u.  They are
\* 2n surfaces, so that no copy depends on the one before it.
LevelsCopied(t, u, n) ==
  [s \in Surfaces |->
     IF \E k \in 1..n : Levels[u][k] = s
       THEN LET k == CHOOSE k \in 1..n : Levels[u][k] = s
            IN  Copied(sysmem, WholeCopy(Levels[t][k], s))[s]
     ELSE IF \E k \in 1..n : Levels[t][k] = s THEN Allocated(sysmem, s)[s]
     ELSE sysmem[s]]

AcceptsLevel(t, u, k) == Exact(WholeCopy(Levels[t][k], Levels[u][k]))

CommonLevels(t, u) ==
  1..(IF Len(Levels[t]) < Len(Levels[u]) THEN Len(Levels[t]) ELSE Len(Levels[u]))

\* UpdateTexture stops after n levels: they were all, or the next is refused,
\* or there is no memory for its source, or then for its destination.
StoppedAfter(t, u, n) ==
  LET m == LevelsCopied(t, u, n)
      hasNoMemory(x) == sysmem[Levels[x][n + 1]] = NoMemory
  IN  IF n + 1 \notin CommonLevels(t, u) \/ ~AcceptsLevel(t, u, n + 1) THEN {m}
      ELSE {x \in {m} : hasNoMemory(t)}
           \cup {Allocated(x, Levels[t][n + 1]) : x \in {y \in {m} : hasNoMemory(u)}}

\* Levels are copied in order; those before a failure stay copied.
UpdateTexture(t, u, n) ==
  /\ t # u /\ n \in CommonLevels(t, u)
  /\ \A k \in 1..n : AcceptsLevel(t, u, k)
  /\ IF \E k \in 1..n : WholeCopy(Levels[t][k], Levels[u][k]) \notin DOMAIN Moves
       THEN GoAstray(UNION {LeftBy(WholeCopy(Levels[t][k], Levels[u][k])) : k \in 1..n})
       ELSE /\ sysmem' \in StoppedAfter(t, u, n)
            /\ generation[u] + n <= MaxGeneration[u]
            /\ generation' = [generation EXCEPT ![u] = @ + n]
            /\ call' = [op |-> "update", src |-> t, dst |-> u, levels |-> n]
            /\ UNCHANGED <<locked, sent, astray>>

-----------------------------------------------------------------------------
\* A draw copies the level it binds, if there is memory behind it.
Upload(t, l) ==
  LET s == Levels[t][l] IN
  /\ sysmem[s] # NoMemory
  /\ sent' = [texture |-> t, level |-> l, generation |-> generation[t],
              texels |-> sysmem[s]]
  /\ UNCHANGED <<sysmem, locked, generation, astray, call>>

-----------------------------------------------------------------------------
Next ==
  /\ astray = {}
  /\ \/ \E s \in Surfaces : LockRect(s) \/ UnlockRect(s)
     \/ \E s \in Surfaces, v \in Colors :
          \/ \E i \in Memory(s) : WritePixel(s, i, v)
          \/ \E r \in Asked[s] : ColorFill(s, r, v)
     \/ \E c \in Accepted : UpdateSurface(c) \/ StretchRect(c)
     \/ \E s, d \in Surfaces : GetRenderTargetData(s, d) \/ CopyRunsOutOfMemory(s, d)
     \/ \E t, u \in Textures : \E n \in CommonLevels(t, u) : UpdateTexture(t, u, n)
     \/ \E t \in Textures :
          AddDirtyRect(t) \/ \E l \in DOMAIN Levels[t] : Upload(t, l)

Spec == Init /\ [][Next]_vars

-----------------------------------------------------------------------------
\* Properties.

TypeOK ==
  /\ DOMAIN sysmem = Surfaces
  /\ \A s \in Surfaces : sysmem[s] = NoMemory \/ sysmem[s] \in Texels(s)
  /\ locked \in [Surfaces -> BOOLEAN]
  /\ \A s \in Surfaces : locked[s] => sysmem[s] \in Texels(s)
  /\ generation \in [Textures -> Nat \ {0}]
  /\ sent # NoMemory =>
       /\ sent.texture \in Textures
       /\ sent.level \in DOMAIN Levels[sent.texture]
       /\ sent.generation \in 1..generation[sent.texture]
  /\ astray \in SUBSET Surfaces

\* No accepted fill or copy, scaled or not, of any rectangle, leaves the
\* memory of a surface it is for, other than one in a block format: what
\* rect_valid_for_surface lets pass is what the rows and columns reach.  In a
\* block format they reach further, and the calls do not look at the format.
StaysInside == \A s \in astray : BlockCompressed(Desc[s].format)

\* A texture is copied again for a draw when its generation has changed.  So
\* as long as it has not, the level that was copied holds what was copied,
\* whichever call wrote to it, unless the game is about to write in a lock.
SentIsCurrent ==
  sent # NoMemory =>
    LET s == Levels[sent.texture][sent.level] IN
    sent.generation = generation[sent.texture] /\ ~locked[s]
      => sysmem[s] = sent.texels

\* The calls do to the pixels the game names what they promise, wherever the
\* memory keeps them, and those that fail, in the middle of a texture too, do
\* nothing beyond the levels already copied.  A surface in a block format has
\* no pixels to speak of, but a copy out of one keeps to its rectangle.
PictureOf(s) ==
  [p \in (0..(Desc[s].width - 1)) \X (0..(Desc[s].height - 1)) |->
     IF sysmem[s] = NoMemory THEN Zero ELSE sysmem[s][Cell(s, p[1], p[2])]]

Widths == [s \in Surfaces |-> Desc[s].width]
Heights == [s \in Surfaces |-> Desc[s].height]

WithPixels == {s \in Surfaces : ~BlockCompressed(Desc[s].format)}

Promise == INSTANCE Pictures WITH
  Surfaces <- WithPixels, Width <- Widths, Height <- Heights,
  Pixels <- Colors, Blank <- Zero,
  picture <- [s \in WithPixels |-> PictureOf(s)]

ImplementsPictures == Promise!Spec
=============================================================================
