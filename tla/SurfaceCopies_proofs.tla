------------------------ MODULE SurfaceCopies_proofs ------------------------
(***************************************************************************)
(* For surfaces of every size and number: types, that no call leaves the   *)
(* memory of a surface that is not in a block format and that calls do of  *)
(* one that is, and that a copy made for a draw is current as long as its  *)
(* generation is.  The last needs that no generation is ahead of its       *)
(* texture's and that what was sent came from memory that was there.  The  *)
(* calls implement Pictures: the cells of two pixels differ, memory that   *)
(* appears shows nothing, and the nearest pixel that scaling picks is the  *)
(* one Pictures speaks of.                                                 *)
(***************************************************************************)
EXTENDS SurfaceCopies, SequenceTheorems, TLAPS

\* A pixel's row and column lead into a picture of w by h pixels.
LEMMA RowColumn ==
    ASSUME NEW w \in Nat, NEW h \in Nat, NEW x \in Nat, NEW y \in Nat,
           x < w, y < h
    PROVE  /\ w * h \in Nat
           /\ y * w + x \in 0..(w * h - 1)
<1>1. PICK k \in Nat : h = y + 1 + k
  <2>1. h - y - 1 \in Nat /\ h = y + 1 + (h - y - 1)
    OBVIOUS
  <2> QED BY <2>1
<1>2. w * h = y * w + w + k * w
  <2>1. w * (y + 1 + k) = y * w + w + k * w
    BY SMT
  <2> QED BY <1>1, <2>1
<1>3. y * w \in Nat /\ k * w \in Nat
  OBVIOUS
<1> QED BY <1>2, <1>3

\* Scaled down or up, an offset stays in the scaled side.
LEMMA Scaled ==
    ASSUME NEW a \in Nat, NEW w \in Nat, NEW n \in Nat \ {0}, a < n, w > 0
    PROVE  (a * w) \div n \in 0..(w - 1)
<1> DEFINE m == a * w
           q == m \div n
<1>1. m \in Nat
  OBVIOUS
<1>2. n * w = m + (n - a) * w /\ (n - a) * w > 0
  <2>1. PICK k \in Nat : n = a + 1 + k
    <3>1. n - a - 1 \in Nat /\ n = a + 1 + (n - a - 1)
      OBVIOUS
    <3> QED BY <3>1
  <2>2. /\ (a + 1 + k) * w = a * w + (1 + k) * w
        /\ (1 + k) * w = w + k * w /\ k * w >= 0
    BY SMT
  <2>3. n - a = 1 + k
    BY <2>1
  <2> QED BY <2>1, <2>2, <2>3
<1>3. m < n * w /\ n * w \in Nat
  BY <1>1, <1>2
<1> HIDE DEF m
<1>4. q \in Nat /\ q * n <= m
  BY <1>1, SMT
<1> HIDE DEF q
<1>5. q < w
  <2> SUFFICES ASSUME q >= w PROVE FALSE
    BY <1>4
  <2>1. PICK j \in Nat : q = w + j
    <3>1. q - w \in Nat /\ q = w + (q - w)
      BY <1>4
    <3> QED BY <3>1
  <2>2. (w + j) * n = n * w + j * n /\ j * n >= 0
    BY SMT
  <2> QED BY <1>1, <1>3, <1>4, <2>1, <2>2
<1>6. q \in 0..(w - 1)
  BY <1>4, <1>5
<1> QED BY <1>6 DEF q, m

-----------------------------------------------------------------------------
\* Rectangles.

RectType == [left : Int, top : Int, right : Int, bottom : Int]

LEMMA DescType ==
    ASSUME NEW s \in Surfaces
    PROVE  /\ Desc[s].width \in Nat \ {0} /\ Desc[s].height \in Nat \ {0}
           /\ Desc[s].format \in Formats
BY SurfaceAssumption

LEMMA WholeRect ==
    ASSUME NEW s \in Surfaces
    PROVE  Whole(s) \in RectType /\ Valid(Whole(s), s) /\ Whole(s) \in Asked[s]
<1>1. Whole(s) \in RectType /\ Valid(Whole(s), s)
  BY DescType DEF Whole, RectType, Valid
<1>2. Whole(s) \in [left : 0..Desc[s].width, top : 0..Desc[s].height,
                    right : 0..Desc[s].width, bottom : 0..Desc[s].height]
  BY DescType DEF Whole
<1> QED BY <1>1, <1>2 DEF Asked

LEMMA AskedType ==
    ASSUME NEW s \in Surfaces, NEW r \in Asked[s]
    PROVE  r \in RectType
<1>1. CASE r \in [left : 0..Desc[s].width, top : 0..Desc[s].height,
                  right : 0..Desc[s].width, bottom : 0..Desc[s].height]
  BY <1>1, DescType DEF RectType
<1>2. CASE r \in {[Whole(s) EXCEPT !.left = -1], [Whole(s) EXCEPT !.top = -1],
           [Whole(s) EXCEPT !.right = @ + 1], [Whole(s) EXCEPT !.bottom = @ + 1],
           [Whole(s) EXCEPT !.right = 0], [Whole(s) EXCEPT !.bottom = 0]}
  BY <1>2, WholeRect DEF RectType
<1> QED BY <1>1, <1>2 DEF Asked

LEMMA ValidInside ==
    ASSUME NEW s \in Surfaces, s \in WithPixels, NEW r \in RectType, Valid(r, s)
    PROVE  Inside(s, r)
<1> SUFFICES ASSUME NEW p \in Offsets(r) PROVE Target(s, r, p) \in Memory(s)
  BY DEF Inside
<1> DEFINE x == r.left + p[1]
           y == r.top + p[2]
<1>1. /\ r.left \in Int /\ r.right \in Int /\ r.top \in Int /\ r.bottom \in Int
  BY DEF RectType
<1>2. /\ p[1] \in 0..(r.right - r.left - 1) /\ p[2] \in 0..(r.bottom - r.top - 1)
  BY DEF Offsets, WidthOf, HeightOf
<1>3. /\ x \in Nat /\ y \in Nat /\ x < Desc[s].width /\ y < Desc[s].height
  BY <1>1, <1>2, DescType DEF Valid
<1>4. Pitch(s) = Desc[s].width /\ Size(s) = Desc[s].width * Desc[s].height
  BY DEF WithPixels, Pitch, Size
<1> HIDE DEF x, y
<1>5. y * Desc[s].width + x \in 0..(Desc[s].width * Desc[s].height - 1)
  BY <1>3, DescType, RowColumn
<1> QED BY <1>4, <1>5 DEF Target, Cell, Memory, x, y

-----------------------------------------------------------------------------
\* Copies.

LEMMA AcceptedType ==
    ASSUME NEW c \in Accepted
    PROVE  /\ c.src \in Surfaces /\ c.dst \in Surfaces /\ c.src # c.dst
           /\ c.from \in RectType /\ c.to \in RectType
           /\ Valid(c.from, c.src) /\ Valid(c.to, c.dst)
<1>1. PICK s \in Surfaces, d \in Surfaces :
        c \in {[src |-> s, from |-> r, dst |-> d, to |-> q] :
                 r \in Asked[s], q \in Asked[d]}
  BY DEF Accepted, Copies
<1>2. PICK r \in Asked[s], q \in Asked[d] :
        c = [src |-> s, from |-> r, dst |-> d, to |-> q]
  BY <1>1
<1>3. r \in RectType /\ q \in RectType
  BY AskedType
<1> QED BY <1>2, <1>3 DEF Accepted, Acceptable

LEMMA WholeCopyAccepted ==
    ASSUME NEW s \in Surfaces, NEW d \in Surfaces, s # d, Exact(WholeCopy(s, d))
    PROVE  WholeCopy(s, d) \in Accepted
<1>1. WholeCopy(s, d) \in {[src |-> s, from |-> r, dst |-> d, to |-> q] :
                             r \in Asked[s], q \in Asked[d]}
  BY WholeRect DEF WholeCopy
<1>2. WholeCopy(s, d) \in Copies
  <2> DEFINE C(a, b) == {[src |-> a, from |-> r, dst |-> b, to |-> q] :
                           r \in Asked[a], q \in Asked[b]}
  <2>1. WholeCopy(s, d) \in C(s, d)
    BY <1>1
  <2>2. Copies = UNION {C(a, b) : a, b \in Surfaces}
    BY DEF Copies
  <2> HIDE DEF C
  <2> QED BY <2>1, <2>2
<1>3. WholeCopy(s, d).src = s /\ WholeCopy(s, d).dst = d
  BY DEF WholeCopy
<1> QED BY <1>2, <1>3 DEF Accepted, Exact

LEMMA AllMove ==
    ASSUME NEW c \in Accepted, c.src \in WithPixels, c.dst \in WithPixels
    PROVE  c \in DOMAIN Moves
BY AcceptedType, ValidInside DEF StaysIn, Moves

\* A copy leaves only the memory of surfaces in block formats.
LEMMA OnlyBlocksLeft ==
    ASSUME NEW c \in Accepted
    PROVE  \A s \in LeftBy(c) : s \in Surfaces /\ s \notin WithPixels
BY AcceptedType, ValidInside DEF LeftBy

\* What a copy takes is in the memory of its source.
LEMMA MovesType ==
    ASSUME NEW c \in DOMAIN Moves, NEW i \in DOMAIN Moves[c]
    PROVE  Moves[c][i] \in Memory(c.src)
<1> DEFINE p == CHOOSE p \in Offsets(c.to) : Target(c.dst, c.to, p) = i
           x == (p[1] * WidthOf(c.from)) \div WidthOf(c.to)
           y == (p[2] * HeightOf(c.from)) \div HeightOf(c.to)
<1>1. c \in Accepted /\ StaysIn(c) /\ Moves[c] = Taken(c)
  BY DEF Moves
<1>2. Taken(c)[i] = Source(c, p) /\ p \in Offsets(c.to)
  BY <1>1 DEF Taken
<1>3. /\ c.from \in RectType /\ c.to \in RectType
      /\ Valid(c.from, c.src) /\ Valid(c.to, c.dst)
  BY <1>1, AcceptedType
<1>4. /\ WidthOf(c.from) \in Nat \ {0} /\ HeightOf(c.from) \in Nat \ {0}
      /\ WidthOf(c.to) \in Nat \ {0} /\ HeightOf(c.to) \in Nat \ {0}
  <2>1. ASSUME NEW r \in RectType, NEW s, Valid(r, s)
        PROVE  WidthOf(r) \in Nat \ {0} /\ HeightOf(r) \in Nat \ {0}
    BY <2>1 DEF RectType, Valid, WidthOf, HeightOf
  <2> QED BY <1>3, <2>1
<1>5. p[1] \in 0..(WidthOf(c.to) - 1) /\ p[2] \in 0..(HeightOf(c.to) - 1)
  BY <1>2 DEF Offsets
<1> HIDE DEF p
<1>6. x \in 0..(WidthOf(c.from) - 1)
  <2>1. p[1] \in Nat /\ p[1] < WidthOf(c.to) /\ WidthOf(c.from) > 0
    BY <1>4, <1>5
  <2> QED BY <1>4, <2>1, Scaled, Zenon
<1>7. y \in 0..(HeightOf(c.from) - 1)
  <2>1. p[2] \in Nat /\ p[2] < HeightOf(c.to) /\ HeightOf(c.from) > 0
    BY <1>4, <1>5
  <2> QED BY <1>4, <2>1, Scaled, Zenon
<1>8. Source(c, p) = Target(c.src, c.from, <<x, y>>)
  BY DEF Source, Target
<1> HIDE DEF x, y
<1>9. <<x, y>> \in Offsets(c.from)
  BY <1>6, <1>7 DEF Offsets
<1> QED BY <1>1, <1>2, <1>8, <1>9 DEF StaysIn, Inside

-----------------------------------------------------------------------------
\* Memory.

MemoryOK(m) ==
  /\ DOMAIN m = Surfaces
  /\ \A s \in Surfaces : m[s] = NoMemory \/ m[s] \in Texels(s)

LEMMA AllocatedMemory ==
    ASSUME NEW m, MemoryOK(m), NEW s \in Surfaces
    PROVE  /\ MemoryOK(Allocated(m, s))
           /\ Allocated(m, s)[s] \in Texels(s)
           /\ m[s] # NoMemory => Allocated(m, s) = m
           /\ \A x \in Surfaces \ {s} : Allocated(m, s)[x] = m[x]
<1> DEFINE blank == [i \in Memory(s) |-> Zero]
<1>1. blank \in Texels(s)
  BY DEF Texels
<1> HIDE DEF blank
<1>2. CASE m[s] = NoMemory
  <2>1. Allocated(m, s) = [m EXCEPT ![s] = blank]
    BY <1>2 DEF Allocated, blank
  <2> QED BY <1>1, <1>2, <2>1 DEF MemoryOK
<1>3. CASE m[s] # NoMemory
  BY <1>3 DEF Allocated, MemoryOK
<1> QED BY <1>2, <1>3

LEMMA CopiedMemory ==
    ASSUME NEW m, MemoryOK(m), NEW c \in DOMAIN Moves
    PROVE  /\ MemoryOK(Copied(m, c))
           /\ Copied(m, c)[c.dst] \in Texels(c.dst)
           /\ Copied(m, c)[c.src] = Allocated(m, c.src)[c.src]
           /\ \A x \in Surfaces \ {c.src, c.dst} : Copied(m, c)[x] = m[x]
<1> DEFINE from == Allocated(m, c.src)
           into == Allocated(from, c.dst)
           new == [i \in Memory(c.dst) |->
                     IF i \in DOMAIN Moves[c] THEN from[c.src][Moves[c][i]]
                     ELSE into[c.dst][i]]
<1>1. c.src \in Surfaces /\ c.dst \in Surfaces /\ c.src # c.dst
  BY AcceptedType DEF Moves
<1>2. /\ MemoryOK(from) /\ from[c.src] \in Texels(c.src)
      /\ \A x \in Surfaces \ {c.src} : from[x] = m[x]
  BY <1>1, AllocatedMemory
<1>3. /\ MemoryOK(into) /\ into[c.dst] \in Texels(c.dst)
      /\ \A x \in Surfaces \ {c.dst} : into[x] = from[x]
  <2> HIDE DEF from
  <2> QED BY <1>1, <1>2, AllocatedMemory
<1>4. Copied(m, c) = [into EXCEPT ![c.dst] = new]
  BY DEF Copied
<1> HIDE DEF from, into
<1>5. new \in Texels(c.dst)
  <2>1. ASSUME NEW i \in Memory(c.dst)
        PROVE  new[i] \in Colors \cup {Zero}
    <3>1. CASE i \in DOMAIN Moves[c]
      BY <1>2, <3>1, MovesType DEF Texels
    <3>2. CASE i \notin DOMAIN Moves[c]
      BY <1>3, <3>2 DEF Texels
    <3> QED BY <3>1, <3>2
  <2> QED BY <2>1 DEF Texels
<1> HIDE DEF new
<1>6. MemoryOK(Copied(m, c)) /\ Copied(m, c)[c.dst] = new
  BY <1>1, <1>3, <1>4, <1>5 DEF MemoryOK
<1>7. \A x \in Surfaces \ {c.dst} : Copied(m, c)[x] = from[x]
  BY <1>3, <1>4 DEF MemoryOK
<1> QED BY <1>1, <1>2, <1>5, <1>6, <1>7 DEF from

-----------------------------------------------------------------------------
\* Steps.

\* What all steps but the copy for a draw leave a draw to rely on: no
\* generation goes back, and where it stays a level that is not locked was not
\* locked before and keeps its contents.
Relied ==
  /\ \A t \in Textures : generation[t] <= generation'[t]
  /\ \A t \in Textures : \A l \in DOMAIN Levels[t] :
       generation'[t] = generation[t] /\ ~locked'[Levels[t][l]] =>
         /\ ~locked[Levels[t][l]]
         /\ sysmem[Levels[t][l]] # NoMemory =>
              sysmem'[Levels[t][l]] = sysmem[Levels[t][l]]

\* The types after a step, but for what was sent.
StateOK ==
  /\ MemoryOK(sysmem')
  /\ locked' \in [Surfaces -> BOOLEAN]
  /\ \A s \in Surfaces : locked'[s] => sysmem'[s] \in Texels(s)
  /\ generation' \in [Textures -> Nat \ {0}]
  /\ sent' = sent /\ astray' \in SUBSET Surfaces

\* The contents of the surface s, and memory where there was none, is all that
\* changes.
Changes(s) ==
  /\ \A x \in Surfaces \ {s} :
       \/ sysmem'[x] \in Texels(x) /\ sysmem[x] = NoMemory
       \/ sysmem'[x] = sysmem[x]
  /\ sysmem'[s] \in Texels(s)

LEMMA LevelIsSurface ==
    ASSUME NEW t \in Textures, NEW l \in DOMAIN Levels[t]
    PROVE  Levels[t][l] \in Surfaces
BY SurfaceAssumption

LEMMA MarkedDirty ==
    ASSUME TypeOK, NEW T \in SUBSET Textures, MarkDirty(T)
    PROVE  /\ generation' \in [Textures -> Nat \ {0}]
           /\ \A t \in Textures : generation[t] <= generation'[t]
           /\ \A t \in T : generation'[t] # generation[t]
BY DEF TypeOK, MarkDirty

LEMMA DirtiedTextures ==
    ASSUME NEW s \in Surfaces
    PROVE  /\ Dirtied({s}) \in SUBSET Textures
           /\ \A t \in Textures : \A l \in DOMAIN Levels[t] :
                Levels[t][l] = s => t \in Dirtied({s})
BY DEF Dirtied

LEMMA NothingChanges ==
    ASSUME TypeOK, UNCHANGED <<sysmem, locked, generation, sent>>,
           astray' \in SUBSET Surfaces
    PROVE  StateOK /\ Relied
<1>1. MemoryOK(sysmem')
  BY DEF TypeOK, MemoryOK
<1> QED BY <1>1 DEF TypeOK, StateOK, Relied

\* A call that changes a surface marks the textures it belongs to.
LEMMA MarkedChange ==
    ASSUME TypeOK, NEW s \in Surfaces, MemoryOK(sysmem'), Changes(s),
           MarkDirty(Dirtied({s})), UNCHANGED <<locked, sent, astray>>
    PROVE  StateOK /\ Relied
<1>1. /\ generation' \in [Textures -> Nat \ {0}]
      /\ \A t \in Textures : generation[t] <= generation'[t]
      /\ \A t \in Dirtied({s}) : generation'[t] # generation[t]
  BY MarkedDirty, DirtiedTextures
<1>2. \A x \in Surfaces : locked'[x] => sysmem'[x] \in Texels(x)
  BY DEF TypeOK, Changes
<1>3. StateOK
  BY <1>1, <1>2 DEF TypeOK, StateOK
<1>4. ASSUME NEW t \in Textures, NEW l \in DOMAIN Levels[t],
             generation'[t] = generation[t], ~locked'[Levels[t][l]],
             sysmem[Levels[t][l]] # NoMemory
      PROVE  sysmem'[Levels[t][l]] = sysmem[Levels[t][l]]
  <2>1. Levels[t][l] # s
    BY <1>1, <1>4, DirtiedTextures
  <2> QED BY <1>4, <2>1, LevelIsSurface DEF Changes
<1>5. Relied
  BY <1>1, <1>4 DEF Relied
<1> QED BY <1>3, <1>5

LEMMA LockRectStep ==
    ASSUME TypeOK, NEW s \in Surfaces, LockRect(s)
    PROVE  StateOK /\ Relied
<1>1. /\ MemoryOK(sysmem') /\ sysmem'[s] \in Texels(s)
      /\ \A x \in Surfaces \ {s} : sysmem'[x] = sysmem[x]
      /\ sysmem[s] # NoMemory => sysmem' = sysmem
  BY AllocatedMemory DEF TypeOK, MemoryOK, LockRect
<1>2. /\ locked' = [locked EXCEPT ![s] = TRUE] /\ locked \in [Surfaces -> BOOLEAN]
      /\ generation' = generation /\ generation \in [Textures -> Nat \ {0}]
      /\ sent' = sent /\ astray' \in SUBSET Surfaces
      /\ \A x \in Surfaces : locked[x] => sysmem[x] \in Texels(x)
  BY DEF LockRect, TypeOK
<1>3. StateOK
  BY <1>1, <1>2 DEF StateOK
<1>4. \A t \in Textures : \A l \in DOMAIN Levels[t] :
        ~locked'[Levels[t][l]] => Levels[t][l] # s /\ ~locked[Levels[t][l]]
  BY <1>2, LevelIsSurface
<1>5. Relied
  BY <1>1, <1>2, <1>4, LevelIsSurface DEF Relied
<1> QED BY <1>3, <1>5

LEMMA WritePixelStep ==
    ASSUME TypeOK, NEW s \in Surfaces, NEW v \in Colors, NEW i \in Memory(s),
           WritePixel(s, i, v)
    PROVE  StateOK /\ Relied
<1>1. sysmem[s] \in Texels(s) /\ DOMAIN sysmem = Surfaces
  BY DEF TypeOK, WritePixel
<1>2. [sysmem[s] EXCEPT ![i] = v] \in Texels(s)
  BY <1>1 DEF Texels
<1>3. sysmem' = [sysmem EXCEPT ![s] = [sysmem[s] EXCEPT ![i] = v]]
  BY DEF WritePixel
<1>4. /\ MemoryOK(sysmem') /\ sysmem'[s] \in Texels(s)
      /\ \A x \in Surfaces \ {s} : sysmem'[x] = sysmem[x]
  BY <1>1, <1>2, <1>3 DEF TypeOK, MemoryOK
<1>5. StateOK
  BY <1>4 DEF TypeOK, StateOK, WritePixel
<1>6. Relied
  BY <1>4, LevelIsSurface DEF TypeOK, Relied, WritePixel
<1> QED BY <1>5, <1>6

LEMMA UnlockRectStep ==
    ASSUME TypeOK, NEW s \in Surfaces, UnlockRect(s)
    PROVE  StateOK /\ Relied
<1>1. /\ generation' \in [Textures -> Nat \ {0}]
      /\ \A t \in Textures : generation[t] <= generation'[t]
      /\ \A t \in Dirtied({s}) : generation'[t] # generation[t]
  BY MarkedDirty, DirtiedTextures DEF UnlockRect
<1>2. MemoryOK(sysmem')
  BY DEF TypeOK, MemoryOK, UnlockRect
<1>3. StateOK
  BY <1>1, <1>2 DEF TypeOK, StateOK, UnlockRect
<1>4. ASSUME NEW t \in Textures, NEW l \in DOMAIN Levels[t],
             generation'[t] = generation[t], ~locked'[Levels[t][l]]
      PROVE  ~locked[Levels[t][l]]
  <2>1. Levels[t][l] # s
    BY <1>1, <1>4, DirtiedTextures
  <2> QED BY <1>4, <2>1, LevelIsSurface DEF TypeOK, UnlockRect
<1>5. Relied
  BY <1>1, <1>4 DEF Relied, UnlockRect
<1> QED BY <1>3, <1>5

LEMMA AddDirtyRectStep ==
    ASSUME TypeOK, NEW t \in Textures, AddDirtyRect(t)
    PROVE  StateOK /\ Relied
<1>1. /\ generation' \in [Textures -> Nat \ {0}]
      /\ \A x \in Textures : generation[x] <= generation'[x]
  BY MarkedDirty DEF AddDirtyRect
<1>2. MemoryOK(sysmem')
  BY DEF TypeOK, MemoryOK, AddDirtyRect
<1>3. UNCHANGED <<sysmem, locked, sent, astray>>
  BY DEF AddDirtyRect
<1> QED BY <1>1, <1>2, <1>3 DEF TypeOK, StateOK, Relied

LEMMA ColorFillStep ==
    ASSUME TypeOK, NEW s \in Surfaces, NEW r, NEW v \in Colors, ColorFill(s, r, v)
    PROVE  StateOK /\ Relied
<1> DEFINE before == Allocated(sysmem, s)[s]
           new == [i \in Memory(s) |->
                     IF \E p \in Offsets(r) : Target(s, r, p) = i
                       THEN v ELSE before[i]]
<1>1. CASE ~Inside(s, r)
  <2>1. astray' = {s} /\ UNCHANGED <<sysmem, locked, generation, sent>>
    BY <1>1 DEF ColorFill, GoAstray
  <2>2. astray' \in SUBSET Surfaces
    BY <2>1
  <2> QED BY <2>1, <2>2, NothingChanges
<1>2. CASE Inside(s, r)
  <2>1. MemoryOK(sysmem)
    BY DEF TypeOK, MemoryOK
  <2>2. before \in Texels(s)
    BY <2>1, AllocatedMemory
  <2>3. /\ sysmem' = [sysmem EXCEPT ![s] = new]
        /\ MarkDirty(Dirtied({s})) /\ UNCHANGED <<locked, sent, astray>>
    BY <1>2 DEF ColorFill
  <2> HIDE DEF before
  <2>4. new \in Texels(s)
    BY <2>2 DEF Texels
  <2> HIDE DEF new
  <2>5. MemoryOK(sysmem') /\ Changes(s)
    BY <2>1, <2>3, <2>4 DEF MemoryOK, Changes
  <2> QED BY <2>3, <2>5, MarkedChange
<1> QED BY <1>1, <1>2

LEMMA CopyRectStep ==
    ASSUME TypeOK, NEW c \in Accepted, CopyRect(c)
    PROVE  StateOK /\ Relied
<1>1. CASE c \notin DOMAIN Moves
  <2>1. astray' = LeftBy(c) /\ UNCHANGED <<sysmem, locked, generation, sent>>
    BY <1>1 DEF CopyRect, GoAstray
  <2>2. LeftBy(c) \subseteq Surfaces
    BY DEF LeftBy
  <2> QED BY <2>1, <2>2, NothingChanges
<1>2. CASE c \in DOMAIN Moves
  <2>1. MemoryOK(sysmem) /\ c.src \in Surfaces /\ c.dst \in Surfaces
    BY AcceptedType DEF TypeOK, MemoryOK
  <2>2. /\ sysmem' = Copied(sysmem, c)
        /\ MarkDirty(Dirtied({c.dst})) /\ UNCHANGED <<locked, sent, astray>>
    BY <1>2 DEF CopyRect
  <2>3. MemoryOK(sysmem') /\ Changes(c.dst)
    <3>1. /\ MemoryOK(sysmem') /\ sysmem'[c.dst] \in Texels(c.dst)
          /\ sysmem'[c.src] = Allocated(sysmem, c.src)[c.src]
          /\ \A x \in Surfaces \ {c.src, c.dst} : sysmem'[x] = sysmem[x]
      BY <1>2, <2>1, <2>2, CopiedMemory
    <3>2. /\ Allocated(sysmem, c.src)[c.src] \in Texels(c.src)
          /\ sysmem[c.src] # NoMemory => Allocated(sysmem, c.src) = sysmem
      BY <2>1, AllocatedMemory
    <3> QED BY <3>1, <3>2 DEF Changes
  <2> QED BY <2>1, <2>2, <2>3, MarkedChange
<1> QED BY <1>1, <1>2

LEMMA CopyRunsOutOfMemoryStep ==
    ASSUME TypeOK, NEW s \in Surfaces, NEW d \in Surfaces,
           CopyRunsOutOfMemory(s, d)
    PROVE  StateOK /\ Relied
<1>1. /\ MemoryOK(sysmem') /\ sysmem'[s] \in Texels(s)
      /\ \A x \in Surfaces \ {s} : sysmem'[x] = sysmem[x]
      /\ sysmem[s] # NoMemory => sysmem' = sysmem
  BY AllocatedMemory DEF TypeOK, MemoryOK, CopyRunsOutOfMemory
<1>2. UNCHANGED <<locked, generation, sent, astray>>
  BY DEF CopyRunsOutOfMemory
<1>3. StateOK
  BY <1>1, <1>2 DEF TypeOK, StateOK
<1>4. Relied
  BY <1>1, <1>2, LevelIsSurface DEF TypeOK, Relied
<1> QED BY <1>3, <1>4

LEMMA GetRenderTargetDataStep ==
    ASSUME TypeOK, NEW s \in Surfaces, NEW d \in Surfaces,
           GetRenderTargetData(s, d)
    PROVE  StateOK /\ Relied
BY WholeCopyAccepted, CopyRectStep DEF GetRenderTargetData

\* What the first n levels of an update become: those of u have contents, and
\* besides only memory appears.
LEMMA LevelsCopiedMemory ==
    ASSUME TypeOK, NEW t \in Textures, NEW u \in Textures,
           NEW n \in CommonLevels(t, u),
           \A k \in 1..n : WholeCopy(Levels[t][k], Levels[u][k]) \in DOMAIN Moves
    PROVE  /\ MemoryOK(LevelsCopied(t, u, n))
           /\ \A x \in Surfaces :
                \/ LevelsCopied(t, u, n)[x] = sysmem[x]
                \/ /\ LevelsCopied(t, u, n)[x] \in Texels(x)
                   /\ sysmem[x] = NoMemory \/ \E k \in DOMAIN Levels[u] : Levels[u][k] = x
<1> DEFINE m == LevelsCopied(t, u, n)
<1>1. MemoryOK(sysmem)
  BY DEF TypeOK, MemoryOK
<1>2. n \in Nat /\ 1..n \subseteq DOMAIN Levels[t] /\ 1..n \subseteq DOMAIN Levels[u]
  <2>1. Levels[t] \in Seq(Surfaces) /\ Levels[u] \in Seq(Surfaces)
    BY SurfaceAssumption
  <2> QED BY <2>1 DEF CommonLevels
<1>3. DOMAIN m = Surfaces
  BY DEF LevelsCopied
<1>4. ASSUME NEW x \in Surfaces
      PROVE  \/ m[x] = sysmem[x]
             \/ /\ m[x] \in Texels(x)
                /\ sysmem[x] = NoMemory \/ \E k \in DOMAIN Levels[u] : Levels[u][k] = x
  <2>1. CASE \E k \in 1..n : Levels[u][k] = x
    <3> DEFINE k == CHOOSE k \in 1..n : Levels[u][k] = x
               c == WholeCopy(Levels[t][k], x)
    <3>1. k \in 1..n /\ Levels[u][k] = x
      BY <2>1
    <3>2. m[x] = Copied(sysmem, c)[x]
      BY <2>1 DEF LevelsCopied
    <3> HIDE DEF k
    <3>3. c \in DOMAIN Moves /\ c.dst = x
      BY <3>1 DEF WholeCopy
    <3> HIDE DEF c
    <3>4. m[x] \in Texels(x)
      <4> HIDE DEF m
      <4> QED BY <1>1, <3>2, <3>3, CopiedMemory
    <3> QED BY <1>2, <3>1, <3>4
  <2>2. CASE /\ ~\E k \in 1..n : Levels[u][k] = x
             /\ \E k \in 1..n : Levels[t][k] = x
    <3>1. m[x] = Allocated(sysmem, x)[x]
      BY <2>2 DEF LevelsCopied
    <3> HIDE DEF m
    <3> QED BY <1>1, <3>1, AllocatedMemory
  <2>3. CASE /\ ~\E k \in 1..n : Levels[u][k] = x
             /\ ~\E k \in 1..n : Levels[t][k] = x
    BY <2>3 DEF LevelsCopied
  <2> QED BY <2>1, <2>2, <2>3
<1>5. MemoryOK(m)
  <2> HIDE DEF m
  <2> QED BY <1>1, <1>3, <1>4 DEF MemoryOK
<1> QED BY <1>4, <1>5

LEMMA StoppedMemory ==
    ASSUME TypeOK, NEW t \in Textures, NEW u \in Textures,
           NEW n \in CommonLevels(t, u), NEW m \in StoppedAfter(t, u, n),
           \A k \in 1..n : WholeCopy(Levels[t][k], Levels[u][k]) \in DOMAIN Moves
    PROVE  /\ MemoryOK(m)
           /\ \A x \in Surfaces :
                \/ m[x] = sysmem[x]
                \/ /\ m[x] \in Texels(x)
                   /\ sysmem[x] = NoMemory \/ \E k \in DOMAIN Levels[u] : Levels[u][k] = x
<1> DEFINE l == LevelsCopied(t, u, n)
           s == Levels[t][n + 1]
<1>1. /\ MemoryOK(l)
      /\ \A x \in Surfaces :
           \/ l[x] = sysmem[x]
           \/ /\ l[x] \in Texels(x)
              /\ sysmem[x] = NoMemory \/ \E k \in DOMAIN Levels[u] : Levels[u][k] = x
  BY LevelsCopiedMemory
<1>2. m = l \/ (n + 1 \in CommonLevels(t, u) /\ m = Allocated(l, s))
  BY DEF StoppedAfter
<1> HIDE DEF l
<1>3. CASE n + 1 \in CommonLevels(t, u) /\ m = Allocated(l, s)
  <2>1. Levels[t] \in Seq(Surfaces) /\ Levels[u] \in Seq(Surfaces)
    BY SurfaceAssumption
  <2>2. n \in Nat /\ n + 1 \in DOMAIN Levels[t]
    BY <1>3, <2>1 DEF CommonLevels
  <2>3. s \in Surfaces
    BY <2>2, LevelIsSurface
  <2> HIDE DEF s
  <2>4. /\ MemoryOK(m) /\ m[s] \in Texels(s) /\ (l[s] # NoMemory => m = l)
        /\ \A x \in Surfaces \ {s} : m[x] = l[x]
    BY <1>1, <1>3, <2>3, AllocatedMemory
  <2>5. l[s] = NoMemory => l[s] = sysmem[s] \/ l[s] \in Texels(s)
    BY <1>1, <2>3
  <2> QED BY <1>1, <2>3, <2>4, <2>5
<1> QED BY <1>1, <1>2, <1>3

LEMMA UpdateTextureStep ==
    ASSUME TypeOK, NEW t \in Textures, NEW u \in Textures,
           NEW n \in CommonLevels(t, u), UpdateTexture(t, u, n)
    PROVE  StateOK /\ Relied
<1> DEFINE moves == \A k \in 1..n :
                      WholeCopy(Levels[t][k], Levels[u][k]) \in DOMAIN Moves
<1>1. CASE ~moves
  <2> DEFINE S == UNION {LeftBy(WholeCopy(Levels[t][k], Levels[u][k])) : k \in 1..n}
  <2>1. astray' = S /\ UNCHANGED <<sysmem, locked, generation, sent>>
    BY <1>1 DEF UpdateTexture, GoAstray
  <2>2. S \subseteq Surfaces
    BY DEF LeftBy
  <2> HIDE DEF S
  <2> QED BY <2>1, <2>2, NothingChanges
<1>2. CASE moves
  <2>1. /\ sysmem' \in StoppedAfter(t, u, n)
        /\ generation' = [generation EXCEPT ![u] = @ + n]
        /\ UNCHANGED <<locked, sent, astray>>
    BY <1>2 DEF UpdateTexture
  <2>2. /\ MemoryOK(sysmem')
        /\ \A x \in Surfaces :
             \/ sysmem'[x] = sysmem[x]
             \/ /\ sysmem'[x] \in Texels(x)
                /\ sysmem[x] = NoMemory \/ \E k \in DOMAIN Levels[u] : Levels[u][k] = x
    BY <1>2, <2>1, StoppedMemory
  <2>3. n \in Nat \ {0}
    <3>1. Levels[t] \in Seq(Surfaces) /\ Levels[u] \in Seq(Surfaces)
      BY SurfaceAssumption
    <3> QED BY <3>1 DEF CommonLevels
  <2>4. /\ generation' \in [Textures -> Nat \ {0}]
        /\ \A x \in Textures : generation[x] <= generation'[x]
        /\ generation'[u] # generation[u]
    BY <2>1, <2>3 DEF TypeOK
  <2>5. StateOK
    BY <2>1, <2>2, <2>4 DEF TypeOK, StateOK
  <2>6. ASSUME NEW x \in Textures, NEW l \in DOMAIN Levels[x],
               generation'[x] = generation[x], sysmem[Levels[x][l]] # NoMemory
        PROVE  sysmem'[Levels[x][l]] = sysmem[Levels[x][l]]
    <3>1. \A k \in DOMAIN Levels[u] : Levels[u][k] # Levels[x][l]
      BY <2>4, <2>6, SurfaceAssumption
    <3> QED BY <2>2, <2>6, <3>1, LevelIsSurface
  <2>7. Relied
    BY <2>1, <2>4, <2>6 DEF Relied
  <2> QED BY <2>5, <2>7
<1> QED BY <1>1, <1>2

LEMMA ActionStep ==
    ASSUME TypeOK, Next
    PROVE  \/ StateOK /\ Relied
           \/ \E t \in Textures : \E l \in DOMAIN Levels[t] : Upload(t, l)
<1>1. CASE \E s \in Surfaces : LockRect(s) \/ UnlockRect(s)
  BY <1>1, LockRectStep, UnlockRectStep
<1>2. CASE \E s \in Surfaces, v \in Colors : \E i \in Memory(s) : WritePixel(s, i, v)
  BY <1>2, WritePixelStep
<1>3. CASE \E s \in Surfaces, v \in Colors : \E r \in Asked[s] : ColorFill(s, r, v)
  BY <1>3, ColorFillStep
<1>4. CASE \E c \in Accepted : UpdateSurface(c) \/ StretchRect(c)
  BY <1>4, CopyRectStep DEF UpdateSurface, StretchRect
<1>5. CASE \E s, d \in Surfaces :
             GetRenderTargetData(s, d) \/ CopyRunsOutOfMemory(s, d)
  BY <1>5, GetRenderTargetDataStep, CopyRunsOutOfMemoryStep
<1>6. CASE \E t, u \in Textures : \E n \in CommonLevels(t, u) : UpdateTexture(t, u, n)
  BY <1>6, UpdateTextureStep
<1>7. CASE \E t \in Textures : AddDirtyRect(t)
  BY <1>7, AddDirtyRectStep
<1>8. CASE \E t \in Textures : \E l \in DOMAIN Levels[t] : Upload(t, l)
  BY <1>8
<1> QED BY <1>1, <1>2, <1>3, <1>4, <1>5, <1>6, <1>7, <1>8 DEF Next

-----------------------------------------------------------------------------
\* Theorems.

\* A draw relies on memory that was there, and on a generation of the past.
IInv ==
  /\ TypeOK
  /\ sent # NoMemory => sent.texels # NoMemory
  /\ SentIsCurrent

LEMMA InvInit ==
    ASSUME Init
    PROVE  IInv
<1>1. /\ DOMAIN sysmem = Surfaces /\ \A s \in Surfaces : sysmem[s] = NoMemory
      /\ locked \in [Surfaces -> BOOLEAN] /\ \A s \in Surfaces : ~locked[s]
      /\ generation \in [Textures -> Nat \ {0}]
      /\ sent = NoMemory /\ astray = {}
  BY DEF Init
<1>2. TypeOK
  BY <1>1 DEF TypeOK
<1> QED BY <1>1, <1>2 DEF IInv, SentIsCurrent

LEMMA InvStep ==
    ASSUME IInv, [Next]_vars
    PROVE  IInv'
<1>1. CASE UNCHANGED vars
  <2>1. TypeOK'
    BY <1>1 DEF IInv, TypeOK, vars
  <2>2. SentIsCurrent'
    BY <1>1 DEF IInv, SentIsCurrent, vars
  <2> QED BY <1>1, <2>1, <2>2 DEF IInv, vars
<1>2. CASE StateOK /\ Relied
  <2>1. \A t \in Textures : generation[t] <= generation'[t]
    BY <1>2 DEF Relied
  <2>2. TypeOK'
    BY <1>2, <2>1 DEF IInv, TypeOK, StateOK, MemoryOK
  <2>3. SentIsCurrent'
    <3> SUFFICES ASSUME sent # NoMemory,
                        sent.generation = generation'[sent.texture],
                        ~locked'[Levels[sent.texture][sent.level]]
                 PROVE  sysmem'[Levels[sent.texture][sent.level]] = sent.texels
      BY <1>2 DEF SentIsCurrent, StateOK
    <3>1. /\ sent.texture \in Textures /\ sent.level \in DOMAIN Levels[sent.texture]
          /\ sent.generation \in 1..generation[sent.texture]
          /\ generation \in [Textures -> Nat \ {0}]
          /\ generation' \in [Textures -> Nat \ {0}]
      BY <1>2 DEF IInv, TypeOK, StateOK
    <3>2. generation'[sent.texture] = generation[sent.texture]
      BY <2>1, <3>1
    <3> QED BY <1>2, <3>1, <3>2 DEF IInv, SentIsCurrent, Relied
  <2> QED BY <1>2, <2>2, <2>3 DEF IInv, StateOK
<1>3. ASSUME NEW t \in Textures, NEW l \in DOMAIN Levels[t], Upload(t, l)
      PROVE  IInv'
  <2>1. /\ UNCHANGED <<sysmem, locked, generation, astray>>
        /\ sysmem[Levels[t][l]] # NoMemory
        /\ sent' = [texture |-> t, level |-> l, generation |-> generation[t],
                    texels |-> sysmem[Levels[t][l]]]
    BY <1>3 DEF Upload
  <2>2. generation[t] \in 1..generation[t]
    BY DEF IInv, TypeOK
  <2>3. TypeOK'
    BY <2>1, <2>2 DEF IInv, TypeOK
  <2>4. SentIsCurrent'
    BY <2>1 DEF SentIsCurrent
  <2> QED BY <2>1, <2>3, <2>4 DEF IInv
<1> QED BY <1>1, <1>2, <1>3, ActionStep DEF IInv

\* Every variable keeps its type for surfaces of any size and format: a copy
\* that stays inside takes only what is in its source's memory.
THEOREM TypeCorrect == Spec => []TypeOK
<1>1. IInv => TypeOK
  BY DEF IInv
<1> QED BY <1>1, InvInit, InvStep, PTL DEF Spec

\* What was copied for a draw is what the level holds, as long as the texture's
\* generation is the one that was copied and the game holds no lock: no write,
\* fill, copy or half-done update gets past the generation (UnlockRect,
\* surface_mark_container_dirty and the upload of a draw).
THEOREM SentStaysCurrent == Spec => []SentIsCurrent
<1>1. IInv => SentIsCurrent
  BY DEF IInv
<1> QED BY <1>1, InvInit, InvStep, PTL DEF Spec

\* The levels of an update are two surfaces each.
LEMMA UpdatedLevels ==
    ASSUME NEW t \in Textures, NEW u \in Textures, t # u,
           NEW n \in CommonLevels(t, u), NEW k \in 1..n
    PROVE  /\ k \in DOMAIN Levels[t] /\ k \in DOMAIN Levels[u]
           /\ Levels[t][k] \in Surfaces /\ Levels[u][k] \in Surfaces
           /\ Levels[t][k] # Levels[u][k]
<1>1. Levels[t] \in Seq(Surfaces) /\ Levels[u] \in Seq(Surfaces)
  BY SurfaceAssumption
<1>2. k \in DOMAIN Levels[t] /\ k \in DOMAIN Levels[u]
  BY <1>1 DEF CommonLevels
<1> QED BY <1>2, SurfaceAssumption, LevelIsSurface

LEMMA InsideStep ==
    ASSUME TypeOK, StaysInside, [Next]_vars
    PROVE  StaysInside'
<1> DEFINE inside == \A s \in astray' : s \in Surfaces /\ s \notin WithPixels
<1>1. ASSUME UNCHANGED astray
      PROVE  StaysInside'
  BY <1>1 DEF StaysInside
<1>2. ASSUME inside
      PROVE  StaysInside'
  BY <1>2 DEF StaysInside, WithPixels
<1>3. ASSUME NEW s \in Surfaces, NEW r \in Asked[s], NEW v, ColorFill(s, r, v)
      PROVE  UNCHANGED astray \/ inside
  <2>1. r \in RectType /\ Valid(r, s)
    BY <1>3, AskedType DEF ColorFill
  <2>2. CASE ~Inside(s, r)
    BY <1>3, <2>1, <2>2, ValidInside DEF ColorFill, GoAstray
  <2>3. CASE Inside(s, r)
    BY <1>3, <2>3 DEF ColorFill
  <2> QED BY <2>2, <2>3
<1>4. ASSUME NEW c \in Accepted, CopyRect(c)
      PROVE  UNCHANGED astray \/ inside
  BY <1>4, OnlyBlocksLeft DEF CopyRect, GoAstray
<1>5. ASSUME NEW s \in Surfaces, NEW d \in Surfaces, GetRenderTargetData(s, d)
      PROVE  UNCHANGED astray \/ inside
  BY <1>4, <1>5, WholeCopyAccepted DEF GetRenderTargetData
<1>6. ASSUME NEW t \in Textures, NEW u \in Textures, NEW n \in CommonLevels(t, u),
             UpdateTexture(t, u, n)
      PROVE  UNCHANGED astray \/ inside
  <2> DEFINE c(k) == WholeCopy(Levels[t][k], Levels[u][k])
  <2>1. ASSUME NEW k \in 1..n
        PROVE  \A s \in LeftBy(c(k)) : s \in Surfaces /\ s \notin WithPixels
    <3>1. /\ Levels[t][k] \in Surfaces /\ Levels[u][k] \in Surfaces
          /\ Levels[t][k] # Levels[u][k]
      BY <1>6, UpdatedLevels DEF UpdateTexture
    <3>2. Exact(c(k))
      BY <1>6 DEF UpdateTexture, AcceptsLevel
    <3>3. c(k) \in Accepted
      BY <3>1, <3>2, WholeCopyAccepted
    <3> HIDE DEF c
    <3> QED BY <3>3, OnlyBlocksLeft
  <2>2. UNCHANGED astray \/ astray' = UNION {LeftBy(c(k)) : k \in 1..n}
    BY <1>6 DEF UpdateTexture, GoAstray
  <2> HIDE DEF c
  <2> QED BY <2>1, <2>2
<1>7. ASSUME NEW s \in Surfaces, LockRect(s) \/ UnlockRect(s)
      PROVE  UNCHANGED astray
  BY <1>7 DEF LockRect, UnlockRect
<1>8. ASSUME NEW s, NEW i, NEW v, WritePixel(s, i, v)
      PROVE  UNCHANGED astray
  BY <1>8 DEF WritePixel
<1>9. ASSUME NEW s, NEW d, CopyRunsOutOfMemory(s, d)
      PROVE  UNCHANGED astray
  BY <1>9 DEF CopyRunsOutOfMemory
<1>10. ASSUME NEW t, AddDirtyRect(t) \/ \E l \in DOMAIN Levels[t] : Upload(t, l)
       PROVE  UNCHANGED astray
  BY <1>10 DEF AddDirtyRect, Upload
<1>11. CASE UNCHANGED vars
  BY <1>1, <1>11 DEF vars
<1> HIDE DEF inside
<1>12. CASE Next
  <2>1. UNCHANGED astray \/ inside
    BY <1>3, <1>4, <1>5, <1>6, <1>7, <1>8, <1>9, <1>10, <1>12
       DEF Next, UpdateSurface, StretchRect
  <2> QED BY <1>1, <1>2, <2>1
<1> QED BY <1>11, <1>12

\* For surfaces of any sizes and formats, no rectangle that
\* rect_valid_for_surface lets pass makes a fill or a copy leave the memory of
\* a surface that is not in a block format, whichever of the calls it comes
\* from, however it is scaled and whatever it is copied from or to.
THEOREM OnlyBlocksAreLeft == Spec => []StaysInside
<1>1. Init => StaysInside
  BY DEF Init, StaysInside
<1>2. TypeOK /\ StaysInside /\ [Next]_vars => StaysInside'
  BY InsideStep
<1> QED BY <1>1, <1>2, TypeCorrect, PTL DEF Spec

\* And in a block format the rows do reach further: of any surface with two
\* rows of pixels or more, a call for all of it that rect_valid_for_surface
\* lets pass (a Clear or a ColorFill, a level of UpdateTexture) leaves the
\* memory that surface_upload_size says the surface has.
THEOREM BlocksAreLeft ==
    ASSUME NEW s \in Surfaces, BlockCompressed(Desc[s].format), Desc[s].height > 1
    PROVE  Valid(Whole(s), s) /\ ~Inside(s, Whole(s))
<1> DEFINE w == Desc[s].width
           h == Desc[s].height
           k == Pitch(s)
           rows == Blocks(h)
<1>1. /\ w \in Nat \ {0} /\ h \in Nat \ {0} /\ h > 1
      /\ Whole(s) \in RectType /\ Valid(Whole(s), s)
  BY DescType, WholeRect
<1>2. Pitch(s) = k /\ Size(s) = k * rows
  BY DEF Size
<1>3. k \in Nat
  <2>1. Blocks(w) \in Nat /\ BlockUnits(Desc[s].format) \in Nat
    BY <1>1 DEF Blocks, BlockUnits
  <2> HIDE DEF w
  <2> QED BY <2>1 DEF Pitch, w
<1>4. rows \in Nat /\ rows <= h - 1
  BY <1>1 DEF Blocks
<1>5. <<0, h - 1>> \in Offsets(Whole(s))
  BY <1>1 DEF Offsets, Whole, WidthOf, HeightOf
<1>6. Target(s, Whole(s), <<0, h - 1>>) = (h - 1) * k
  <2>1. (h - 1) * k \in Nat
    BY <1>1, <1>3
  <2>2. Target(s, Whole(s), <<0, h - 1>>) = (0 + (h - 1)) * k + (0 + 0)
    BY DEF Target, Cell, Whole
  <2> HIDE DEF h, k
  <2> QED BY <1>1, <2>1, <2>2
<1> HIDE DEF w, h, k, rows
<1>7. (h - 1) * k >= k * rows /\ k * rows \in Nat
  <2>1. PICK j \in Nat : h - 1 = rows + j
    <3>1. h - 1 - rows \in Nat /\ h - 1 = rows + (h - 1 - rows)
      BY <1>1, <1>4
    <3> QED BY <3>1
  <2>2. (rows + j) * k = k * rows + j * k /\ j * k \in Nat /\ k * rows \in Nat
    BY <1>3, <1>4, SMT
  <2> QED BY <2>1, <2>2
<1>8. Target(s, Whole(s), <<0, h - 1>>) \notin Memory(s)
  BY <1>2, <1>6, <1>7 DEF Memory
<1> QED BY <1>1, <1>5, <1>8 DEF Inside

-----------------------------------------------------------------------------
\* The pictures in the memory.

Points(s) == (0..(Desc[s].width - 1)) \X (0..(Desc[s].height - 1))

\* The picture of surface s in a memory m.
Picture(m, s) ==
  [p \in Points(s) |->
     IF m[s] = NoMemory THEN Zero ELSE m[s][Cell(s, p[1], p[2])]]

\* The pixels of a rectangle.
Pixels(r) == (r.left..(r.right - 1)) \X (r.top..(r.bottom - 1))

LEMMA PlainSize ==
    ASSUME NEW s \in Surfaces, s \in WithPixels
    PROVE  /\ Pitch(s) = Desc[s].width
           /\ Memory(s) = 0..(Desc[s].width * Desc[s].height - 1)
BY DEF WithPixels, Pitch, Size, Memory

LEMMA CellInMemory ==
    ASSUME NEW s \in Surfaces, s \in WithPixels, NEW p \in Points(s)
    PROVE  Cell(s, p[1], p[2]) \in Memory(s)
<1>1. /\ p[1] \in Nat /\ p[1] < Desc[s].width
      /\ p[2] \in Nat /\ p[2] < Desc[s].height
  BY DescType DEF Points
<1>2. p[2] * Desc[s].width + p[1] \in 0..(Desc[s].width * Desc[s].height - 1)
  BY <1>1, DescType, RowColumn
<1> QED BY <1>2, PlainSize DEF Cell

\* Rows of w numbers do not overlap.
LEMMA RowsApart ==
    ASSUME NEW w \in Nat, NEW x \in Nat, NEW y \in Nat, NEW a \in Nat,
           NEW b \in Nat, x < w, a < w, y * w + x = b * w + a
    PROVE  ~(y < b)
<1> SUFFICES ASSUME y < b PROVE FALSE
  OBVIOUS
<1>1. PICK k \in Nat : b = y + 1 + k
  <2>1. b - y - 1 \in Nat /\ b = y + 1 + (b - y - 1)
    OBVIOUS
  <2> QED BY <2>1
<1>2. (y + 1 + k) * w = y * w + w + k * w /\ k * w \in Nat /\ y * w \in Nat
  BY SMT
<1> QED BY <1>1, <1>2

LEMMA CellsDiffer ==
    ASSUME NEW s \in Surfaces, s \in WithPixels, NEW p \in Points(s),
           NEW q \in Points(s), Cell(s, p[1], p[2]) = Cell(s, q[1], q[2])
    PROVE  p = q
<1> DEFINE w == Desc[s].width
<1>1. /\ p[1] \in Nat /\ p[1] < w /\ p[2] \in Nat
      /\ q[1] \in Nat /\ q[1] < w /\ q[2] \in Nat
      /\ p = <<p[1], p[2]>> /\ q = <<q[1], q[2]>> /\ w \in Nat
  BY DescType DEF Points
<1>2. p[2] * w + p[1] = q[2] * w + q[1]
  BY PlainSize DEF Cell
<1> HIDE DEF w
<1>3. p[2] = q[2]
  <2>1. ~(p[2] < q[2]) /\ ~(q[2] < p[2])
    BY <1>1, <1>2, RowsApart
  <2> QED BY <1>1, <2>1
<1>4. p[1] = q[1]
  <2>1. p[2] * w \in Nat
    BY <1>1
  <2> QED BY <1>1, <1>2, <1>3, <2>1
<1> QED BY <1>1, <1>3, <1>4

LEMMA CellOfUnit ==
    ASSUME NEW s \in Surfaces, s \in WithPixels, NEW i \in Memory(s)
    PROVE  /\ i % Pitch(s) \in Nat /\ i \div Pitch(s) \in Nat
           /\ <<i % Pitch(s), i \div Pitch(s)>> \in Points(s)
           /\ Cell(s, i % Pitch(s), i \div Pitch(s)) = i
<1> DEFINE w == Desc[s].width
           h == Desc[s].height
           x == i % w
           y == i \div w
<1>1. w \in Nat \ {0} /\ h \in Nat \ {0} /\ i \in Nat /\ i < w * h
  <2>1. w \in Nat \ {0} /\ h \in Nat \ {0} /\ w * h \in Nat
    BY DescType
  <2> QED BY <2>1, PlainSize
<1> HIDE DEF w, h
<1>2. x \in 0..(w - 1) /\ y \in Nat /\ i = y * w + x
  BY <1>1, SMT
<1> HIDE DEF x, y
<1>3. y < h
  <2> SUFFICES ASSUME y >= h PROVE FALSE
    BY <1>1, <1>2
  <2>1. PICK k \in Nat : y = h + k
    <3>1. y - h \in Nat /\ y = h + (y - h)
      BY <1>1, <1>2
    <3> QED BY <3>1
  <2>2. (h + k) * w = w * h + k * w /\ k * w \in Nat
    BY <1>1, SMT
  <2> QED BY <1>1, <1>2, <2>1, <2>2
<1>4. <<x, y>> \in Points(s) /\ Cell(s, x, y) = i
  BY <1>1, <1>2, <1>3, PlainSize, SMTT(60) DEF Points, Cell, w, h
<1>5. x = i % Pitch(s) /\ y = i \div Pitch(s) /\ x \in Nat
  BY <1>2, PlainSize DEF x, y, w
<1> QED BY <1>2, <1>4, <1>5

\* The place of an offset, and the offset of a place.
LEMMA PixelsOfRect ==
    ASSUME NEW s \in Surfaces, NEW r \in RectType, Valid(r, s)
    PROVE  /\ Pixels(r) \subseteq Points(s)
           /\ \A o \in Offsets(r) :
                <<r.left + o[1], r.top + o[2]>> \in Pixels(r)
           /\ \A p \in Pixels(r) :
                /\ <<p[1] - r.left, p[2] - r.top>> \in Offsets(r)
                /\ p = <<p[1], p[2]>> /\ p[1] \in Nat /\ p[2] \in Nat
<1>1. /\ r.left \in Nat /\ r.right \in Nat /\ r.top \in Nat /\ r.bottom \in Nat
      /\ r.left < r.right /\ r.right <= Desc[s].width
      /\ r.top < r.bottom /\ r.bottom <= Desc[s].height
      /\ Desc[s].width \in Nat /\ Desc[s].height \in Nat
  BY DescType DEF RectType, Valid
<1>2. Pixels(r) \subseteq Points(s)
  BY <1>1 DEF Pixels, Points
<1>3. ASSUME NEW o \in Offsets(r)
      PROVE  <<r.left + o[1], r.top + o[2]>> \in Pixels(r)
  BY <1>1 DEF Offsets, Pixels, WidthOf, HeightOf
<1>4. ASSUME NEW p \in Pixels(r)
      PROVE  /\ <<p[1] - r.left, p[2] - r.top>> \in Offsets(r)
             /\ p = <<p[1], p[2]>> /\ p[1] \in Nat /\ p[2] \in Nat
  BY <1>1 DEF Offsets, Pixels, WidthOf, HeightOf
<1> QED BY <1>2, <1>3, <1>4

\* A unit that belongs to a pixel is in a rectangle exactly if the pixel is,
\* and then one offset leads to it.
LEMMA TargetOfPixel ==
    ASSUME NEW s \in Surfaces, s \in WithPixels, NEW r \in RectType, Valid(r, s),
           NEW p \in Points(s), NEW o \in Offsets(r)
    PROVE  Target(s, r, o) = Cell(s, p[1], p[2]) <=>
             p \in Pixels(r) /\ o = <<p[1] - r.left, p[2] - r.top>>
<1> DEFINE q == <<r.left + o[1], r.top + o[2]>>
<1>1. q \in Pixels(r) /\ q \in Points(s)
  BY PixelsOfRect
<1>2. Target(s, r, o) = Cell(s, q[1], q[2])
  BY DEF Target
<1>3. Target(s, r, o) = Cell(s, p[1], p[2]) <=> q = p
  <2> HIDE DEF q
  <2> QED BY <1>1, <1>2, CellsDiffer
<1>4. r.left \in Int /\ r.top \in Int
  BY DEF RectType
<1>5. o[1] \in Int /\ o[2] \in Int /\ o = <<o[1], o[2]>>
  BY DEF Offsets
<1>6. p[1] \in Int /\ p[2] \in Int /\ p = <<p[1], p[2]>>
  BY DEF Points
<1>7. q = p <=> o = <<p[1] - r.left, p[2] - r.top>>
  <2>1. q = p <=> r.left + o[1] = p[1] /\ r.top + o[2] = p[2]
    BY <1>6
  <2>2. o = <<p[1] - r.left, p[2] - r.top>>
          <=> o[1] = p[1] - r.left /\ o[2] = p[2] - r.top
    BY <1>5
  <2> HIDE DEF q
  <2> QED BY <1>4, <1>5, <1>6, <2>1, <2>2
<1> HIDE DEF q
<1> QED BY <1>1, <1>3, <1>7

LEMMA PictureOfContents ==
    ASSUME NEW m, NEW s \in Surfaces, NEW p \in Points(s), m[s] \in Texels(s)
    PROVE  Picture(m, s)[p] = m[s][Cell(s, p[1], p[2])]
BY NoMemoryAssumption DEF Picture

LEMMA SamePicture ==
    ASSUME NEW m, NEW n, NEW s \in Surfaces, m[s] = n[s]
    PROVE  Picture(m, s) = Picture(n, s)
BY DEF Picture

\* Memory that has just been allocated is as blank as none.
LEMMA AllocatedPicture ==
    ASSUME NEW m, MemoryOK(m), NEW s \in Surfaces, NEW x \in Surfaces,
           x \in WithPixels
    PROVE  Picture(Allocated(m, s), x) = Picture(m, x)
<1>1. CASE m[s] = NoMemory /\ x = s
  <2>1. Allocated(m, s)[s] = [i \in Memory(s) |-> Zero]
    BY <1>1 DEF Allocated, MemoryOK
  <2>2. Allocated(m, s)[s] \in Texels(s)
    BY AllocatedMemory
  <2>3. ASSUME NEW p \in Points(s)
        PROVE  Picture(Allocated(m, s), s)[p] = Picture(m, s)[p]
    <3>1. Picture(Allocated(m, s), s)[p] = Zero
      <4>1. Picture(Allocated(m, s), s)[p]
              = Allocated(m, s)[s][Cell(s, p[1], p[2])]
        BY <2>2, PictureOfContents
      <4>2. Cell(s, p[1], p[2]) \in Memory(s)
        BY <1>1, CellInMemory
      <4> QED BY <2>1, <4>1, <4>2
    <3>2. Picture(m, s)[p] = Zero
      BY <1>1 DEF Picture
    <3> QED BY <3>1, <3>2
  <2> QED BY <1>1, <2>3 DEF Picture
<1>2. CASE ~(m[s] = NoMemory /\ x = s)
  <2>1. Allocated(m, s)[x] = m[x]
    BY <1>2, AllocatedMemory
  <2> QED BY <2>1, SamePicture
<1> QED BY <1>1, <1>2

\* From where a copy takes a pixel.
TakenFrom(c, p) ==
  <<c.from.left + ((p[1] - c.to.left) * WidthOf(c.from)) \div WidthOf(c.to),
    c.from.top + ((p[2] - c.to.top) * HeightOf(c.from)) \div HeightOf(c.to)>>

LEMMA SidesOfRect ==
    ASSUME NEW s \in Surfaces, NEW r \in RectType, Valid(r, s)
    PROVE  /\ WidthOf(r) \in Nat \ {0} /\ HeightOf(r) \in Nat \ {0}
           /\ r.left \in Nat /\ r.top \in Nat
           /\ r.right = r.left + WidthOf(r) /\ r.bottom = r.top + HeightOf(r)
           /\ r.right <= Desc[s].width /\ r.bottom <= Desc[s].height
BY DescType DEF RectType, Valid, WidthOf, HeightOf

LEMMA TakenFromSource ==
    ASSUME NEW c \in Accepted, NEW p \in Pixels(c.to)
    PROVE  /\ TakenFrom(c, p) \in Pixels(c.from)
           /\ TakenFrom(c, p) \in Points(c.src)
<1> DEFINE a == p[1] - c.to.left
           b == p[2] - c.to.top
<1>1. /\ c.src \in Surfaces /\ c.dst \in Surfaces
      /\ c.from \in RectType /\ c.to \in RectType
      /\ Valid(c.from, c.src) /\ Valid(c.to, c.dst)
  BY AcceptedType
<1>2. /\ a \in Nat /\ a < WidthOf(c.to) /\ b \in Nat /\ b < HeightOf(c.to)
  <2>1. <<a, b>> \in Offsets(c.to)
    BY <1>1, PixelsOfRect
  <2>2. WidthOf(c.to) \in Nat /\ HeightOf(c.to) \in Nat
    BY <1>1, SidesOfRect
  <2> HIDE DEF a, b
  <2> QED BY <2>1, <2>2 DEF Offsets
<1>3. /\ WidthOf(c.from) \in Nat \ {0} /\ HeightOf(c.from) \in Nat \ {0}
      /\ WidthOf(c.to) \in Nat \ {0} /\ HeightOf(c.to) \in Nat \ {0}
  BY <1>1, SidesOfRect
<1>4. TakenFrom(c, p) = <<c.from.left + (a * WidthOf(c.from)) \div WidthOf(c.to),
                          c.from.top + (b * HeightOf(c.from)) \div HeightOf(c.to)>>
  BY DEF TakenFrom
<1> HIDE DEF a, b
<1> DEFINE x == (a * WidthOf(c.from)) \div WidthOf(c.to)
           y == (b * HeightOf(c.from)) \div HeightOf(c.to)
<1>5. /\ WidthOf(c.from) \in Nat /\ WidthOf(c.from) > 0
      /\ HeightOf(c.from) \in Nat /\ HeightOf(c.from) > 0
  BY <1>3
<1>6. /\ x \in 0..(WidthOf(c.from) - 1)
      /\ y \in 0..(HeightOf(c.from) - 1)
  BY <1>2, <1>3, <1>5, Scaled, Zenon
<1>7. TakenFrom(c, p) = <<c.from.left + x, c.from.top + y>>
  BY <1>4
<1> HIDE DEF x, y
<1>8. <<x, y>> \in Offsets(c.from)
  BY <1>6 DEF Offsets
<1>9. <<c.from.left + x, c.from.top + y>> \in Pixels(c.from)
  BY <1>1, <1>8, PixelsOfRect
<1> QED BY <1>1, <1>7, <1>9, PixelsOfRect

\* What a copy takes for a unit that belongs to a pixel.
LEMMA MovedPixel ==
    ASSUME NEW c \in DOMAIN Moves, c.dst \in WithPixels, NEW p \in Points(c.dst),
           NEW i, i = Cell(c.dst, p[1], p[2])
    PROVE  /\ i \in DOMAIN Moves[c] <=> p \in Pixels(c.to)
           /\ p \in Pixels(c.to) =>
                Moves[c][i] = Cell(c.src, TakenFrom(c, p)[1], TakenFrom(c, p)[2])
<1> DEFINE o == <<p[1] - c.to.left, p[2] - c.to.top>>
<1>1. /\ c.src \in Surfaces /\ c.dst \in Surfaces
      /\ c.to \in RectType /\ Valid(c.to, c.dst)
  BY AcceptedType DEF Moves
<1>2. Moves[c] = Taken(c)
  BY DEF Moves
<1>3. ASSUME NEW a \in Offsets(c.to)
      PROVE  Target(c.dst, c.to, a) = i <=> p \in Pixels(c.to) /\ a = o
  BY <1>1, TargetOfPixel
<1>4. p \in Pixels(c.to) => o \in Offsets(c.to)
  BY <1>1, PixelsOfRect
<1>5. Source(c, o) = Cell(c.src, TakenFrom(c, p)[1], TakenFrom(c, p)[2])
  BY DEF Source, TakenFrom
<1> HIDE DEF o
<1>6. i \in DOMAIN Taken(c) <=> p \in Pixels(c.to)
  BY <1>3, <1>4 DEF Taken
<1>7. ASSUME p \in Pixels(c.to)
      PROVE  Taken(c)[i] = Source(c, o)
  <2> DEFINE a == CHOOSE a \in Offsets(c.to) : Target(c.dst, c.to, a) = i
  <2>1. a \in Offsets(c.to) /\ Target(c.dst, c.to, a) = i
    BY <1>3, <1>4, <1>7
  <2>2. Taken(c)[i] = Source(c, a)
    BY <1>6, <1>7 DEF Taken
  <2> HIDE DEF a
  <2> QED BY <1>3, <2>1, <2>2
<1> QED BY <1>2, <1>5, <1>6, <1>7

\* An accepted copy, of pixels.
LEMMA CopiedPicture ==
    ASSUME NEW m, MemoryOK(m), NEW c \in DOMAIN Moves
    PROVE  /\ \A x \in WithPixels \ {c.dst} :
                Picture(Copied(m, c), x) = Picture(m, x)
           /\ c.dst \in WithPixels => \A p \in Points(c.dst) :
                /\ p \in Pixels(c.to) /\ c.src \in WithPixels =>
                     Picture(Copied(m, c), c.dst)[p]
                       = Picture(m, c.src)[TakenFrom(c, p)]
                /\ p \notin Pixels(c.to) =>
                     Picture(Copied(m, c), c.dst)[p] = Picture(m, c.dst)[p]
<1> DEFINE from == Allocated(m, c.src)
           into == Allocated(from, c.dst)
<1>1. /\ c.src \in Surfaces /\ c.dst \in Surfaces /\ c.src # c.dst
      /\ c \in Accepted
  BY AcceptedType DEF Moves
<1>2. MemoryOK(from) /\ from[c.src] \in Texels(c.src)
  BY <1>1, AllocatedMemory
<1>3. MemoryOK(into) /\ into[c.dst] \in Texels(c.dst)
  <2> HIDE DEF from
  <2> QED BY <1>1, <1>2, AllocatedMemory
<1>4. /\ c.src \in WithPixels => Picture(from, c.src) = Picture(m, c.src)
      /\ c.dst \in WithPixels => Picture(into, c.dst) = Picture(m, c.dst)
  <2>1. \A x \in Surfaces : x \in WithPixels => Picture(from, x) = Picture(m, x)
    BY <1>1, AllocatedPicture
  <2> HIDE DEF from
  <2>2. c.dst \in WithPixels => Picture(into, c.dst) = Picture(from, c.dst)
    BY <1>1, <1>2, AllocatedPicture
  <2> QED BY <1>1, <2>1, <2>2
<1>5. Copied(m, c) = [into EXCEPT ![c.dst] = [i \in Memory(c.dst) |->
         IF i \in DOMAIN Moves[c] THEN from[c.src][Moves[c][i]]
         ELSE into[c.dst][i]]]
  BY DEF Copied
<1> HIDE DEF from, into
<1>6. ASSUME NEW i \in Memory(c.dst)
      PROVE  Copied(m, c)[c.dst][i] =
               IF i \in DOMAIN Moves[c] THEN from[c.src][Moves[c][i]]
               ELSE into[c.dst][i]
  BY <1>1, <1>3, <1>5 DEF MemoryOK
<1>7. /\ Copied(m, c)[c.dst] \in Texels(c.dst)
      /\ Copied(m, c)[c.src] = from[c.src]
      /\ \A x \in Surfaces \ {c.src, c.dst} : Copied(m, c)[x] = m[x]
  BY <1>1, CopiedMemory DEF from
<1>8. ASSUME NEW x \in WithPixels \ {c.dst}
      PROVE  Picture(Copied(m, c), x) = Picture(m, x)
  <2> x \in Surfaces
    BY DEF WithPixels
  <2>1. CASE x = c.src
    <3>1. Picture(Copied(m, c), c.src) = Picture(from, c.src)
      BY <1>1, <1>7, SamePicture
    <3> QED BY <1>4, <2>1, <3>1
  <2>2. CASE x # c.src
    BY <1>7, <2>2, SamePicture
  <2> QED BY <2>1, <2>2
<1>9. ASSUME c.dst \in WithPixels, NEW p \in Points(c.dst)
      PROVE  /\ p \in Pixels(c.to) /\ c.src \in WithPixels =>
                  Picture(Copied(m, c), c.dst)[p]
                    = Picture(m, c.src)[TakenFrom(c, p)]
             /\ p \notin Pixels(c.to) =>
                  Picture(Copied(m, c), c.dst)[p] = Picture(m, c.dst)[p]
  <2> DEFINE i == Cell(c.dst, p[1], p[2])
             q == TakenFrom(c, p)
  <2>1. i \in Memory(c.dst)
    BY <1>1, <1>9, CellInMemory
  <2>2. Picture(Copied(m, c), c.dst)[p] = Copied(m, c)[c.dst][i]
    BY <1>1, <1>7, PictureOfContents
  <2>3. Picture(m, c.dst)[p] = into[c.dst][i]
    BY <1>1, <1>3, <1>4, <1>9, PictureOfContents
  <2>4. /\ i \in DOMAIN Moves[c] <=> p \in Pixels(c.to)
        /\ p \in Pixels(c.to) => Moves[c][i] = Cell(c.src, q[1], q[2])
    BY <1>9, MovedPixel
  <2>5. p \in Pixels(c.to) /\ c.src \in WithPixels =>
          Picture(m, c.src)[q] = from[c.src][Cell(c.src, q[1], q[2])]
    <3>1. p \in Pixels(c.to) => q \in Points(c.src)
      BY <1>1, TakenFromSource
    <3> HIDE DEF q
    <3> QED BY <1>1, <1>2, <1>4, <3>1, PictureOfContents
  <2> HIDE DEF i, q
  <2>6. CASE p \in Pixels(c.to)
    BY <1>6, <2>1, <2>2, <2>4, <2>5, <2>6 DEF q
  <2>7. CASE p \notin Pixels(c.to)
    BY <1>6, <2>1, <2>2, <2>3, <2>4, <2>7
  <2> QED BY <2>6, <2>7
<1> QED BY <1>8, <1>9

\* A fill, of pixels.
LEMMA FilledPicture ==
    ASSUME MemoryOK(sysmem), NEW s \in Surfaces, s \in WithPixels,
           NEW r \in RectType, Valid(r, s), NEW v \in Colors, ColorFill(s, r, v)
    PROVE  /\ \A x \in Surfaces \ {s} : Picture(sysmem', x) = Picture(sysmem, x)
           /\ \A p \in Points(s) :
                Picture(sysmem', s)[p] =
                  IF p \in Pixels(r) THEN v ELSE Picture(sysmem, s)[p]
<1> DEFINE before == Allocated(sysmem, s)
           new == [i \in Memory(s) |->
                     IF \E o \in Offsets(r) : Target(s, r, o) = i
                       THEN v ELSE before[s][i]]
<1>1. sysmem' = [sysmem EXCEPT ![s] = new]
  BY ValidInside DEF ColorFill
<1>2. MemoryOK(before) /\ before[s] \in Texels(s)
  BY AllocatedMemory
<1>3. Picture(before, s) = Picture(sysmem, s)
  BY AllocatedPicture
<1> HIDE DEF before
<1>4. new \in Texels(s)
  BY <1>2 DEF Texels
<1>5. ASSUME NEW i \in Memory(s)
      PROVE  new[i] = IF \E o \in Offsets(r) : Target(s, r, o) = i
                        THEN v ELSE before[s][i]
  OBVIOUS
<1> HIDE DEF new
<1>6. sysmem'[s] = new /\ \A x \in Surfaces \ {s} : sysmem'[x] = sysmem[x]
  BY <1>1 DEF MemoryOK
<1>7. ASSUME NEW x \in Surfaces \ {s}
      PROVE  Picture(sysmem', x) = Picture(sysmem, x)
  BY <1>6, SamePicture
<1>8. ASSUME NEW p \in Points(s)
      PROVE  Picture(sysmem', s)[p] =
               IF p \in Pixels(r) THEN v ELSE Picture(sysmem, s)[p]
  <2> DEFINE i == Cell(s, p[1], p[2])
             o == <<p[1] - r.left, p[2] - r.top>>
  <2>1. i \in Memory(s)
    BY CellInMemory
  <2>2. Picture(sysmem', s)[p] = new[i]
    BY <1>4, <1>6, PictureOfContents
  <2>3. Picture(sysmem, s)[p] = before[s][i]
    BY <1>2, <1>3, PictureOfContents
  <2>4. \A a \in Offsets(r) :
          Target(s, r, a) = i <=> p \in Pixels(r) /\ a = o
    BY TargetOfPixel
  <2>5. p \in Pixels(r) => o \in Offsets(r)
    BY PixelsOfRect
  <2> HIDE DEF i, o
  <2>6. (\E a \in Offsets(r) : Target(s, r, a) = i) <=> p \in Pixels(r)
    BY <2>4, <2>5
  <2> QED BY <1>5, <2>1, <2>2, <2>3, <2>6
<1> QED BY <1>7, <1>8

LEMMA WrittenPicture ==
    ASSUME TypeOK, NEW s \in Surfaces, s \in WithPixels, NEW v \in Colors,
           NEW i \in Memory(s), WritePixel(s, i, v)
    PROVE  /\ \A x \in Surfaces \ {s} : Picture(sysmem', x) = Picture(sysmem, x)
           /\ \A q \in Points(s) :
                Picture(sysmem', s)[q] =
                  IF q \in Pixels(PixelAt(s, i)) THEN v ELSE Picture(sysmem, s)[q]
           /\ Pixels(PixelAt(s, i)) \subseteq Points(s)
           /\ Pixels(PixelAt(s, i)) # {}
<1>1. sysmem[s] \in Texels(s) /\ DOMAIN sysmem = Surfaces
  BY DEF TypeOK, WritePixel
<1>2. sysmem' = [sysmem EXCEPT ![s] = [sysmem[s] EXCEPT ![i] = v]]
  BY DEF WritePixel
<1>3. /\ sysmem'[s] = [sysmem[s] EXCEPT ![i] = v]
      /\ \A x \in Surfaces \ {s} : sysmem'[x] = sysmem[x]
  BY <1>1, <1>2
<1>4. sysmem'[s] \in Texels(s)
  BY <1>1, <1>3 DEF Texels
<1> DEFINE p == <<i % Pitch(s), i \div Pitch(s)>>
<1>5. p \in Points(s) /\ Cell(s, p[1], p[2]) = i
  BY CellOfUnit
<1>8. Pixels(PixelAt(s, i)) = {p}
  <2> DEFINE x == i % Pitch(s)
             y == i \div Pitch(s)
  <2>1. x \in Nat /\ y \in Nat /\ p = <<x, y>>
    BY CellOfUnit
  <2> DEFINE r == PixelAt(s, i)
  <2>2. r = [left |-> x, top |-> y, right |-> x + 1, bottom |-> y + 1]
    BY Zenon DEF PixelAt
  <2>3. Pixels(r) = (r.left..(r.right - 1)) \X (r.top..(r.bottom - 1))
    BY Zenon DEF Pixels
  <2> HIDE DEF x, y, p, r
  <2>4. /\ r.left = x /\ r.right = x + 1
        /\ r.top = y /\ r.bottom = y + 1
    BY <2>2
  <2>5. r.left..(r.right - 1) = {x} /\ r.top..(r.bottom - 1) = {y}
    BY <2>1, <2>4
  <2>6. Pixels(r) = {p}
    BY <2>1, <2>3, <2>5
  <2> QED BY <2>6 DEF r
<1> HIDE DEF p
<1>6. ASSUME NEW q \in Points(s)
      PROVE  Picture(sysmem', s)[q] =
               IF q = p THEN v ELSE Picture(sysmem, s)[q]
  <2>1. /\ Picture(sysmem', s)[q] = sysmem'[s][Cell(s, q[1], q[2])]
        /\ Picture(sysmem, s)[q] = sysmem[s][Cell(s, q[1], q[2])]
    BY <1>1, <1>4, PictureOfContents
  <2>2. Cell(s, q[1], q[2]) = i <=> q = p
    BY <1>5, CellsDiffer
  <2>3. Cell(s, q[1], q[2]) \in Memory(s)
    BY CellInMemory
  <2> QED BY <1>1, <1>3, <2>1, <2>2, <2>3 DEF Texels
<1>7. \A x \in Surfaces \ {s} : Picture(sysmem', x) = Picture(sysmem, x)
  BY <1>3, SamePicture
<1> QED BY <1>5, <1>6, <1>7, <1>8

-----------------------------------------------------------------------------
\* The refinement.

LEMMA PictureOfMemory ==
    ASSUME NEW s \in Surfaces
    PROVE  /\ PictureOf(s) = Picture(sysmem, s)
           /\ PictureOf(s)' = Picture(sysmem', s)
<1>1. PictureOf(s) = Picture(sysmem, s)
  BY DEF PictureOf, Picture, Points
<1>2. PictureOf(s)' = Picture(sysmem', s)
  BY DEF PictureOf, Picture, Points
<1> QED BY <1>1, <1>2

LEMMA RectPromised ==
    ASSUME NEW s \in Surfaces, NEW r \in RectType, Valid(r, s)
    PROVE  /\ Promise!Within(r) = Pixels(r)
           /\ Promise!Points(s) = Points(s)
           /\ Promise!Lies(r, s)
<1>1. Promise!Within(r) = Pixels(r)
  BY DEF Promise!Within, Pixels
<1>2. Promise!Points(s) = Points(s)
  BY DEF Promise!Points, Points, Widths, Heights
<1>3. Pixels(r) \subseteq Points(s)
  BY PixelsOfRect
<1>4. <<r.left, r.top>> \in Pixels(r)
  BY SidesOfRect DEF Pixels
<1> QED BY <1>1, <1>2, <1>3, <1>4 DEF Promise!Lies

LEMMA WithPixelsAreSurfaces == WithPixels \subseteq Surfaces
BY DEF WithPixels

LEMMA NoPictureChanges ==
    ASSUME \A x \in WithPixels : Picture(sysmem', x) = Picture(sysmem, x)
    PROVE  UNCHANGED [s \in WithPixels |-> PictureOf(s)]
<1>1. \A x \in WithPixels : PictureOf(x)' = PictureOf(x)
  BY WithPixelsAreSurfaces, PictureOfMemory
<1> QED BY <1>1

\* What the promise calls a fill, of a rectangle or of a pixel of the game's own.
LEMMA FillIsPromised ==
    ASSUME NEW s \in Surfaces, s \in WithPixels, NEW r, NEW v \in Colors,
           call' = FillCall(s, r, v),
           Pixels(r) \subseteq Points(s), Pixels(r) # {},
           \A x \in Surfaces \ {s} : Picture(sysmem', x) = Picture(sysmem, x),
           \A p \in Points(s) :
             Picture(sysmem', s)[p] = IF p \in Pixels(r) THEN v ELSE Picture(sysmem, s)[p]
    PROVE  Promise!Fill
<1>1. /\ Promise!Within(r) = Pixels(r) /\ Promise!Points(s) = Points(s)
      /\ Promise!Lies(r, s)
  BY DEF Promise!Within, Pixels, Promise!Points, Points, Widths, Heights, Promise!Lies
<1>2. Picture(sysmem', s) =
        [p \in Points(s) |-> IF p \in Pixels(r) THEN v ELSE Picture(sysmem, s)[p]]
  BY DEF Picture
<1>3. PictureOf(s)' =
        [p \in Promise!Points(s) |->
           IF p \in Promise!Within(r) THEN v ELSE PictureOf(s)[p]]
  BY <1>1, <1>2, PictureOfMemory
<1>4. \A x \in WithPixels \ {s} : PictureOf(x)' = PictureOf(x)
  BY WithPixelsAreSurfaces, PictureOfMemory
<1>5. [x \in WithPixels |-> PictureOf(x)]' =
        [[x \in WithPixels |-> PictureOf(x)] EXCEPT ![s] =
           [p \in Promise!Points(s) |->
              IF p \in Promise!Within(r) THEN v ELSE @[p]]]
  BY <1>3, <1>4
<1>6. call'.op = "fill" /\ call'.dst = s /\ call'.to = r /\ call'.pixel = v
  BY DEF FillCall
<1> QED BY <1>1, <1>5, <1>6 DEF Promise!Fill

LEMMA FillPromised ==
    ASSUME TypeOK, NEW s \in Surfaces, NEW r \in Asked[s], NEW v \in Colors,
           ColorFill(s, r, v)
    PROVE  Promise!Next \/ UNCHANGED Promise!pictureVars
<1>1. MemoryOK(sysmem) /\ r \in RectType /\ Valid(r, s)
  BY AskedType DEF TypeOK, MemoryOK, ColorFill
<1>2. CASE ~Inside(s, r)
  <2>1. UNCHANGED <<sysmem, call>>
    BY <1>2 DEF ColorFill, GoAstray
  <2> QED BY <2>1, NoPictureChanges DEF Promise!pictureVars
<1>3. CASE Inside(s, r) /\ s \in WithPixels
  <2>1. /\ \A x \in Surfaces \ {s} : Picture(sysmem', x) = Picture(sysmem, x)
        /\ \A p \in Points(s) :
             Picture(sysmem', s)[p] =
               IF p \in Pixels(r) THEN v ELSE Picture(sysmem, s)[p]
    BY <1>1, <1>3, FilledPicture
  <2>2. call' = FillCall(s, r, v)
    BY <1>3 DEF ColorFill
  <2>3. Pixels(r) \subseteq Points(s) /\ Pixels(r) # {}
    BY <1>1, RectPromised DEF Promise!Lies
  <2> QED BY <1>3, <2>1, <2>2, <2>3, FillIsPromised DEF Promise!Next
<1>4. CASE Inside(s, r) /\ s \notin WithPixels
  <2>1. \A x \in Surfaces \ {s} : sysmem'[x] = sysmem[x]
    BY <1>1, <1>4 DEF ColorFill, MemoryOK
  <2>2. \A x \in WithPixels : Picture(sysmem', x) = Picture(sysmem, x)
    BY <1>4, <2>1, WithPixelsAreSurfaces, SamePicture
  <2>3. call'.op = "fill" /\ call'.dst = s
    BY <1>4 DEF ColorFill, FillCall
  <2> QED BY <1>4, <2>2, <2>3, NoPictureChanges DEF Promise!Elsewhere, Promise!Next
<1> QED BY <1>2, <1>3, <1>4

LEMMA WritePromised ==
    ASSUME TypeOK, NEW s \in Surfaces, NEW v \in Colors,
           NEW i \in Memory(s), WritePixel(s, i, v)
    PROVE  Promise!Next
<1>1. call' = FillCall(s, PixelAt(s, i), v)
  BY DEF WritePixel
<1>2. CASE s \in WithPixels
  BY <1>1, <1>2, WrittenPicture, FillIsPromised DEF Promise!Next
<1>3. CASE s \notin WithPixels
  <2>1. \A x \in Surfaces \ {s} : sysmem'[x] = sysmem[x]
    BY DEF WritePixel, TypeOK
  <2>2. \A x \in WithPixels : Picture(sysmem', x) = Picture(sysmem, x)
    BY <1>3, <2>1, WithPixelsAreSurfaces, SamePicture
  <2>3. call'.op = "fill" /\ call'.dst = s
    BY <1>1 DEF FillCall
  <2> QED BY <1>3, <2>2, <2>3, NoPictureChanges DEF Promise!Elsewhere, Promise!Next
<1> QED BY <1>2, <1>3

\* A copy between surfaces with pixels takes each pixel from where its own
\* rectangles, and no others, put it; out of a surface without, it keeps to
\* its rectangle; into one, it changes no picture.
LEMMA CopyPromised ==
    ASSUME TypeOK, NEW c \in Accepted, CopyRect(c)
    PROVE  Promise!Next \/ UNCHANGED Promise!pictureVars
<1>1. /\ c.src \in Surfaces /\ c.dst \in Surfaces /\ c.src # c.dst
      /\ c.from \in RectType /\ c.to \in RectType
      /\ Valid(c.from, c.src) /\ Valid(c.to, c.dst)
  BY AcceptedType
<1>2. CASE c \notin DOMAIN Moves
  <2>1. UNCHANGED <<sysmem, call>>
    BY <1>2 DEF CopyRect, GoAstray
  <2> QED BY <2>1, NoPictureChanges DEF Promise!pictureVars
<1>3. CASE c \in DOMAIN Moves
  <2>1. /\ MemoryOK(sysmem) /\ sysmem' = Copied(sysmem, c)
        /\ call'.op = "copy" /\ call'.src = c.src /\ call'.dst = c.dst
        /\ call'.from = c.from /\ call'.to = c.to
    BY <1>3 DEF TypeOK, MemoryOK, CopyRect
  <2>2. /\ \A x \in WithPixels \ {c.dst} : Picture(sysmem', x) = Picture(sysmem, x)
        /\ c.dst \in WithPixels => \A p \in Points(c.dst) :
             /\ p \in Pixels(c.to) /\ c.src \in WithPixels =>
                  Picture(sysmem', c.dst)[p] = Picture(sysmem, c.src)[TakenFrom(c, p)]
             /\ p \notin Pixels(c.to) =>
                  Picture(sysmem', c.dst)[p] = Picture(sysmem, c.dst)[p]
    BY <1>3, <2>1, CopiedPicture
  <2>3. /\ Promise!Lies(c.from, c.src) /\ Promise!Lies(c.to, c.dst)
        /\ Promise!Within(c.to) = Pixels(c.to)
        /\ Promise!Points(c.dst) = Points(c.dst)
    BY <1>1, RectPromised
  <2>4. \A x \in WithPixels \ {c.dst} : PictureOf(x)' = PictureOf(x)
    BY <2>2, WithPixelsAreSurfaces, PictureOfMemory
  <2>5. CASE c.dst \in WithPixels /\ c.src \in WithPixels
    <3>1. \A p \in Points(c.dst) :
            Promise!Nearest(c.from, c.to, p) = TakenFrom(c, p)
      BY DEF Promise!Nearest, TakenFrom, WidthOf, HeightOf
    <3>2. Picture(sysmem', c.dst) =
            [p \in Points(c.dst) |->
               IF p \in Pixels(c.to) THEN Picture(sysmem, c.src)[TakenFrom(c, p)]
               ELSE Picture(sysmem, c.dst)[p]]
      BY <2>2, <2>5 DEF Picture
    <3>3. PictureOf(c.dst)' =
            [p \in Points(c.dst) |->
               IF p \in Pixels(c.to)
                 THEN PictureOf(c.src)[TakenFrom(c, p)]
                 ELSE PictureOf(c.dst)[p]]
      BY <1>1, <3>2, PictureOfMemory
    <3>4. PictureOf(c.dst)' =
            [p \in Promise!Points(c.dst) |->
               IF p \in Promise!Within(c.to)
                 THEN PictureOf(c.src)[Promise!Nearest(c.from, c.to, p)]
                 ELSE PictureOf(c.dst)[p]]
      BY <2>3, <3>1, <3>3
    <3>5. [x \in WithPixels |-> PictureOf(x)]' =
            [[x \in WithPixels |-> PictureOf(x)] EXCEPT ![c.dst] =
               [p \in Promise!Points(c.dst) |->
                  IF p \in Promise!Within(c.to)
                    THEN [x \in WithPixels |-> PictureOf(x)]
                           [c.src][Promise!Nearest(c.from, c.to, p)]
                    ELSE @[p]]]
      BY <2>4, <2>5, <3>4
    <3> QED BY <1>1, <2>1, <2>3, <2>5, <3>5 DEF Promise!Copy, Promise!Next
  <2>6. CASE c.dst \in WithPixels /\ c.src \notin WithPixels
    <3>1. \A p \in Points(c.dst) \ Pixels(c.to) :
            PictureOf(c.dst)'[p] = PictureOf(c.dst)[p]
      BY <1>1, <2>2, <2>6, PictureOfMemory
    <3>2. Promise!Paste
      BY <1>1, <2>1, <2>3, <2>4, <2>6, <3>1 DEF Promise!Paste
    <3> QED BY <3>2 DEF Promise!Next
  <2>7. CASE c.dst \notin WithPixels
    BY <2>1, <2>2, <2>7, NoPictureChanges DEF Promise!Elsewhere, Promise!Next
  <2> QED BY <2>5, <2>6, <2>7
<1> QED BY <1>2, <1>3

LEMMA Unscaled ==
    ASSUME NEW a \in Nat, NEW n \in Nat \ {0}
    PROVE  (a * n) \div n = a
<1> DEFINE q == (a * n) \div n
           r == (a * n) % n
<1>1. a * n \in Nat
  OBVIOUS
<1>2. q \in Nat /\ r \in 0..(n - 1) /\ q * n + r = a * n
  BY <1>1, SMT
<1> HIDE DEF q, r
<1>3. ~(q < a)
  BY <1>2, RowsApart
<1>4. ~(a < q)
  <2>1. a * n + 0 = q * n + r
    BY <1>1, <1>2
  <2> QED BY <1>2, <2>1, RowsApart
<1>5. q = a
  BY <1>2, <1>3, <1>4
<1> QED BY <1>5 DEF q

\* A whole level copied to one of its size is the same picture.
LEMMA LevelPicture ==
    ASSUME MemoryOK(sysmem), NEW s \in Surfaces, NEW d \in Surfaces,
           s \in WithPixels, d \in WithPixels, s # d, Exact(WholeCopy(s, d))
    PROVE  /\ Picture(Copied(sysmem, WholeCopy(s, d)), d) = Picture(sysmem, s)
           /\ Desc[s].width = Desc[d].width /\ Desc[s].height = Desc[d].height
<1> DEFINE c == WholeCopy(s, d)
<1>1. /\ c.src = s /\ c.dst = d /\ c.from = Whole(s) /\ c.to = Whole(d)
      /\ SameSize(c)
  BY DEF WholeCopy, Exact
<1>2. /\ Desc[s].width \in Nat \ {0} /\ Desc[s].height \in Nat \ {0}
      /\ Desc[d].width \in Nat \ {0} /\ Desc[d].height \in Nat \ {0}
  BY DescType
<1>3. c \in DOMAIN Moves
  <2>1. c \in Accepted
    BY WholeCopyAccepted
  <2> HIDE DEF c
  <2> QED BY <1>1, <2>1, AllMove
<1> HIDE DEF c
<1>4. Desc[s].width = Desc[d].width /\ Desc[s].height = Desc[d].height
  BY <1>1, <1>2 DEF SameSize, Whole, WidthOf, HeightOf
<1>5. Pixels(c.to) = Points(d) /\ Points(s) = Points(d)
  BY <1>1, <1>4 DEF Pixels, Points, Whole
<1>6. ASSUME NEW p \in Points(d)
      PROVE  TakenFrom(c, p) = p
  <2>1. p[1] \in Nat /\ p[2] \in Nat /\ p = <<p[1], p[2]>>
    BY <1>2 DEF Points
  <2>2. TakenFrom(c, p) =
          <<0 + ((p[1] - 0) * (Desc[s].width - 0)) \div (Desc[d].width - 0),
            0 + ((p[2] - 0) * (Desc[s].height - 0)) \div (Desc[d].height - 0)>>
    BY <1>1 DEF TakenFrom, Whole, WidthOf, HeightOf
  <2>3. /\ (p[1] * Desc[s].width) \div Desc[d].width = p[1]
        /\ (p[2] * Desc[s].height) \div Desc[d].height = p[2]
    BY <1>2, <1>4, <2>1, Unscaled
  <2>4. /\ p[1] - 0 = p[1] /\ p[2] - 0 = p[2]
        /\ Desc[s].width - 0 = Desc[s].width /\ Desc[d].width - 0 = Desc[d].width
        /\ Desc[s].height - 0 = Desc[s].height
        /\ Desc[d].height - 0 = Desc[d].height
        /\ 0 + p[1] = p[1] /\ 0 + p[2] = p[2]
    BY <1>2, <2>1
  <2> QED BY <2>1, <2>2, <2>3, <2>4
<1>7. \A p \in Points(d) : Picture(Copied(sysmem, c), d)[p] = Picture(sysmem, s)[p]
  <2>1. \A p \in Points(c.dst) :
           p \in Pixels(c.to) =>
             Picture(Copied(sysmem, c), c.dst)[p] = Picture(sysmem, c.src)[TakenFrom(c, p)]
    BY <1>1, <1>3, CopiedPicture
  <2> QED BY <1>1, <1>5, <1>6, <2>1
<1>8. Picture(Copied(sysmem, c), d) = Picture(sysmem, s)
  BY <1>5, <1>7 DEF Picture
<1> QED BY <1>4, <1>8 DEF c

LEMMA LevelsPicture ==
    ASSUME MemoryOK(sysmem), NEW t \in Textures, NEW u \in Textures,
           t # u, NEW n \in CommonLevels(t, u),
           \A k \in 1..n : AcceptsLevel(t, u, k), NEW x \in WithPixels,
           \A k \in 1..n : WholeCopy(Levels[t][k], Levels[u][k]) \in DOMAIN Moves
    PROVE  /\ \A l \in 1..n :
                /\ l = CHOOSE k \in 1..n : Levels[u][k] = x
                /\ Levels[u][l] = x /\ Levels[t][l] \in WithPixels
                => /\ Picture(LevelsCopied(t, u, n), x) = Picture(sysmem, Levels[t][l])
                   /\ Desc[Levels[t][l]].width = Desc[x].width
                   /\ Desc[Levels[t][l]].height = Desc[x].height
           /\ (~\E l \in 1..n : Levels[u][l] = x) =>
                Picture(LevelsCopied(t, u, n), x) = Picture(sysmem, x)
<1> DEFINE m == LevelsCopied(t, u, n)
<1>0. x \in Surfaces
  BY DEF WithPixels
<1>1. ASSUME NEW l \in 1..n, l = CHOOSE k \in 1..n : Levels[u][k] = x,
             Levels[u][l] = x, Levels[t][l] \in WithPixels
      PROVE  /\ Picture(m, x) = Picture(sysmem, Levels[t][l])
             /\ Desc[Levels[t][l]].width = Desc[x].width
             /\ Desc[Levels[t][l]].height = Desc[x].height
  <2>1. m[x] = Copied(sysmem, WholeCopy(Levels[t][l], x))[x]
    BY <1>0, <1>1 DEF LevelsCopied
  <2>2. /\ Levels[t][l] \in Surfaces /\ Levels[t][l] # x
        /\ Exact(WholeCopy(Levels[t][l], x))
    BY <1>1, UpdatedLevels DEF AcceptsLevel
  <2>3. /\ Picture(Copied(sysmem, WholeCopy(Levels[t][l], x)), x)
             = Picture(sysmem, Levels[t][l])
        /\ Desc[Levels[t][l]].width = Desc[x].width
        /\ Desc[Levels[t][l]].height = Desc[x].height
    BY <1>0, <1>1, <2>2, LevelPicture
  <2> HIDE DEF m
  <2>4. Picture(m, x) = Picture(sysmem, Levels[t][l])
    BY <1>0, <2>1, <2>3, SamePicture
  <2> QED BY <2>3, <2>4
<1>2. CASE /\ ~\E k \in 1..n : Levels[u][k] = x
           /\ \E k \in 1..n : Levels[t][k] = x
  <2>1. m[x] = Allocated(sysmem, x)[x]
    BY <1>0, <1>2 DEF LevelsCopied
  <2> HIDE DEF m
  <2>2. Picture(m, x) = Picture(sysmem, x)
    BY <1>0, <2>1, SamePicture, AllocatedPicture
  <2> QED BY <1>2, <2>2 DEF m
<1>3. CASE /\ ~\E k \in 1..n : Levels[u][k] = x
           /\ ~\E k \in 1..n : Levels[t][k] = x
  <2>1. m[x] = sysmem[x]
    BY <1>0, <1>3 DEF LevelsCopied
  <2> HIDE DEF m
  <2>2. Picture(m, x) = Picture(sysmem, x)
    BY <1>0, <2>1, SamePicture
  <2> QED BY <1>3, <2>2 DEF m
<1> HIDE DEF m
<1>4. (~\E l \in 1..n : Levels[u][l] = x) => Picture(m, x) = Picture(sysmem, x)
  BY <1>2, <1>3 DEF m
<1> QED BY <1>1, <1>4 DEF m

LEMMA UpdatePromised ==
    ASSUME TypeOK, NEW t \in Textures, NEW u \in Textures,
           NEW n \in CommonLevels(t, u), UpdateTexture(t, u, n)
    PROVE  Promise!Next \/ UNCHANGED Promise!pictureVars
<1> DEFINE l == LevelsCopied(t, u, n)
           s == Levels[t][n + 1]
           moves == \A k \in 1..n :
                      WholeCopy(Levels[t][k], Levels[u][k]) \in DOMAIN Moves
<1>1. MemoryOK(sysmem) /\ t # u /\ \A k \in 1..n : AcceptsLevel(t, u, k)
  BY DEF TypeOK, MemoryOK, UpdateTexture
<1>2. CASE ~moves
  <2>1. UNCHANGED <<sysmem, call>>
    BY <1>2 DEF UpdateTexture, GoAstray
  <2> QED BY <2>1, NoPictureChanges DEF Promise!pictureVars
<1>3. CASE moves
  <2>1. /\ sysmem' \in StoppedAfter(t, u, n)
        /\ call' = [op |-> "update", src |-> t, dst |-> u, levels |-> n]
    BY <1>3 DEF UpdateTexture
  <2>2. sysmem' = l \/ (n + 1 \in CommonLevels(t, u) /\ sysmem' = Allocated(l, s))
    BY <2>1 DEF StoppedAfter
  <2>3. MemoryOK(l)
    BY <1>3, LevelsCopiedMemory
  <2>4. \A x \in WithPixels : Picture(sysmem', x) = Picture(l, x)
    <3>1. CASE n + 1 \in CommonLevels(t, u) /\ sysmem' = Allocated(l, s)
      <4>1. Levels[t] \in Seq(Surfaces) /\ Levels[u] \in Seq(Surfaces)
        BY SurfaceAssumption
      <4>2. n \in Nat /\ n + 1 \in DOMAIN Levels[t]
        BY <3>1, <4>1 DEF CommonLevels
      <4>3. s \in Surfaces
        BY <4>2, LevelIsSurface
      <4> HIDE DEF l, s
      <4> QED BY <2>3, <3>1, <4>3, AllocatedPicture, WithPixelsAreSurfaces
    <3> QED BY <2>2, <3>1
  <2>5. ASSUME NEW x \in WithPixels
        PROVE  /\ \A k \in 1..n :
                    /\ k = CHOOSE j \in 1..n : Levels[u][j] = x
                    /\ Levels[u][k] = x /\ Levels[t][k] \in WithPixels
                    => /\ PictureOf(x)' = PictureOf(Levels[t][k])
                       /\ Widths[Levels[t][k]] = Widths[x]
                       /\ Heights[Levels[t][k]] = Heights[x]
               /\ (~\E k \in 1..n : Levels[u][k] = x) => PictureOf(x)' = PictureOf(x)
    <3>1. /\ \A k \in 1..n :
               /\ k = CHOOSE j \in 1..n : Levels[u][j] = x
               /\ Levels[u][k] = x /\ Levels[t][k] \in WithPixels
               => /\ Picture(l, x) = Picture(sysmem, Levels[t][k])
                  /\ Desc[Levels[t][k]].width = Desc[x].width
                  /\ Desc[Levels[t][k]].height = Desc[x].height
          /\ (~\E k \in 1..n : Levels[u][k] = x) => Picture(l, x) = Picture(sysmem, x)
      BY <1>1, <1>3, LevelsPicture
    <3> HIDE DEF l
    <3> QED BY <2>4, <3>1, WithPixelsAreSurfaces, PictureOfMemory DEF Widths, Heights
  <2>6. /\ n \in 1..Len(Levels[t]) /\ n \in 1..Len(Levels[u])
        /\ t \in DOMAIN Levels /\ u \in DOMAIN Levels
    <3>1. Levels[t] \in Seq(Surfaces) /\ Levels[u] \in Seq(Surfaces)
      BY SurfaceAssumption
    <3> QED BY <3>1, SurfaceAssumption DEF CommonLevels
  <2> HIDE DEF l, s, moves
  <2> DEFINE from(x) == Levels[t][CHOOSE k \in 1..n : Levels[u][k] = x]
  <2>7. \A x \in WithPixels :
          /\ (\E k \in 1..n : Levels[u][k] = x) /\ from(x) \in WithPixels =>
               /\ Widths[from(x)] = Widths[x] /\ Heights[from(x)] = Heights[x]
               /\ PictureOf(x)' = PictureOf(from(x))
          /\ (~\E k \in 1..n : Levels[u][k] = x) => PictureOf(x)' = PictureOf(x)
    <3> TAKE x \in WithPixels
    <3> DEFINE k == CHOOSE j \in 1..n : Levels[u][j] = x
    <3>1. (\E j \in 1..n : Levels[u][j] = x) => k \in 1..n /\ Levels[u][k] = x
      OBVIOUS
    <3>2. from(x) = Levels[t][k]
      OBVIOUS
    <3>3. k = CHOOSE j \in 1..n : Levels[u][j] = x
      OBVIOUS
    <3>4. (~\E j \in 1..n : Levels[u][j] = x) => PictureOf(x)' = PictureOf(x)
      BY <2>5, Zenon
    <3> HIDE DEF k
    <3>5. k \in 1..n /\ Levels[u][k] = x /\ Levels[t][k] \in WithPixels =>
            /\ PictureOf(x)' = PictureOf(Levels[t][k])
            /\ Widths[Levels[t][k]] = Widths[x]
            /\ Heights[Levels[t][k]] = Heights[x]
      BY <2>5, <3>3, Zenon
    <3> HIDE DEF from
    <3> QED BY <3>1, <3>2, <3>4, <3>5, Zenon
  <2> DEFINE pictures == [x \in WithPixels |-> PictureOf(x)]
  <2>8. \A x \in WithPixels :
          /\ (\E k \in 1..n : Levels[u][k] = x) /\ from(x) \in WithPixels =>
               /\ Widths[from(x)] = Widths[x] /\ Heights[from(x)] = Heights[x]
               /\ pictures'[x] = pictures[from(x)]
          /\ (~\E k \in 1..n : Levels[u][k] = x) => pictures'[x] = pictures[x]
    <3> HIDE DEF from
    <3> QED BY <2>7
  <2>9. DOMAIN pictures' = WithPixels
    OBVIOUS
  <2>10. n <= Len(Levels[u])
    BY <2>6
  <2> HIDE DEF pictures
  <2>11. Promise!UpdateLevels(t, u, n)
    BY <1>1, <2>1, <2>8, <2>9, <2>10, Zenon DEF Promise!UpdateLevels, pictures
  <2> QED BY <2>6, <2>11 DEF Promise!Next
<1> QED BY <1>2, <1>3

LEMMA PromisedStep ==
    ASSUME TypeOK, [Next]_vars
    PROVE  [Promise!Next]_(Promise!pictureVars)
<1> DEFINE same == /\ \A x \in WithPixels : Picture(sysmem', x) = Picture(sysmem, x)
                   /\ UNCHANGED call
           promised == Promise!Next \/ UNCHANGED Promise!pictureVars
<1>1. MemoryOK(sysmem)
  BY DEF TypeOK, MemoryOK
<1>2. ASSUME NEW s \in Surfaces, LockRect(s)
      PROVE  same
  BY <1>1, <1>2, AllocatedPicture, WithPixelsAreSurfaces DEF LockRect
<1>3. ASSUME NEW s \in Surfaces, UnlockRect(s)
      PROVE  same
  BY <1>3 DEF UnlockRect
<1>4. ASSUME NEW s \in Surfaces, NEW v \in Colors, NEW i \in Memory(s),
             WritePixel(s, i, v)
      PROVE  promised
  BY <1>4, WritePromised
<1>5. ASSUME NEW s \in Surfaces, NEW v \in Colors, NEW r \in Asked[s],
             ColorFill(s, r, v)
      PROVE  promised
  BY <1>5, FillPromised
<1>6. ASSUME NEW c \in Accepted, CopyRect(c)
      PROVE  promised
  BY <1>6, CopyPromised
<1>7. ASSUME NEW s \in Surfaces, NEW d \in Surfaces, GetRenderTargetData(s, d)
      PROVE  promised
  BY <1>6, <1>7, WholeCopyAccepted DEF GetRenderTargetData
<1>8. ASSUME NEW s \in Surfaces, NEW d \in Surfaces, CopyRunsOutOfMemory(s, d)
      PROVE  same
  BY <1>1, <1>8, AllocatedPicture, WithPixelsAreSurfaces DEF CopyRunsOutOfMemory
<1>9. ASSUME NEW t \in Textures,
             AddDirtyRect(t) \/ \E l \in DOMAIN Levels[t] : Upload(t, l)
      PROVE  same
  BY <1>9 DEF AddDirtyRect, Upload
<1>10. CASE UNCHANGED vars
  <2>1. same
    BY <1>10 DEF vars
  <2> QED BY <2>1, NoPictureChanges DEF Promise!pictureVars
<1>11. same => promised
  BY NoPictureChanges DEF Promise!pictureVars
<1>12. ASSUME NEW t \in Textures, NEW u \in Textures, NEW n \in CommonLevels(t, u),
              UpdateTexture(t, u, n)
       PROVE  promised
  BY <1>12, UpdatePromised
<1> HIDE DEF same, promised
<1>13. CASE Next
  <2>1. promised
    BY <1>2, <1>3, <1>4, <1>5, <1>6, <1>7, <1>8, <1>9, <1>11, <1>12, <1>13
       DEF Next, UpdateSurface, StretchRect
  <2> QED BY <2>1 DEF promised
<1> QED BY <1>10, <1>13

\* For surfaces of every size and format, the calls implement the pictures they
\* promise: fills and scaled copies put each pixel of the rectangle the game
\* named, and no other, where the rectangles' coordinates say, memory that
\* appears shows nothing, and an update of a texture that stops half-way has
\* copied whole levels only (surface_copy_rect, surface_fill_rect, texture
\* UpdateTexture).  A surface in a block format is no picture, and a copy out of
\* one writes something, in its rectangle.
THEOREM PicturesRefined == Spec => ImplementsPictures
<1>1. Init => Promise!Init
  <2> SUFFICES ASSUME Init PROVE Promise!Init
    OBVIOUS
  <2>1. ASSUME NEW s \in WithPixels
        PROVE  PictureOf(s) = [p \in Promise!Points(s) |-> Zero]
    BY WithPixelsAreSurfaces DEF Init, PictureOf, Promise!Points, Widths, Heights
  <2>2. call = Promise!NoCall
    BY DEF Init, NoCall, Promise!NoCall
  <2> QED BY <2>1, <2>2 DEF Promise!Init
<1>2. TypeOK /\ [Next]_vars => [Promise!Next]_(Promise!pictureVars)
  BY PromisedStep
<1> QED BY <1>1, <1>2, TypeCorrect, PTL DEF Spec, ImplementsPictures, Promise!Spec
=============================================================================
