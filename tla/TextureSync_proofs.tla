------------------------- MODULE TextureSync_proofs -------------------------
(***************************************************************************)
(* A lost copy is made up for by the refresh, for any textures, levels,    *)
(* refresh interval and capacities, in the first FrameIds frames.          *)
(*                                                                         *)
(* The argument is about the draws that are on their way, in the order in  *)
(* which the viewer will come to them.  A draw relies on the last copy up  *)
(* to it, or on the cache when there is none; that copy is recent, so that *)
(* whoever loses it excuses the draw.  The frontend's books promise this   *)
(* for the next draw.                                                      *)
(***************************************************************************)
EXTENDS TextureSync, SequenceTheorems, TLAPS

\* The frames have numbers that differ.
FirstFrames == MaxFrames <= FrameIds

\* The draws that the viewer has still to come to.
Unseen == IF file.frame # taken THEN file.draws ELSE <<>>
OnTheWay == (replaying \o Unseen) \o recorded

\* None of the draws from a to b of s brings a copy of t.
NoCopy(s, t, a, b) == \A k \in DOMAIN s : a <= k /\ k <= b => s[k].copy[t] = NoTexels

\* After the first n of the draws s the viewer has v in t: from the last copy
\* among them, of one of the frames fs, or without one from its cache c.
Given(s, n, t, v, fs, c) ==
  \/ /\ c = v
     /\ NoCopy(s, t, 1, n)
  \/ \E j \in DOMAIN s :
       /\ j <= n
       /\ s[j].copy[t] = v
       /\ s[j].frame \in fs
       /\ NoCopy(s, t, j + 1, n)

Quiet(t, fs, d) == \A f \in fs : <<t, f>> \notin d

\* Each of the draws s finds what the game had at the call, unless the textures
\* and frames d say that something recent was lost.
AllGiven(s, d, c) ==
  \A i \in DOMAIN s : \A t \in Textures :
    /\ t \in s[i].bound
    /\ s[i].want[t] # NoTexels
    /\ Quiet(t, Recent(s[i].frame), d)
    => Given(s, i, t, s[i].want[t], Recent(s[i].frame), c[t])

\* The texture x has been copied since its last change, says the frontend.
Booked(x) ==
  /\ x.lastGeneration = x.generation
  /\ x.lastFrame # 0

\* What the books of texture t say in frame f holds once the draws s are
\* replayed.
BookHolds(x, t, f, s, d, c) ==
  /\ x.lastGeneration <= x.generation
  /\ x.lastFrame <= f
  /\ Booked(x) /\ Quiet(t, x.lastFrame..f, d)
     => /\ Bound(x) # NoTexels
        /\ Given(s, Len(s), t, Bound(x), x.lastFrame..f, c[t])

DrawsGiven == AllGiven(OnTheWay, disturbed, cache)

BooksHold ==
  \A t \in Textures : BookHolds(textures[t], t, frame, OnTheWay, disturbed, cache)

FramesInOrder ==
  /\ taken < frame
  /\ file.frame < frame
  /\ \A i \in DOMAIN recorded : recorded[i].frame = frame

IInv == TypeOK /\ FramesInOrder /\ BooksHold /\ DrawsGiven

-----------------------------------------------------------------------------
\* What remains of draws that are on their way.

\* q is what remains of the draws p: draws and copies may be gone, and where
\* a copy is gone, d says so.  m leads from a draw to where it was.
Remains(m, p, q, d) ==
  /\ m \in [DOMAIN q -> DOMAIN p]
  /\ \A k, l \in DOMAIN q : k < l => m[k] < m[l]
  /\ \A k \in DOMAIN q :
       /\ q[k].frame = p[m[k]].frame
       /\ q[k].bound = p[m[k]].bound
       /\ q[k].want = p[m[k]].want
       /\ \A t \in Textures : q[k].copy[t] \in {NoTexels, p[m[k]].copy[t]}
  /\ \A i \in DOMAIN p, t \in Textures :
       p[i].copy[t] # NoTexels /\ <<t, p[i].frame>> \notin d
         => \E k \in DOMAIN q : m[k] = i /\ q[k].copy[t] = p[i].copy[t]

\* What was given is still given, unless it is known as lost.
LEMMA StillGiven ==
  ASSUME NEW p, NEW q, NEW m, NEW d, NEW t \in Textures, NEW v, NEW fs, NEW c,
         NEW i \in Nat, NEW k \in Nat, NEW a \in Nat, NEW b \in Nat,
         DOMAIN p = 1..a, DOMAIN q = 1..b,
         Remains(m, p, q, d), v # NoTexels, Quiet(t, fs, d),
         \A l \in DOMAIN q : l <= k <=> m[l] <= i,
         Given(p, i, t, v, fs, c)
  PROVE  Given(q, k, t, v, fs, c)
<1>1. \A l \in DOMAIN q : m[l] \in DOMAIN p /\ m[l] \in Nat /\ l \in Nat /\ 1 <= m[l]
  BY DEF Remains
<1>2. \A l \in DOMAIN q : q[l].copy[t] \in {NoTexels, p[m[l]].copy[t]}
  BY DEF Remains
<1>3. ASSUME NEW j \in Nat, NEW n \in Nat, NoCopy(p, t, j, i),
             \A l \in DOMAIN q : n <= l => j <= m[l]
      PROVE  NoCopy(q, t, n, k)
  <2> SUFFICES ASSUME NEW l \in DOMAIN q, n <= l, l <= k
               PROVE  q[l].copy[t] = NoTexels
    BY DEF NoCopy
  <2>1. m[l] \in DOMAIN p /\ m[l] <= i /\ j <= m[l]
    BY <1>1, <1>3
  <2>2. p[m[l]].copy[t] = NoTexels
    BY <1>3, <2>1 DEF NoCopy
  <2> QED BY <1>2, <2>2
<1>4. CASE c = v /\ NoCopy(p, t, 1, i)
  <2>1. NoCopy(q, t, 1, k)
    BY <1>1, <1>3, <1>4
  <2> QED BY <1>4, <2>1 DEF Given
<1>5. CASE \E j \in DOMAIN p : /\ j <= i
                               /\ p[j].copy[t] = v
                               /\ p[j].frame \in fs
                               /\ NoCopy(p, t, j + 1, i)
  <2>1. PICK j \in DOMAIN p : /\ j <= i
                              /\ p[j].copy[t] = v
                              /\ p[j].frame \in fs
                              /\ NoCopy(p, t, j + 1, i)
    BY <1>5
  <2>2. <<t, p[j].frame>> \notin d
    BY <2>1 DEF Quiet
  <2>3. PICK n \in DOMAIN q : m[n] = j /\ q[n].copy[t] = p[j].copy[t]
    BY <2>1, <2>2 DEF Remains
  <2>4. n <= k /\ n \in Nat /\ q[n].frame \in fs
    BY <1>1, <2>1, <2>3 DEF Remains
  <2>5. \A l \in DOMAIN q : n + 1 <= l => j + 1 <= m[l]
    <3> SUFFICES ASSUME NEW l \in DOMAIN q, n + 1 <= l PROVE j + 1 <= m[l]
      OBVIOUS
    <3>1. n < l
      BY <1>1
    <3>2. m[n] < m[l]
      BY <3>1 DEF Remains
    <3> QED BY <1>1, <2>3, <3>2
  <2>6. NoCopy(q, t, n + 1, k)
    BY <1>3, <2>1, <2>4, <2>5
  <2> QED BY <2>1, <2>3, <2>4, <2>6 DEF Given
<1> QED BY <1>4, <1>5 DEF Given

\* More frames may give it.
LEMMA GivenMore ==
  ASSUME NEW p, NEW t, NEW v, NEW fs, NEW gs, NEW c, NEW n,
         fs \subseteq gs, Given(p, n, t, v, fs, c)
  PROVE  Given(p, n, t, v, gs, c)
BY DEF Given

\* What comes behind changes nothing, and gives what it brings.
LEMMA GivenBefore ==
  ASSUME NEW a \in Nat, NEW p, NEW q, NEW t, NEW v, NEW fs, NEW c, NEW n \in 0..a,
         DOMAIN p = 1..a, DOMAIN q = 1..(a + 1),
         \A k \in 1..a : q[k] = p[k],
         Given(p, n, t, v, fs, c)
  PROVE  /\ Given(q, n, t, v, fs, c)
         /\ n = a /\ q[a + 1].copy[t] = NoTexels => Given(q, a + 1, t, v, fs, c)
<1>1. ASSUME NEW j \in Nat, NoCopy(p, t, j, n)
      PROVE  /\ NoCopy(q, t, j, n)
             /\ n = a /\ q[a + 1].copy[t] = NoTexels => NoCopy(q, t, j, a + 1)
  BY <1>1 DEF NoCopy
<1>2. CASE c = v /\ NoCopy(p, t, 1, n)
  BY <1>1, <1>2 DEF Given
<1>3. CASE \E j \in DOMAIN p : /\ j <= n
                               /\ p[j].copy[t] = v
                               /\ p[j].frame \in fs
                               /\ NoCopy(p, t, j + 1, n)
  <2>1. PICK j \in DOMAIN p : /\ j <= n
                              /\ p[j].copy[t] = v
                              /\ p[j].frame \in fs
                              /\ NoCopy(p, t, j + 1, n)
    BY <1>3
  <2>2. /\ NoCopy(q, t, j + 1, n)
        /\ n = a /\ q[a + 1].copy[t] = NoTexels => NoCopy(q, t, j + 1, a + 1)
    BY <1>1, <2>1
  <2>3. j \in DOMAIN q /\ q[j] = p[j] /\ j <= a + 1
    BY <2>1
  <2> QED BY <2>1, <2>2, <2>3 DEF Given
<1> QED BY <1>2, <1>3 DEF Given

LEMMA GivenLast ==
  ASSUME NEW a \in Nat, NEW q, NEW t, NEW v, NEW fs, NEW c,
         DOMAIN q = 1..(a + 1), q[a + 1].copy[t] = v, q[a + 1].frame \in fs
  PROVE  Given(q, a + 1, t, v, fs, c)
BY DEF Given, NoCopy

\* The first draw is replayed: its copy is in the cache, or known as lost.
LEMMA GivenAfterFirst ==
  ASSUME NEW a \in Nat, NEW p, NEW q, NEW t, NEW v, NEW fs, NEW c, NEW d, NEW e,
         NEW n \in 0..a,
         DOMAIN p = 1..(a + 1), DOMAIN q = 1..a,
         \A k \in 1..a : q[k] = p[k + 1],
         v # NoTexels, Quiet(t, fs, d),
         p[1].copy[t] = NoTexels => e = c,
         p[1].copy[t] # NoTexels /\ <<t, p[1].frame>> \notin d => e = p[1].copy[t],
         Given(p, n + 1, t, v, fs, c)
  PROVE  Given(q, n, t, v, fs, e)
<1>1. ASSUME NEW j \in Nat, NoCopy(p, t, j + 1, n + 1)
      PROVE  NoCopy(q, t, j, n)
  <2> SUFFICES ASSUME NEW k \in DOMAIN q, j <= k, k <= n
               PROVE  q[k].copy[t] = NoTexels
    BY DEF NoCopy
  <2>1. k \in 1..a /\ k + 1 \in DOMAIN p /\ j + 1 <= k + 1 /\ k + 1 <= n + 1
    OBVIOUS
  <2> QED BY <1>1, <2>1 DEF NoCopy
<1>2. CASE c = v /\ NoCopy(p, t, 1, n + 1)
  <2>1. p[1].copy[t] = NoTexels /\ NoCopy(p, t, 1 + 1, n + 1)
    BY <1>2 DEF NoCopy
  <2>2. NoCopy(q, t, 1, n)
    BY <1>1, <2>1
  <2> QED BY <1>2, <2>1, <2>2 DEF Given
<1>3. CASE \E j \in DOMAIN p : /\ j <= n + 1
                               /\ p[j].copy[t] = v
                               /\ p[j].frame \in fs
                               /\ NoCopy(p, t, j + 1, n + 1)
  <2>1. PICK j \in DOMAIN p : /\ j <= n + 1
                              /\ p[j].copy[t] = v
                              /\ p[j].frame \in fs
                              /\ NoCopy(p, t, j + 1, n + 1)
    BY <1>3
  <2>2. NoCopy(q, t, j, n)
    BY <1>1, <2>1
  <2>3. CASE j = 1
    <3>1. e = v
      BY <2>1, <2>3 DEF Quiet
    <3> QED BY <2>2, <2>3, <3>1 DEF Given
  <2>4. CASE j # 1
    <3>1. /\ j - 1 \in DOMAIN q /\ j - 1 <= n
          /\ q[j - 1] = p[j] /\ (j - 1) + 1 = j
      BY <2>1, <2>4
    <3> QED BY <2>1, <2>2, <3>1 DEF Given
  <2> QED BY <2>3, <2>4
<1> QED BY <1>2, <1>3 DEF Given
-----------------------------------------------------------------------------
\* Types.

LEMMA FrameIdType == frame \in Nat => FrameId \in 0..(FrameIds - 1)
BY TextureAssumption DEF FrameId

LEMMA LostCopies ==
  ASSUME NEW s, NEW t \in Textures, NEW i \in DOMAIN s, s[i].copy[t] # NoTexels
  PROVE  <<t, s[i].frame>> \in LostWith(s)
<1>1. t \in Copies(s[i])
  BY DEF Copies
<1>2. <<t, s[i].frame>> \in {<<u, s[i].frame>> : u \in Copies(s[i])}
  BY <1>1
<1> QED BY <1>2, Zenon DEF LostWith

LEMMA LostWithType ==
  ASSUME NEW s \in Seq(DrawType)
  PROVE  LostWith(s) \subseteq Textures \X (1..MaxFrames)
<1> SUFFICES ASSUME NEW e \in LostWith(s)
             PROVE  e \in Textures \X (1..MaxFrames)
  OBVIOUS
<1>1. PICK i \in DOMAIN s : e \in {<<u, s[i].frame>> : u \in Copies(s[i])}
  BY Zenon DEF LostWith
<1>2. PICK u \in Copies(s[i]) : e = <<u, s[i].frame>>
  BY <1>1
<1>3. s[i] \in DrawType /\ u \in Textures
  BY <1>2 DEF Copies
<1> QED BY <1>2, <1>3 DEF DrawType

LEMMA SingleDraw ==
  ASSUME NEW x \in DrawType
  PROVE  <<x>> \in Seq(DrawType)
OBVIOUS

\* What the file does not show, and what it leaves out of what it shows.
LEMMA FitsType ==
  ASSUME NEW s \in Seq(DrawType)
  PROVE  /\ Fits(s) \in Seq(DrawType) /\ CutOff(s) \in Seq(DrawType)
         /\ Len(Fits(s)) <= Len(s)
         /\ \A i \in 1..Len(Fits(s)) : Fits(s)[i] = s[i]
         /\ \A i \in 1..Len(s) : i > Len(Fits(s))
              => /\ i - Len(Fits(s)) \in DOMAIN CutOff(s)
                 /\ CutOff(s)[i - Len(Fits(s))] = s[i]
<1>1. CASE Len(s) <= IpcDraws
  <2>1. IpcDraws \in Nat /\ Len(s) \in Nat
    BY TextureAssumption
  <2>2. Fits(s) = SubSeq(s, 1, Len(s)) /\ SubSeq(s, 1, Len(s)) = s
    BY <1>1 DEF Fits
  <2>3. CutOff(s) \in Seq(DrawType)
    BY <2>1 DEF CutOff
  <2> QED BY <2>1, <2>2, <2>3
<1>2. CASE Len(s) > IpcDraws
  <2>1. IpcDraws \in Nat /\ Len(s) \in Nat
    BY TextureAssumption
  <2>2. Fits(s) = SubSeq(s, 1, IpcDraws)
    BY <1>2, <2>1 DEF Fits
  <2>3. /\ Fits(s) \in Seq(DrawType) /\ Len(Fits(s)) = IpcDraws
        /\ \A i \in 1..IpcDraws : Fits(s)[i] = s[i]
    BY <1>2, <2>1, <2>2
  <2>4. /\ CutOff(s) \in Seq(DrawType) /\ Len(CutOff(s)) = Len(s) - IpcDraws
        /\ \A i \in 1..(Len(s) - IpcDraws) : CutOff(s)[i] = s[IpcDraws + i]
    BY <1>2, <2>1 DEF CutOff
  <2> HIDE DEF Fits, CutOff
  <2>5. ASSUME NEW i \in 1..Len(s), i > IpcDraws
        PROVE  /\ i - IpcDraws \in 1..(Len(s) - IpcDraws)
               /\ IpcDraws + (i - IpcDraws) = i
    BY <2>1, <2>5
  <2>6. DOMAIN CutOff(s) = 1..(Len(s) - IpcDraws)
    BY <2>1, <2>4
  <2> QED BY <1>2, <2>1, <2>3, <2>4, <2>5, <2>6
<1> QED BY <1>1, <1>2, TextureAssumption

LEMMA StrippedType ==
  ASSUME NEW s \in Seq(DrawType), NEW omitted
  PROVE  /\ Stripped(s, omitted) \in Seq(DrawType)
         /\ Len(Stripped(s, omitted)) = Len(s)
         /\ \A i \in DOMAIN s :
              /\ Stripped(s, omitted)[i].frame = s[i].frame
              /\ Stripped(s, omitted)[i].bound = s[i].bound
              /\ Stripped(s, omitted)[i].want = s[i].want
              /\ \A t \in Textures : Stripped(s, omitted)[i].copy[t] =
                   IF <<i, t>> \in omitted THEN NoTexels ELSE s[i].copy[t]
<1> DEFINE c(i) == [t \in Textures |->
                      IF <<i, t>> \in omitted THEN NoTexels ELSE s[i].copy[t]]
           x(i) == [s[i] EXCEPT !.copy = c(i)]
<1>1. Stripped(s, omitted) = [i \in DOMAIN s |-> x(i)]
  BY DEF Stripped
<1>2. ASSUME NEW i \in DOMAIN s
      PROVE  /\ x(i) \in DrawType
             /\ x(i).frame = s[i].frame /\ x(i).bound = s[i].bound
             /\ x(i).want = s[i].want /\ x(i).copy = c(i)
  <2>1. s[i] \in DrawType
    OBVIOUS
  <2>2. c(i) \in [Textures -> Contents]
    BY <2>1 DEF DrawType, Contents
  <2> HIDE DEF c
  <2> QED BY <2>1, <2>2 DEF DrawType
<1>3. ASSUME NEW i \in DOMAIN s, NEW t \in Textures
      PROVE  c(i)[t] = IF <<i, t>> \in omitted THEN NoTexels ELSE s[i].copy[t]
  OBVIOUS
<1> HIDE DEF c, x
<1>4. DOMAIN s = 1..Len(s) /\ Len(s) \in Nat
  OBVIOUS
<1>5. /\ Stripped(s, omitted) \in Seq(DrawType)
      /\ Len(Stripped(s, omitted)) = Len(s)
  BY <1>1, <1>2, <1>4
<1> QED BY <1>1, <1>2, <1>3, <1>5
TextureType ==
  [generation : 1..MaxGeneration, lod : LevelNumbers,
   data : [LevelNumbers -> Contents], lastGeneration : 0..MaxGeneration,
   lastFrame : 0..(FrameIds - 1)]

\* What a call may do to a texture.
LEMMA TextureChanges ==
  ASSUME NEW x \in TextureType, NEW l \in LevelNumbers, NEW v \in Contents
  PROVE  /\ x.generation < MaxGeneration
              => /\ MarkedDirty(x) \in TextureType
                 /\ [MarkedDirty(x) EXCEPT !.data[l] = v] \in TextureType
         /\ [x EXCEPT !.data[l] = v] \in TextureType
         /\ [x EXCEPT !.lod = l] \in TextureType
         /\ frame \in Nat => Uploaded(x) \in TextureType
         /\ Bound(x) \in Contents
<1> DEFINE dd == [x.data EXCEPT ![l] = v]
<1>1. /\ dd \in [LevelNumbers -> Contents]
      /\ [x EXCEPT !.data[l] = v] = [x EXCEPT !.data = dd]
      /\ [MarkedDirty(x) EXCEPT !.data[l] = v] = [MarkedDirty(x) EXCEPT !.data = dd]
  BY DEF TextureType, MarkedDirty
<1>2. ASSUME x.generation < MaxGeneration
      PROVE  x.generation + 1 \in 1..MaxGeneration
  BY <1>2, TextureAssumption DEF TextureType
<1> HIDE DEF dd
<1>3. x.generation < MaxGeneration => MarkedDirty(x) \in TextureType
  BY <1>2 DEF TextureType, MarkedDirty
<1>4. \A y \in TextureType : [y EXCEPT !.data = dd] \in TextureType
  BY <1>1 DEF TextureType
<1>5. [x EXCEPT !.lod = l] \in TextureType
  BY DEF TextureType
<1>6. ASSUME frame \in Nat PROVE Uploaded(x) \in TextureType
  <2>1. x.generation \in 0..MaxGeneration
    BY DEF TextureType
  <2>2. FrameId \in 0..(FrameIds - 1)
    BY <1>6, FrameIdType
  <2> QED BY <2>1, <2>2 DEF TextureType, Uploaded
<1>7. Bound(x) \in Contents
  BY DEF Bound, TextureType
<1> QED BY <1>1, <1>3, <1>4, <1>5, <1>6, <1>7

LEMMA CarriedType ==
  ASSUME TypeOK, NEW bound \in SUBSET Textures, NEW copied
  PROVE  Carried(bound, copied) \in DrawType
<1>1. \A t \in Textures : Bound(textures[t]) \in Contents
  <2> TAKE t \in Textures
  <2>1. textures[t] \in TextureType
    BY DEF TypeOK, TextureType
  <2>2. 0 \in LevelNumbers /\ NoTexels \in Contents
    BY TextureAssumption DEF LevelNumbers, Contents
  <2> QED BY <2>1, <2>2, TextureChanges
<1>2. NoTexels \in Contents
  BY DEF Contents
<1> QED BY <1>1, <1>2 DEF Carried, DrawType, TypeOK

LEMMA ResolvedType ==
  ASSUME TypeOK, NEW draw \in DrawType, NEW failed, NEW reached
  PROVE  Cached(draw, failed, reached) \in [Textures -> Contents]
BY DEF TypeOK, DrawType, Cached, Resolved

LEMMA InitTyped == Init => TypeOK
<1> SUFFICES ASSUME Init PROVE TypeOK
  OBVIOUS
<1>1. NewTexture \in TextureType
  BY TextureAssumption DEF NewTexture, TextureType, LevelNumbers, Contents
<1>2. NoTexels \in Contents
  BY DEF Contents
<1> QED BY <1>1, <1>2, TextureAssumption DEF Init, TypeOK, TextureType

\* The calls of the game.
LEMMA GameTyped ==
  ASSUME TypeOK,
         \/ \E t \in Textures, l \in LevelNumbers, v \in Texels : Update(t, l, v)
         \/ \E t \in Textures : AddDirtyRect(t)
         \/ \E t \in Textures, l \in LevelNumbers : EnsureSysmem(t, l)
         \/ \E t \in Textures, l \in 0..Levels : SetLOD(t, l)
  PROVE  TypeOK'
<1> USE DEF device, viewer
<1>1. textures \in [Textures -> TextureType]
  BY DEF TypeOK, TextureType
<1>2. 0 \in LevelNumbers /\ Zeros \in Contents /\ Texels \subseteq Contents
  BY TextureAssumption DEF LevelNumbers, Contents
<1>3. ASSUME textures' \in [Textures -> TextureType],
             disturbed' \subseteq Textures \X (1..MaxFrames),
             UNCHANGED <<frame, recorded, file, viewer>>
      PROVE  TypeOK'
  BY <1>3 DEF TypeOK, TextureType
<1>4. ASSUME NEW t \in Textures, NEW l \in LevelNumbers, NEW v \in Texels, Update(t, l, v)
      PROVE  TypeOK'
  <2>1. [MarkedDirty(textures[t]) EXCEPT !.data[l] = v] \in TextureType
    BY <1>1, <1>2, <1>4, TextureChanges DEF Update
  <2>2. textures' \in [Textures -> TextureType]
    BY <1>1, <1>4, <2>1 DEF Update
  <2> QED BY <1>3, <1>4, <2>2 DEF Update, TypeOK
<1>5. ASSUME NEW t \in Textures, AddDirtyRect(t) PROVE TypeOK'
  <2>1. MarkedDirty(textures[t]) \in TextureType
    BY <1>1, <1>2, <1>5, TextureChanges DEF AddDirtyRect
  <2>2. textures' \in [Textures -> TextureType]
    BY <1>1, <1>5, <2>1 DEF AddDirtyRect
  <2> QED BY <1>3, <1>5, <2>2 DEF AddDirtyRect, TypeOK
<1>6. ASSUME NEW t \in Textures, NEW l \in LevelNumbers, EnsureSysmem(t, l)
      PROVE  TypeOK'
  <2>1. [textures[t] EXCEPT !.data[l] = Zeros] \in TextureType
    BY <1>1, <1>2, <1>6, TextureChanges
  <2>2. textures' \in [Textures -> TextureType]
    BY <1>1, <1>6, <2>1 DEF EnsureSysmem
  <2> QED BY <1>3, <1>6, <2>2 DEF EnsureSysmem, TypeOK
<1>7. ASSUME NEW t \in Textures, NEW l \in 0..Levels, SetLOD(t, l) PROVE TypeOK'
  <2>1. l \in LevelNumbers
    BY <1>7, TextureAssumption DEF SetLOD, LevelNumbers
  <2>2. [textures[t] EXCEPT !.lod = l] \in TextureType
    BY <1>1, <1>2, <2>1, TextureChanges
  <2>3. textures' \in [Textures -> TextureType]
    BY <1>1, <1>7, <2>2 DEF SetLOD
  <2>4. /\ disturbed' = disturbed \cup {<<t, frame>>}
        /\ UNCHANGED <<frame, recorded, file, viewer>>
    BY <1>7 DEF SetLOD
  <2>5. disturbed \subseteq Textures \X (1..MaxFrames) /\ frame \in 1..MaxFrames
    BY DEF TypeOK
  <2>6. disturbed' \subseteq Textures \X (1..MaxFrames)
    BY <2>4, <2>5
  <2> QED BY <1>3, <2>3, <2>4, <2>6
<1> QED BY <1>4, <1>5, <1>6, <1>7

LEMMA DrawTyped ==
  ASSUME TypeOK, NEW bound \in SUBSET Textures, NEW kept \in BOOLEAN,
         NEW copied \in SUBSET bound, Draw(bound, copied, kept)
  PROVE  TypeOK'
<1> DEFINE draw == Carried(bound, copied)
           wanted == {t \in bound : NeedsUpload(textures[t])
                                      /\ Bound(textures[t]) # NoTexels}
<1>1. draw \in DrawType /\ frame \in 1..MaxFrames
  BY CarriedType DEF TypeOK
<1>2. LostWith(<<draw>>) \subseteq Textures \X (1..MaxFrames)
  BY <1>1, LostWithType, SingleDraw
<1>3. textures \in [Textures -> TextureType]
  BY DEF TypeOK, TextureType
<1>4. \A t \in Textures : Uploaded(textures[t]) \in TextureType
  <2>1. 0 \in LevelNumbers /\ NoTexels \in Contents /\ frame \in Nat
    BY <1>1, TextureAssumption DEF LevelNumbers, Contents
  <2> QED BY <1>3, <2>1, TextureChanges
<1>5. /\ textures' = [t \in Textures |->
                        IF t \in copied THEN Uploaded(textures[t]) ELSE textures[t]]
      /\ recorded' = IF kept THEN Append(recorded, draw) ELSE recorded
      /\ disturbed' = disturbed \cup {<<t, frame>> : t \in wanted \ copied}
                        \cup (IF kept THEN {} ELSE LostWith(<<draw>>))
      /\ UNCHANGED <<frame, file, taken, replaying, cache>>
  BY DEF Draw, viewer
<1> HIDE DEF draw
<1>6. textures' \in [Textures -> TextureType]
  BY <1>3, <1>4, <1>5
<1>7. recorded' \in Seq(DrawType)
  BY <1>1, <1>5 DEF TypeOK
<1>8. disturbed' \subseteq Textures \X (1..MaxFrames)
  <2>1. {<<t, frame>> : t \in wanted \ copied} \subseteq Textures \X (1..MaxFrames)
    BY <1>1
  <2>2. disturbed \subseteq Textures \X (1..MaxFrames)
    BY DEF TypeOK
  <2> HIDE DEF wanted
  <2> QED BY <1>2, <1>5, <2>1, <2>2
<1> QED BY <1>5, <1>6, <1>7, <1>8 DEF TypeOK, TextureType
LEMMA PresentTyped ==
  ASSUME TypeOK, NEW omitted \in SUBSET ((DOMAIN recorded) \X Textures),
         Present(omitted)
  PROVE  TypeOK'
<1> DEFINE shown == Fits(recorded)
           dropped == {<<p[2], frame>> : p \in omitted}
           unseen == IF file.frame # taken THEN LostWith(file.draws) ELSE {}
<1>1. /\ frame < MaxFrames /\ frame' = frame + 1 /\ recorded' = <<>>
      /\ file' = [frame |-> frame, draws |-> Stripped(shown, omitted)]
      /\ disturbed' = disturbed \cup dropped \cup LostWith(CutOff(recorded))
                        \cup unseen
      /\ UNCHANGED <<textures, taken, replaying, cache>>
  BY DEF Present, viewer
<1>2. recorded \in Seq(DrawType) /\ file.draws \in Seq(DrawType)
      /\ frame \in 1..MaxFrames /\ disturbed \subseteq Textures \X (1..MaxFrames)
  BY DEF TypeOK
<1>3. Stripped(shown, omitted) \in Seq(DrawType)
  BY <1>2, FitsType, StrippedType
<1>4. dropped \subseteq Textures \X (1..MaxFrames)
  BY <1>2
<1>5. LostWith(CutOff(recorded)) \subseteq Textures \X (1..MaxFrames)
  BY <1>2, FitsType, LostWithType
<1>6. unseen \subseteq Textures \X (1..MaxFrames)
  BY <1>2, LostWithType
<1>7. frame' \in 1..MaxFrames /\ frame \in 0..MaxFrames
  BY <1>1, <1>2, TextureAssumption
<1> HIDE DEF shown, dropped, unseen
<1>8. disturbed' \subseteq Textures \X (1..MaxFrames)
  BY <1>1, <1>2, <1>4, <1>5, <1>6
<1>9. file' \in [frame : 0..MaxFrames, draws : Seq(DrawType)]
  BY <1>1, <1>3, <1>7
<1>10. recorded' \in Seq(DrawType)
  BY <1>1
<1> QED BY <1>1, <1>7, <1>8, <1>9, <1>10 DEF TypeOK

LEMMA ViewerTyped ==
  ASSUME TypeOK,
         \/ \E replayed \in BOOLEAN : TakeFrame(replayed)
         \/ \E failed, reached \in SUBSET Textures : ReplayDraw(failed, reached)
         \/ SkipDraw
  PROVE  TypeOK'
<1>1. /\ file.draws \in Seq(DrawType) /\ replaying \in Seq(DrawType)
      /\ file.frame \in 0..MaxFrames
      /\ disturbed \subseteq Textures \X (1..MaxFrames)
  BY DEF TypeOK
<1>2. replaying # <<>> => /\ Head(replaying) \in DrawType
                          /\ Tail(replaying) \in Seq(DrawType)
  BY <1>1
<1>3. ASSUME UNCHANGED <<textures, frame, recorded, file>>,
             taken' \in 0..MaxFrames, replaying' \in Seq(DrawType),
             cache' \in [Textures -> Contents],
             disturbed' \subseteq Textures \X (1..MaxFrames)
      PROVE  TypeOK'
  BY <1>3 DEF TypeOK
<1>4. taken \in 0..MaxFrames /\ cache \in [Textures -> Contents]
  BY DEF TypeOK
<1>5. ASSUME NEW replayed \in BOOLEAN, TakeFrame(replayed) PROVE TypeOK'
  <2>1. LostWith(file.draws) \subseteq Textures \X (1..MaxFrames)
    BY <1>1, LostWithType
  <2>2. /\ taken' = file.frame
        /\ replaying' = IF replayed THEN file.draws ELSE <<>>
        /\ disturbed' = IF replayed THEN disturbed
                        ELSE disturbed \cup LostWith(file.draws)
        /\ UNCHANGED <<textures, frame, recorded, file, cache>>
    BY <1>5 DEF TakeFrame, device
  <2>3. <<>> \in Seq(DrawType)
    OBVIOUS
  <2>4. replaying' \in Seq(DrawType) /\ disturbed' \subseteq Textures \X (1..MaxFrames)
    BY <1>1, <2>1, <2>2, <2>3
  <2> QED BY <1>1, <1>3, <1>4, <2>2, <2>4
<1>6. ASSUME NEW failed \in SUBSET Textures, NEW reached \in SUBSET Textures,
             ReplayDraw(failed, reached)
      PROVE  TypeOK'
  <2> DEFINE draw == Head(replaying)
             lost == {<<t, draw.frame>> :
                        t \in Copies(draw) \cap (failed \cup (Textures \ reached))}
  <2>1. /\ replaying # <<>>
        /\ cache' = Cached(draw, failed, reached)
        /\ disturbed' = disturbed \cup lost
        /\ replaying' = Tail(replaying)
        /\ UNCHANGED <<textures, frame, recorded, file, taken>>
    BY <1>6 DEF ReplayDraw, device
  <2>2. draw.frame \in 1..MaxFrames /\ Copies(draw) \subseteq Textures
    BY <1>2, <2>1 DEF DrawType, Copies
  <2>3. lost \subseteq Textures \X (1..MaxFrames)
    BY <2>2
  <2>4. Cached(draw, failed, reached) \in [Textures -> Contents]
    BY <1>2, <2>1, ResolvedType
  <2> HIDE DEF lost
  <2> QED BY <1>1, <1>2, <1>3, <1>4, <2>1, <2>3, <2>4
<1>7. ASSUME SkipDraw PROVE TypeOK'
  <2>1. /\ replaying # <<>> /\ replaying' = Tail(replaying)
        /\ disturbed' = disturbed \cup LostWith(<<Head(replaying)>>)
        /\ UNCHANGED <<textures, frame, recorded, file, taken, cache>>
    BY <1>7 DEF SkipDraw, device
  <2>2. LostWith(<<Head(replaying)>>) \subseteq Textures \X (1..MaxFrames)
    BY <1>2, <2>1, LostWithType, SingleDraw
  <2> QED BY <1>1, <1>2, <1>3, <1>4, <2>1, <2>2
<1> QED BY <1>5, <1>6, <1>7

LEMMA TypeStep == TypeOK /\ [Next]_vars => TypeOK'
<1> SUFFICES ASSUME TypeOK, [Next]_vars PROVE TypeOK'
  OBVIOUS
<1>1. CASE UNCHANGED vars
  BY <1>1 DEF vars, device, viewer, TypeOK
<1>2. CASE Next
  BY <1>2, GameTyped, DrawTyped, PresentTyped, ViewerTyped DEF Next
<1> QED BY <1>1, <1>2

\* Whatever is lost, books, draws and cache keep their types: a texture never
\* has a level that it has no surface for bound (texture_SetLOD), and draws are
\* of frames that exist.
THEOREM TypeCorrect == Spec => []TypeOK
BY InitTyped, TypeStep, PTL DEF Spec
-----------------------------------------------------------------------------
\* What the steps of bridge and viewer leave of it.

LEMMA DrawFields ==
  ASSUME NEW s \in Seq(DrawType)
  PROVE  /\ Len(s) \in Nat /\ DOMAIN s = 1..Len(s)
         /\ \A i \in DOMAIN s : s[i] \in DrawType /\ s[i].frame \in Nat
<1>1. \A i \in DOMAIN s : s[i] \in DrawType
  OBVIOUS
<1>2. \A x \in DrawType : x.frame \in Nat
  BY TextureAssumption DEF DrawType
<1> QED BY <1>1, <1>2

LEMMA AllRemain ==
  ASSUME NEW p \in Seq(DrawType), NEW q \in Seq(DrawType), NEW m, NEW b, NEW d,
         NEW c, Remains(m, p, q, d), b \subseteq d, AllGiven(p, b, c)
  PROVE  AllGiven(q, d, c)
<1> SUFFICES ASSUME NEW k \in DOMAIN q, NEW t \in Textures,
                    t \in q[k].bound, q[k].want[t] # NoTexels,
                    Quiet(t, Recent(q[k].frame), d)
             PROVE  Given(q, k, t, q[k].want[t], Recent(q[k].frame), c[t])
  BY DEF AllGiven
<1> DEFINE i == m[k]
           fs == Recent(q[k].frame)
           v == q[k].want[t]
<1>1. /\ DOMAIN p = 1..Len(p) /\ DOMAIN q = 1..Len(q)
      /\ Len(p) \in Nat /\ Len(q) \in Nat
  BY DrawFields
<1>2. /\ i \in DOMAIN p /\ i \in Nat /\ k \in Nat
      /\ q[k].frame = p[i].frame /\ q[k].bound = p[i].bound
      /\ q[k].want = p[i].want
  BY <1>1 DEF Remains
<1>3. Quiet(t, fs, b)
  BY DEF Quiet
<1>4. Given(p, i, t, v, fs, c[t])
  BY <1>2, <1>3 DEF AllGiven
<1>5. ASSUME NEW l \in DOMAIN q PROVE l <= k <=> m[l] <= i
  <2>1. m[l] \in Nat /\ l \in Nat
    BY <1>1 DEF Remains
  <2>2. (l < k => m[l] < m[k]) /\ (k < l => m[k] < m[l])
    BY DEF Remains
  <2> QED BY <1>2, <2>1, <2>2
<1>6. v # NoTexels /\ Quiet(t, fs, d)
  OBVIOUS
<1> HIDE DEF i, fs, v
<1>7. Given(q, k, t, v, fs, c[t])
  BY <1>1, <1>2, <1>4, <1>5, <1>6, StillGiven
<1> QED BY <1>7 DEF v, fs

LEMMA BookRemains ==
  ASSUME NEW p \in Seq(DrawType), NEW q \in Seq(DrawType), NEW m, NEW b, NEW d,
         NEW c, Remains(m, p, q, d), b \subseteq d,
         NEW x \in TextureType, NEW t \in Textures, NEW f \in Nat, NEW g \in Nat,
         f <= g, BookHolds(x, t, f, p, b, c)
  PROVE  BookHolds(x, t, g, q, d, c)
<1> DEFINE fs == x.lastFrame..f
           gs == x.lastFrame..g
           v == Bound(x)
<1>1. /\ DOMAIN p = 1..Len(p) /\ DOMAIN q = 1..Len(q)
      /\ Len(p) \in Nat /\ Len(q) \in Nat
  BY DrawFields
<1>2. fs \subseteq gs /\ x.lastFrame \in Nat
  BY DEF TextureType
<1>3. ASSUME Booked(x), Quiet(t, gs, d)
      PROVE  v # NoTexels /\ Given(q, Len(q), t, v, gs, c[t])
  <2>1. Quiet(t, fs, b) /\ Quiet(t, fs, d)
    BY <1>2, <1>3 DEF Quiet
  <2>2. v # NoTexels /\ Given(p, Len(p), t, v, fs, c[t])
    BY <1>3, <2>1 DEF BookHolds
  <2>3. \A l \in DOMAIN q : l <= Len(q) <=> m[l] <= Len(p)
    BY <1>1 DEF Remains
  <2> HIDE DEF fs, gs, v
  <2>4. Given(q, Len(q), t, v, fs, c[t])
    BY <1>1, <2>1, <2>2, <2>3, StillGiven
  <2>5. Given(q, Len(q), t, v, gs, c[t])
    BY <1>2, <2>4, GivenMore
  <2> QED BY <2>2, <2>5
<1>4. x.lastGeneration <= x.generation /\ x.lastFrame <= g
  BY <1>2 DEF BookHolds
<1> QED BY <1>3, <1>4 DEF BookHolds

\* The first draw is replayed or left out: each texture has its copy in the
\* cache, unless that is known as lost.
FirstTaken(p, c, e, d) ==
  \A t \in Textures :
    /\ p[1].copy[t] = NoTexels => e[t] = c[t]
    /\ p[1].copy[t] # NoTexels /\ <<t, p[1].frame>> \notin d
         => e[t] = p[1].copy[t]

LEMMA GivenAfter ==
  ASSUME NEW p \in Seq(DrawType), p # <<>>, NEW d, NEW c, NEW e,
         FirstTaken(p, c, e, d), NEW t \in Textures, NEW v, NEW fs,
         v # NoTexels, Quiet(t, fs, d),
         NEW n \in 0..(Len(p) - 1), Given(p, n + 1, t, v, fs, c[t])
  PROVE  Given(Tail(p), n, t, v, fs, e[t])
<1> DEFINE a == Len(p) - 1
           q == Tail(p)
<1>1. /\ a \in Nat /\ DOMAIN p = 1..(a + 1) /\ DOMAIN q = 1..a /\ n \in 0..a
      /\ \A k \in 1..a : q[k] = p[k + 1]
  OBVIOUS
<1>2. /\ p[1].copy[t] = NoTexels => e[t] = c[t]
      /\ p[1].copy[t] # NoTexels /\ <<t, p[1].frame>> \notin d
           => e[t] = p[1].copy[t]
  BY DEF FirstTaken
<1> HIDE DEF a, q
<1>3. Given(q, n, t, v, fs, e[t])
  BY <1>1, <1>2, GivenAfterFirst, ZenonT(60)
<1> QED BY <1>3 DEF q

LEMMA AllAfterFirst ==
  ASSUME NEW p \in Seq(DrawType), p # <<>>, NEW b, NEW d, NEW c, NEW e,
         b \subseteq d, FirstTaken(p, c, e, d), AllGiven(p, b, c)
  PROVE  AllGiven(Tail(p), d, e)
<1> DEFINE q == Tail(p)
<1> SUFFICES ASSUME NEW k \in DOMAIN q, NEW t \in Textures,
                    t \in q[k].bound, q[k].want[t] # NoTexels,
                    Quiet(t, Recent(q[k].frame), d)
             PROVE  Given(q, k, t, q[k].want[t], Recent(q[k].frame), e[t])
  BY DEF AllGiven
<1>1. k \in 0..(Len(p) - 1) /\ k + 1 \in DOMAIN p /\ q[k] = p[k + 1]
  OBVIOUS
<1>2. Quiet(t, Recent(q[k].frame), b)
  BY DEF Quiet
<1> HIDE DEF q
<1>3. Given(p, k + 1, t, q[k].want[t], Recent(q[k].frame), c[t])
  BY <1>1, <1>2 DEF AllGiven
<1>4. Given(Tail(p), k, t, q[k].want[t], Recent(q[k].frame), e[t])
  BY <1>1, <1>3, GivenAfter
<1> QED BY <1>4 DEF q

LEMMA BookAfterFirst ==
  ASSUME NEW p \in Seq(DrawType), p # <<>>, NEW b, NEW d, NEW c, NEW e,
         b \subseteq d, FirstTaken(p, c, e, d),
         NEW x \in TextureType, NEW t \in Textures, NEW f \in Nat,
         BookHolds(x, t, f, p, b, c)
  PROVE  BookHolds(x, t, f, Tail(p), d, e)
<1> DEFINE q == Tail(p)
           fs == x.lastFrame..f
           v == Bound(x)
<1>1. Len(q) \in 0..(Len(p) - 1) /\ Len(q) + 1 = Len(p)
  OBVIOUS
<1>2. ASSUME Booked(x), Quiet(t, fs, d)
      PROVE  v # NoTexels /\ Given(q, Len(q), t, v, fs, e[t])
  <2>1. Quiet(t, fs, b)
    BY <1>2 DEF Quiet
  <2>2. v # NoTexels /\ Given(p, Len(p), t, v, fs, c[t])
    BY <1>2, <2>1 DEF BookHolds
  <2> HIDE DEF q, fs, v
  <2>3. Given(Tail(p), Len(q), t, v, fs, e[t])
    BY <1>1, <1>2, <2>2, GivenAfter
  <2> QED BY <2>2, <2>3 DEF q
<1> HIDE DEF q, fs, v
<1> QED BY <1>2 DEF BookHolds, q, fs, v
\* The draws u are gone, and s is what remains of r behind them.
LEMMA RemainsBehind ==
  ASSUME NEW a \in Seq(DrawType), NEW u \in Seq(DrawType), NEW r \in Seq(DrawType),
         NEW s \in Seq(DrawType), NEW d,
         Len(s) <= Len(r),
         \A i \in DOMAIN s :
           /\ s[i].frame = r[i].frame /\ s[i].bound = r[i].bound
           /\ s[i].want = r[i].want
           /\ \A t \in Textures : s[i].copy[t] \in {NoTexels, r[i].copy[t]},
         \A i \in DOMAIN u, t \in Textures :
           u[i].copy[t] # NoTexels => <<t, u[i].frame>> \in d,
         \A i \in DOMAIN r, t \in Textures :
           r[i].copy[t] # NoTexels /\ <<t, r[i].frame>> \notin d
             => i \in DOMAIN s /\ s[i].copy[t] = r[i].copy[t]
  PROVE  \E m : Remains(m, (a \o u) \o r, a \o s, d)
<1> DEFINE p == (a \o u) \o r
           q == a \o s
           la == Len(a)
           lu == Len(u)
           m == [k \in DOMAIN q |-> IF k <= la THEN k ELSE k + lu]
<1>1. la \in Nat /\ lu \in Nat /\ Len(r) \in Nat /\ Len(s) \in Nat
  OBVIOUS
<1>2. /\ DOMAIN p = 1..(la + lu + Len(r)) /\ DOMAIN q = 1..(la + Len(s))
      /\ DOMAIN s = 1..Len(s) /\ DOMAIN r = 1..Len(r) /\ DOMAIN u = 1..lu
  OBVIOUS
<1>3. \A k \in 1..la : p[k] = a[k] /\ q[k] = a[k]
  OBVIOUS
<1>4. \A k \in 1..lu : p[la + k] = u[k]
  OBVIOUS
<1>5. \A k \in 1..Len(r) : p[la + lu + k] = r[k]
  OBVIOUS
<1>6. \A k \in 1..Len(s) : q[la + k] = s[k]
  OBVIOUS
<1> HIDE DEF p, q, la, lu
<1>7. \A k \in DOMAIN q : m[k] = IF k <= la THEN k ELSE k + lu
  OBVIOUS
<1>8. m \in [DOMAIN q -> DOMAIN p]
  BY <1>1, <1>2
<1> HIDE DEF m
<1>9. ASSUME NEW k \in DOMAIN q, NEW l \in DOMAIN q, k < l
      PROVE  m[k] < m[l]
  BY <1>1, <1>2, <1>7, <1>9
<1>10. ASSUME NEW k \in DOMAIN q
       PROVE  /\ q[k].frame = p[m[k]].frame
              /\ q[k].bound = p[m[k]].bound
              /\ q[k].want = p[m[k]].want
              /\ \A t \in Textures : q[k].copy[t] \in {NoTexels, p[m[k]].copy[t]}
  <2>1. CASE k <= la
    <3>1. q[k] = a[k] /\ p[m[k]] = a[k]
      BY <1>1, <1>2, <1>3, <1>7, <2>1
    <3> QED BY <3>1
  <2>2. CASE k > la
    <3> DEFINE i == k - la
    <3>1. /\ i \in 1..Len(s) /\ i \in 1..Len(r)
          /\ k = la + i /\ m[k] = la + lu + i
      BY <1>1, <1>2, <1>7, <2>2
    <3> HIDE DEF i
    <3>2. q[k] = s[i] /\ p[m[k]] = r[i]
      BY <1>5, <1>6, <3>1
    <3>3. i \in DOMAIN s
      BY <1>2, <3>1
    <3>4. /\ s[i].frame = r[i].frame /\ s[i].bound = r[i].bound
          /\ s[i].want = r[i].want
          /\ \A t \in Textures : s[i].copy[t] \in {NoTexels, r[i].copy[t]}
      BY <3>3, Zenon
    <3> QED BY <3>2, <3>4
  <2>3. k <= la \/ k > la
    BY <1>1, <1>2
  <2> QED BY <2>1, <2>2, <2>3, Zenon
<1>11. ASSUME NEW i \in DOMAIN p, NEW t \in Textures, p[i].copy[t] # NoTexels,
              <<t, p[i].frame>> \notin d
       PROVE  \E k \in DOMAIN q : m[k] = i /\ q[k].copy[t] = p[i].copy[t]
  <2>1. CASE i <= la
    <3>1. i \in DOMAIN q /\ m[i] = i /\ q[i] = p[i]
      BY <1>1, <1>2, <1>3, <1>7, <2>1
    <3> QED BY <3>1
  <2>2. CASE la < i /\ i <= la + lu
    <3> DEFINE j == i - la
    <3>1. j \in 1..lu /\ i = la + j
      BY <1>1, <1>2, <2>2
    <3> HIDE DEF j
    <3>2. p[i] = u[j] /\ j \in DOMAIN u
      BY <1>2, <1>4, <3>1
    <3>3. u[j].copy[t] # NoTexels /\ <<t, u[j].frame>> \notin d
      BY <1>11, <3>2
    <3> QED BY <3>2, <3>3, Zenon
  <2>3. CASE la + lu < i
    <3> DEFINE j == i - (la + lu)
    <3>1. j \in 1..Len(r) /\ i = la + lu + j
      BY <1>1, <1>2, <2>3
    <3> HIDE DEF j
    <3>2. p[i] = r[j] /\ j \in DOMAIN r
      BY <1>2, <1>5, <3>1
    <3>3. j \in 1..Len(s) /\ s[j].copy[t] = r[j].copy[t]
      <4>1. r[j].copy[t] # NoTexels /\ <<t, r[j].frame>> \notin d
        BY <1>11, <3>2
      <4>2. j \in DOMAIN s /\ s[j].copy[t] = r[j].copy[t]
        BY <3>2, <4>1, Zenon
      <4> QED BY <1>2, <4>2
    <3>4. /\ la + j \in DOMAIN q /\ ~(la + j <= la)
          /\ (la + j) + lu = la + lu + j
      BY <1>1, <1>2, <3>3
    <3>5. m[la + j] = i /\ q[la + j] = s[j]
      BY <1>6, <1>7, <3>1, <3>3, <3>4
    <3> QED BY <3>2, <3>3, <3>4, <3>5
  <2>4. i <= la \/ (la < i /\ i <= la + lu) \/ la + lu < i
    BY <1>1, <1>2
  <2> QED BY <2>1, <2>2, <2>3, <2>4, Zenon
<1>12. Remains(m, p, q, d)
  BY <1>8, <1>9, <1>10, <1>11 DEF Remains
<1>13. \E f : Remains(f, p, q, d)
  BY <1>12
<1> QED BY <1>13 DEF p, q

LEMMA WayType ==
  /\ TypeOK => /\ replaying \in Seq(DrawType) /\ Unseen \in Seq(DrawType)
               /\ recorded \in Seq(DrawType) /\ file.draws \in Seq(DrawType)
               /\ OnTheWay \in Seq(DrawType)
  /\ TypeOK' => OnTheWay' \in Seq(DrawType)
<1>1. ASSUME NEW a \in Seq(DrawType), NEW b \in Seq(DrawType), NEW c \in Seq(DrawType)
      PROVE  (a \o b) \o c \in Seq(DrawType)
  OBVIOUS
<1>2. ASSUME TypeOK
      PROVE  /\ replaying \in Seq(DrawType) /\ file.draws \in Seq(DrawType)
             /\ recorded \in Seq(DrawType) /\ Unseen \in Seq(DrawType)
  <2>1. replaying \in Seq(DrawType) /\ recorded \in Seq(DrawType)
    BY <1>2 DEF TypeOK
  <2>2. file.draws \in Seq(DrawType)
    BY <1>2 DEF TypeOK
  <2>3. Unseen = file.draws \/ Unseen = <<>>
    BY Zenon DEF Unseen
  <2>4. <<>> \in Seq(DrawType)
    OBVIOUS
  <2> QED BY <2>1, <2>2, <2>3, <2>4, Zenon
<1>3. ASSUME TypeOK'
      PROVE  /\ replaying' \in Seq(DrawType) /\ file.draws' \in Seq(DrawType)
             /\ recorded' \in Seq(DrawType) /\ Unseen' \in Seq(DrawType)
  <2>1. replaying' \in Seq(DrawType) /\ recorded' \in Seq(DrawType)
    BY <1>3 DEF TypeOK
  <2>2. file.draws' \in Seq(DrawType)
    BY <1>3 DEF TypeOK
  <2>3. Unseen' = file.draws' \/ Unseen' = <<>>
    BY Zenon DEF Unseen
  <2>4. <<>> \in Seq(DrawType)
    OBVIOUS
  <2> QED BY <2>1, <2>2, <2>3, <2>4, Zenon
<1> QED BY <1>1, <1>2, <1>3 DEF OnTheWay

LEMMA BookTypes ==
  /\ TypeOK => /\ \A t \in Textures : textures[t] \in TextureType
               /\ frame \in Nat /\ frame \in 1..MaxFrames
  /\ TypeOK' => /\ \A t \in Textures : textures'[t] \in TextureType
                /\ frame' \in Nat
<1>1. TypeOK => textures \in [Textures -> TextureType] /\ frame \in 1..MaxFrames
  BY DEF TypeOK, TextureType
<1>2. TypeOK' => textures' \in [Textures -> TextureType] /\ frame' \in 1..MaxFrames
  BY DEF TypeOK, TextureType
<1>3. \A f \in 1..MaxFrames : f \in Nat
  BY TextureAssumption
<1> QED BY <1>1, <1>2, <1>3

\* A step after which draws and copies are gone, all of which it reports.
LEMMA LosingStep ==
  ASSUME IInv, TypeOK', NEW m, Remains(m, OnTheWay, OnTheWay', disturbed'),
         disturbed \subseteq disturbed', UNCHANGED <<textures, cache>>,
         frame <= frame'
  PROVE  DrawsGiven' /\ BooksHold'
<1>1. OnTheWay \in Seq(DrawType) /\ OnTheWay' \in Seq(DrawType)
  BY WayType DEF IInv
<1>2. DrawsGiven'
  BY <1>1, AllRemain DEF IInv, DrawsGiven
<1>3. BooksHold'
  <2> SUFFICES ASSUME NEW t \in Textures
               PROVE  BookHolds(textures[t], t, frame', OnTheWay', disturbed', cache)
    BY DEF BooksHold
  <2>1. textures[t] \in TextureType /\ frame \in Nat /\ frame' \in Nat
    BY BookTypes DEF IInv
  <2>2. BookHolds(textures[t], t, frame, OnTheWay, disturbed, cache)
    BY DEF IInv, BooksHold
  <2> QED BY <1>1, <2>1, <2>2, BookRemains
<1> QED BY <1>2, <1>3
-----------------------------------------------------------------------------
\* The steps.

\* A step of the game: the draws are where they were, and the books of a texture
\* stay as they are unless it is not booked any more or known as disturbed.
LEMMA GameStep ==
  ASSUME IInv, TypeOK',
         \/ \E t \in Textures, l \in LevelNumbers, v \in Texels : Update(t, l, v)
         \/ \E t \in Textures : AddDirtyRect(t)
         \/ \E t \in Textures, l \in LevelNumbers : EnsureSysmem(t, l)
         \/ \E t \in Textures, l \in 0..Levels : SetLOD(t, l)
  PROVE  IInv'
<1> USE DEF viewer
<1>1. /\ UNCHANGED <<frame, recorded, file, taken, replaying, cache>>
      /\ disturbed \subseteq disturbed'
      /\ OnTheWay' = OnTheWay
  <2>1. UNCHANGED <<frame, recorded, file, taken, replaying, cache>>
    BY DEF Update, AddDirtyRect, EnsureSysmem, SetLOD
  <2>2. disturbed \subseteq disturbed'
    BY DEF Update, AddDirtyRect, EnsureSysmem, SetLOD
  <2> QED BY <2>1, <2>2 DEF OnTheWay, Unseen
<1>2. FramesInOrder'
  BY <1>1 DEF IInv, FramesInOrder
<1>3. DrawsGiven'
  <2>1. \A t, fs : Quiet(t, fs, disturbed') => Quiet(t, fs, disturbed)
    BY <1>1 DEF Quiet
  <2> QED BY <1>1, <2>1 DEF IInv, DrawsGiven, AllGiven
<1>4. ASSUME NEW t \in Textures
      PROVE  LET x == textures[t]
                 y == textures'[t]
             IN  \/ /\ y.lastGeneration = x.lastGeneration
                    /\ y.generation = x.generation
                    /\ y.lastFrame = x.lastFrame
                    /\ \/ Bound(x) # NoTexels => Bound(y) = Bound(x)
                       \/ <<t, frame>> \in disturbed'
                 \/ /\ y.lastGeneration = x.lastGeneration
                    /\ y.generation = x.generation + 1
                    /\ y.lastFrame = x.lastFrame
  <2> DEFINE x == textures[t]
             y == textures'[t]
  <2>1. DOMAIN textures = Textures /\ \A u \in Textures : textures[u] \in TextureType
    BY BookTypes DEF IInv, TypeOK
  <2>2. ASSUME NEW u \in Textures, NEW l \in LevelNumbers, NEW v \in Texels,
               Update(u, l, v)
        PROVE  y = x \/ /\ y.lastGeneration = x.lastGeneration
                        /\ y.generation = x.generation + 1
                        /\ y.lastFrame = x.lastFrame
    <3>1. u # t => y = x
      BY <2>1, <2>2 DEF Update
    <3>2. u = t => y = [MarkedDirty(x) EXCEPT !.data[l] = v]
      BY <2>1, <2>2 DEF Update
    <3>3. LET z == [MarkedDirty(x) EXCEPT !.data[l] = v]
          IN  /\ z.lastGeneration = x.lastGeneration
              /\ z.generation = x.generation + 1
              /\ z.lastFrame = x.lastFrame
      BY <2>1 DEF MarkedDirty, TextureType
    <3> HIDE DEF x, y
    <3> QED BY <3>1, <3>2, <3>3
  <2>3. ASSUME NEW u \in Textures, AddDirtyRect(u)
        PROVE  y = x \/ /\ y.lastGeneration = x.lastGeneration
                        /\ y.generation = x.generation + 1
                        /\ y.lastFrame = x.lastFrame
    BY <2>1, <2>3 DEF AddDirtyRect, MarkedDirty, TextureType
  <2>4. ASSUME NEW u \in Textures, NEW l \in LevelNumbers, EnsureSysmem(u, l)
        PROVE  y = x \/ /\ y.lastGeneration = x.lastGeneration
                        /\ y.generation = x.generation
                        /\ y.lastFrame = x.lastFrame
                        /\ Bound(x) # NoTexels => Bound(y) = Bound(x)
    <3>1. CASE u # t
      BY <2>1, <2>4, <3>1 DEF EnsureSysmem
    <3>2. CASE u = t
      <4>1. y = [x EXCEPT !.data[l] = Zeros] /\ x.data[l] = NoTexels
        BY <2>1, <2>4, <3>2 DEF EnsureSysmem
      <4>2. /\ y.lastGeneration = x.lastGeneration /\ y.generation = x.generation
            /\ y.lastFrame = x.lastFrame /\ y.lod = x.lod
            /\ x.lod # l => y.data[x.lod] = x.data[x.lod]
        BY <2>1, <4>1 DEF TextureType
      <4> QED BY <4>1, <4>2 DEF Bound
    <3> QED BY <3>1, <3>2
  <2>5. ASSUME NEW u \in Textures, NEW l \in 0..Levels, SetLOD(u, l)
        PROVE  y = x \/ /\ y.lastGeneration = x.lastGeneration
                        /\ y.generation = x.generation
                        /\ y.lastFrame = x.lastFrame
                        /\ <<t, frame>> \in disturbed'
    BY <2>1, <2>5 DEF SetLOD, TextureType
  <2> HIDE DEF x, y
  <2>6. \/ y = x
        \/ /\ y.lastGeneration = x.lastGeneration
           /\ y.generation = x.generation
           /\ y.lastFrame = x.lastFrame
           /\ \/ Bound(x) # NoTexels => Bound(y) = Bound(x)
              \/ <<t, frame>> \in disturbed'
        \/ /\ y.lastGeneration = x.lastGeneration
           /\ y.generation = x.generation + 1
           /\ y.lastFrame = x.lastFrame
    BY <2>2, <2>3, <2>4, <2>5
  <2> QED BY <2>6 DEF x, y
<1>5. ASSUME NEW t \in Textures
      PROVE  BookHolds(textures'[t], t, frame, OnTheWay, disturbed', cache)
  <2> DEFINE x == textures[t]
             y == textures'[t]
             fs == x.lastFrame..frame
  <2>1. /\ x \in TextureType /\ frame \in Nat
        /\ BookHolds(x, t, frame, OnTheWay, disturbed, cache)
    BY BookTypes DEF IInv, BooksHold
  <2>2. /\ x.lastGeneration \in Nat /\ x.generation \in Nat /\ x.lastFrame \in Nat
        /\ x.lastGeneration <= x.generation /\ x.lastFrame <= frame
    BY <2>1, TextureAssumption DEF BookHolds, TextureType
  <2>3. frame \in fs
    BY <2>1, <2>2
  <2> HIDE DEF fs
  <2>4. CASE /\ y.lastGeneration = x.lastGeneration
             /\ y.generation = x.generation + 1
             /\ y.lastFrame = x.lastFrame
    <3>1. ~Booked(y) /\ y.lastGeneration <= y.generation
      BY <2>2, <2>4 DEF Booked
    <3> QED BY <2>2, <2>4, <3>1 DEF BookHolds
  <2>5. CASE /\ y.lastGeneration = x.lastGeneration
             /\ y.generation = x.generation
             /\ y.lastFrame = x.lastFrame
             /\ \/ Bound(x) # NoTexels => Bound(y) = Bound(x)
                \/ <<t, frame>> \in disturbed'
    <3>1. Booked(y) <=> Booked(x)
      BY <2>5 DEF Booked
    <3>2. ASSUME Booked(y), Quiet(t, fs, disturbed')
          PROVE  /\ Bound(y) # NoTexels
                 /\ Given(OnTheWay, Len(OnTheWay), t, Bound(y), fs, cache[t])
      <4>1. Quiet(t, fs, disturbed) /\ <<t, frame>> \notin disturbed'
        BY <1>1, <2>3, <3>2 DEF Quiet
      <4>2. /\ Bound(x) # NoTexels
            /\ Given(OnTheWay, Len(OnTheWay), t, Bound(x), fs, cache[t])
        BY <2>1, <3>1, <3>2, <4>1 DEF BookHolds, fs
      <4> QED BY <2>5, <4>1, <4>2
    <3> QED BY <2>2, <2>5, <3>2 DEF BookHolds, fs
  <2> HIDE DEF x, y
  <2> QED BY <1>4, <2>4, <2>5 DEF x, y
<1>6. BooksHold'
  BY <1>1, <1>5 DEF BooksHold
<1> QED BY <1>2, <1>3, <1>6 DEF IInv
LEMMA FrameIdFirst ==
  ASSUME FirstFrames, TypeOK, FrameId # 0
  PROVE  FrameId = frame
<1>1. frame \in Nat /\ frame <= FrameIds /\ FrameIds \in Nat \ {0}
  BY TextureAssumption DEF TypeOK, FirstFrames
<1>2. CASE frame = FrameIds
  BY <1>1, <1>2 DEF FrameId
<1>3. CASE frame < FrameIds
  BY <1>1, <1>3 DEF FrameId
<1> QED BY <1>1, <1>2, <1>3

LEMMA RecentFrames ==
  ASSUME NEW f \in Nat, NEW l \in Nat, f - l < RefreshInterval
  PROVE  l..f \subseteq Recent(f)
BY TextureAssumption DEF Recent

\* A draw that is recorded finds what the game has: it brings it, or the books
\* say that what was brought last has not changed and is recent.
LEMMA DrawStep ==
  ASSUME FirstFrames, IInv, TypeOK', NEW bound \in SUBSET Textures,
         NEW kept \in BOOLEAN, NEW copied \in SUBSET bound,
         Draw(bound, copied, kept)
  PROVE  IInv'
<1> DEFINE draw == Carried(bound, copied)
           p == OnTheWay
           wanted == {t \in bound : NeedsUpload(textures[t])
                                      /\ Bound(textures[t]) # NoTexels}
<1>1. /\ copied \subseteq wanted
      /\ textures' = [t \in Textures |->
                        IF t \in copied THEN Uploaded(textures[t]) ELSE textures[t]]
      /\ recorded' = IF kept THEN Append(recorded, draw) ELSE recorded
      /\ disturbed' = disturbed \cup {<<t, frame>> : t \in wanted \ copied}
                        \cup (IF kept THEN {} ELSE LostWith(<<draw>>))
      /\ UNCHANGED <<frame, file, taken, replaying, cache>>
  BY DEF Draw, viewer
<1>2. /\ p \in Seq(DrawType) /\ replaying \in Seq(DrawType)
      /\ Unseen \in Seq(DrawType) /\ recorded \in Seq(DrawType)
      /\ frame \in Nat
  BY WayType, BookTypes DEF IInv
<1>3. /\ draw.frame = frame /\ draw.bound = bound
      /\ \A t \in Textures : draw.want[t] =
           IF t \in bound THEN Bound(textures[t]) ELSE NoTexels
      /\ \A t \in Textures : draw.copy[t] =
           IF t \in copied THEN Bound(textures[t]) ELSE NoTexels
  BY DEF Carried
<1>4. OnTheWay' = IF kept THEN Append(p, draw) ELSE p
  <2>1. Unseen' = Unseen
    BY <1>1 DEF Unseen
  <2>2. ASSUME NEW a \in Seq(DrawType), NEW r \in Seq(DrawType), NEW x
        PROVE  a \o Append(r, x) = Append(a \o r, x)
    OBVIOUS
  <2>3. replaying \o Unseen \in Seq(DrawType)
    BY <1>2
  <2> HIDE DEF draw
  <2> QED BY <1>1, <1>2, <2>1, <2>2, <2>3 DEF OnTheWay
<1>5. /\ disturbed \subseteq disturbed'
      /\ \A t \in wanted \ copied : <<t, frame>> \in disturbed'
      /\ ~kept => \A t \in copied : <<t, frame>> \in disturbed'
  <2>1. ASSUME NEW t \in copied, ~kept
        PROVE  <<t, frame>> \in disturbed'
    <3>1. t \in Textures /\ draw.copy[t] # NoTexels /\ draw.frame = frame
      BY <1>1, <1>3
    <3>2. 1 \in DOMAIN <<draw>> /\ <<draw>>[1] = draw
      OBVIOUS
    <3> HIDE DEF draw, wanted
    <3>3. <<t, <<draw>>[1].frame>> \in LostWith(<<draw>>)
      BY <3>1, <3>2, LostCopies
    <3> QED BY <1>1, <2>1, <3>1, <3>2, <3>3
  <2> HIDE DEF wanted, draw
  <2> QED BY <1>1, <2>1
<1>6. /\ Len(p) \in Nat /\ DOMAIN p = 1..Len(p)
      /\ LET q == Append(p, draw)
         IN  /\ Len(q) = Len(p) + 1 /\ DOMAIN q = 1..(Len(p) + 1)
             /\ \A k \in 1..Len(p) : q[k] = p[k]
             /\ q[Len(p) + 1] = draw
  BY <1>2
<1>7. FramesInOrder'
  <2>1. \A i \in DOMAIN recorded' : recorded'[i].frame = frame
    BY <1>1, <1>2, <1>3 DEF IInv, FramesInOrder
  <2> QED BY <1>1, <2>1 DEF IInv, FramesInOrder
<1>8. \A t, fs : Quiet(t, fs, disturbed') => Quiet(t, fs, disturbed)
  BY <1>5 DEF Quiet
<1> DEFINE q == Append(p, draw)
<1>9. ASSUME kept, NEW t \in Textures, t \in bound, Bound(textures[t]) # NoTexels,
             Quiet(t, Recent(frame), disturbed')
      PROVE  Given(q, Len(p) + 1, t, Bound(textures[t]), Recent(frame), cache[t])
  <2> DEFINE x == textures[t]
             v == Bound(x)
  <2>1. frame \in Recent(frame)
    BY <1>2, TextureAssumption DEF Recent
  <2>2. CASE t \in copied
    <3>1. q[Len(p) + 1].copy[t] = v /\ q[Len(p) + 1].frame \in Recent(frame)
      BY <1>3, <1>6, <2>1, <2>2
    <3> HIDE DEF q, v, p
    <3>2. Given(q, Len(p) + 1, t, v, Recent(frame), cache[t])
      BY <1>6, <3>1, GivenLast DEF q
    <3> QED BY <3>2 DEF v
  <2>3. CASE t \notin copied
    <3>1. t \notin wanted
      BY <1>5, <1>9, <2>1, <2>3 DEF Quiet
    <3>2. ~NeedsUpload(x)
      BY <1>9, <3>1
    <3>3. /\ x \in TextureType /\ x.lastFrame \in Nat
          /\ BookHolds(x, t, frame, p, disturbed, cache)
      BY BookTypes DEF IInv, BooksHold, TextureType
    <3>4. FrameId \in Nat
      BY <1>2, FrameIdType, TextureAssumption
    <3>5. /\ Booked(x) /\ x.lastFrame <= FrameId
          /\ FrameId - x.lastFrame < RefreshInterval
      BY <3>2, <3>3, <3>4, TextureAssumption DEF NeedsUpload, Booked
    <3>6. FrameId = frame
      BY <3>3, <3>4, <3>5, FrameIdFirst DEF Booked, IInv
    <3>7. x.lastFrame..frame \subseteq Recent(frame)
      BY <1>2, <3>3, <3>5, <3>6, RecentFrames
    <3>8. Quiet(t, x.lastFrame..frame, disturbed)
      BY <1>8, <1>9, <3>7 DEF Quiet
    <3> HIDE DEF x, p
    <3>9. v # NoTexels /\ Given(p, Len(p), t, v, x.lastFrame..frame, cache[t])
      BY <3>3, <3>5, <3>8 DEF BookHolds
    <3> HIDE DEF v
    <3>10. Given(p, Len(p), t, v, Recent(frame), cache[t])
      BY <3>7, <3>9, GivenMore
    <3>11. q[Len(p) + 1].copy[t] = NoTexels /\ Len(p) \in 0..Len(p)
      BY <1>3, <1>6, <2>3 DEF p
    <3> HIDE DEF q
    <3>12. Given(q, Len(p) + 1, t, v, Recent(frame), cache[t])
      BY <1>6, <3>10, <3>11, GivenBefore DEF q
    <3> QED BY <3>12 DEF v, x
  <2> QED BY <2>2, <2>3
<1>10. DrawsGiven'
  <2>1. CASE ~kept
    BY <1>1, <1>4, <1>8, <2>1 DEF IInv, DrawsGiven, AllGiven
  <2>2. CASE kept
    <3>1. ASSUME NEW i \in DOMAIN q, NEW t \in Textures, t \in q[i].bound,
                 q[i].want[t] # NoTexels,
                 Quiet(t, Recent(q[i].frame), disturbed')
          PROVE  Given(q, i, t, q[i].want[t], Recent(q[i].frame), cache[t])
      <4>1. CASE i \in DOMAIN p
        <5>1. q[i] = p[i] /\ i \in 0..Len(p)
          BY <1>6, <4>1
        <5>2. Quiet(t, Recent(p[i].frame), disturbed)
          BY <1>8, <3>1, <5>1
        <5>3. Given(p, i, t, p[i].want[t], Recent(p[i].frame), cache[t])
          BY <3>1, <4>1, <5>1, <5>2 DEF IInv, DrawsGiven, AllGiven
        <5> HIDE DEF p, q
        <5> QED BY <1>6, <5>1, <5>3, GivenBefore DEF q
      <4>2. CASE i = Len(p) + 1
        BY <1>3, <1>6, <1>9, <2>2, <3>1, <4>2
      <4> QED BY <1>6, <4>1, <4>2
    <3>2. OnTheWay' = q /\ cache' = cache
      BY <1>1, <1>4, <2>2
    <3> HIDE DEF q
    <3> QED BY <3>1, <3>2 DEF DrawsGiven, AllGiven
  <2> QED BY <2>1, <2>2
<1>11. ASSUME NEW t \in Textures
       PROVE  BookHolds(textures'[t], t, frame, OnTheWay', disturbed', cache)
  <2> DEFINE x == textures[t]
  <2>1. /\ x \in TextureType /\ x.lastFrame \in Nat
        /\ BookHolds(x, t, frame, p, disturbed, cache)
    BY BookTypes DEF IInv, BooksHold, TextureType
  <2>2. CASE t \in copied
    <3> DEFINE y == Uploaded(x)
    <3>1. /\ y.lastGeneration = x.generation /\ y.generation = x.generation
          /\ y.lastFrame = FrameId /\ y.lod = x.lod /\ y.data = x.data
      BY <2>1 DEF Uploaded, TextureType
    <3>2. textures'[t] = y
      BY <1>1, <2>2
    <3>3. Bound(y) = Bound(x) /\ Bound(x) # NoTexels
      BY <1>1, <2>2, <3>1 DEF Bound
    <3>4. FrameId \in Nat /\ FrameId <= frame /\ x.generation \in Nat
      <4>1. x.generation \in Nat
        BY <2>1, TextureAssumption DEF TextureType
      <4>2. FrameId \in Nat /\ FrameId <= frame
        BY <1>2, FrameIdType, FrameIdFirst DEF IInv
      <4> QED BY <4>1, <4>2
    <3>5. ASSUME Booked(y), Quiet(t, FrameId..frame, disturbed')
          PROVE  Given(OnTheWay', Len(OnTheWay'), t, Bound(y), FrameId..frame, cache[t])
      <4>1. frame \in FrameId..frame
        BY <1>2, <3>4
      <4>2. kept
        BY <1>5, <2>2, <3>5, <4>1 DEF Quiet
      <4>3. OnTheWay' = q /\ Len(q) = Len(p) + 1
        BY <1>4, <1>6, <4>2
      <4>4. q[Len(p) + 1].copy[t] = Bound(y) /\ q[Len(p) + 1].frame \in FrameId..frame
        BY <1>3, <1>6, <2>2, <3>3, <4>1
      <4> HIDE DEF q, p, y
      <4>5. Given(q, Len(p) + 1, t, Bound(y), FrameId..frame, cache[t])
        BY <1>6, <4>4, GivenLast DEF q
      <4> QED BY <4>3, <4>5
    <3> HIDE DEF y
    <3> QED BY <3>1, <3>2, <3>3, <3>4, <3>5 DEF BookHolds
  <2>3. CASE t \notin copied
    <3>1. textures'[t] = x
      BY <1>1, <2>3
    <3> DEFINE fs == x.lastFrame..frame
    <3>2. ASSUME Booked(x), Quiet(t, fs, disturbed')
          PROVE  /\ Bound(x) # NoTexels
                 /\ Given(OnTheWay', Len(OnTheWay'), t, Bound(x), fs, cache[t])
      <4>1. /\ Bound(x) # NoTexels
            /\ Given(p, Len(p), t, Bound(x), fs, cache[t])
        BY <1>8, <2>1, <3>2 DEF BookHolds
      <4>2. CASE ~kept
        BY <1>4, <4>1, <4>2
      <4>3. CASE kept
        <5>1. OnTheWay' = q /\ Len(q) = Len(p) + 1 /\ Len(p) \in 0..Len(p)
          BY <1>4, <1>6, <4>3
        <5>2. q[Len(p) + 1].copy[t] = NoTexels
          BY <1>3, <1>6, <2>3
        <5> HIDE DEF q, p, x, fs
        <5>3. Given(q, Len(p) + 1, t, Bound(x), fs, cache[t])
          BY <1>6, <4>1, <5>1, <5>2, GivenBefore DEF q
        <5> QED BY <4>1, <5>1, <5>3
      <4> QED BY <4>2, <4>3
    <3>3. x.lastGeneration <= x.generation /\ x.lastFrame <= frame
      BY <2>1 DEF BookHolds
    <3> HIDE DEF x
    <3> QED BY <3>1, <3>2, <3>3 DEF BookHolds
  <2> QED BY <2>2, <2>3
<1>12. BooksHold'
  BY <1>1, <1>11 DEF BooksHold
<1> QED BY <1>7, <1>10, <1>12 DEF IInv
\* A Present takes what was recorded to the file, over a frame that the viewer
\* may not have seen.
LEMMA PresentStep ==
  ASSUME IInv, TypeOK', NEW omitted \in SUBSET ((DOMAIN recorded) \X Textures),
         Present(omitted)
  PROVE  IInv'
<1> DEFINE shown == Fits(recorded)
           s == Stripped(shown, omitted)
<1>1. /\ frame' = frame + 1 /\ recorded' = <<>>
      /\ file' = [frame |-> frame, draws |-> s]
      /\ disturbed' = disturbed \cup {<<p[2], frame>> : p \in omitted}
                        \cup LostWith(CutOff(recorded))
                        \cup (IF file.frame # taken THEN LostWith(file.draws) ELSE {})
      /\ UNCHANGED <<textures, taken, replaying, cache>>
  BY DEF Present, viewer
<1>2. /\ replaying \in Seq(DrawType) /\ Unseen \in Seq(DrawType)
      /\ recorded \in Seq(DrawType) /\ frame \in Nat
      /\ taken < frame /\ file.frame < frame /\ taken \in Nat
      /\ \A i \in DOMAIN recorded : recorded[i].frame = frame
  <2>1. TypeOK /\ FramesInOrder
    BY DEF IInv
  <2>2. taken \in Nat
    BY <2>1 DEF TypeOK
  <2> QED BY <2>1, <2>2, WayType, BookTypes DEF FramesInOrder
<1>3. FramesInOrder'
  BY <1>1, <1>2 DEF FramesInOrder
<1>4. /\ shown \in Seq(DrawType) /\ Len(shown) <= Len(recorded)
      /\ \A i \in 1..Len(shown) : shown[i] = recorded[i]
      /\ \A i \in 1..Len(recorded) : i > Len(shown)
           => /\ i - Len(shown) \in DOMAIN CutOff(recorded)
              /\ CutOff(recorded)[i - Len(shown)] = recorded[i]
  BY <1>2, FitsType
<1> HIDE DEF shown
<1>5. /\ s \in Seq(DrawType) /\ Len(s) = Len(shown)
      /\ \A i \in DOMAIN shown :
           /\ s[i].frame = shown[i].frame
           /\ s[i].bound = shown[i].bound
           /\ s[i].want = shown[i].want
           /\ \A t \in Textures : s[i].copy[t] =
                IF <<i, t>> \in omitted THEN NoTexels ELSE shown[i].copy[t]
  BY <1>4, StrippedType
<1> HIDE DEF s
<1>6. /\ DOMAIN s = 1..Len(s) /\ DOMAIN shown = 1..Len(shown)
      /\ DOMAIN recorded = 1..Len(recorded)
      /\ Len(shown) \in Nat /\ Len(recorded) \in Nat
  BY <1>2, <1>4, <1>5
<1>7. \A i \in DOMAIN s :
        /\ s[i].frame = recorded[i].frame /\ s[i].bound = recorded[i].bound
        /\ s[i].want = recorded[i].want
        /\ \A t \in Textures : s[i].copy[t] \in {NoTexels, recorded[i].copy[t]}
  <2> SUFFICES ASSUME NEW i \in DOMAIN s
               PROVE  /\ s[i].frame = recorded[i].frame
                      /\ s[i].bound = recorded[i].bound
                      /\ s[i].want = recorded[i].want
                      /\ \A t \in Textures :
                           s[i].copy[t] \in {NoTexels, recorded[i].copy[t]}
    OBVIOUS
  <2>1. i \in 1..Len(shown) /\ i \in DOMAIN shown
    BY <1>5, <1>6
  <2>2. shown[i] = recorded[i]
    BY <1>4, <2>1, Zenon
  <2>3. /\ s[i].frame = shown[i].frame
        /\ s[i].bound = shown[i].bound
        /\ s[i].want = shown[i].want
        /\ \A t \in Textures : s[i].copy[t] =
             IF <<i, t>> \in omitted THEN NoTexels ELSE shown[i].copy[t]
    BY <1>5, <2>1, Zenon
  <2> QED BY <2>2, <2>3
<1>8. ASSUME NEW i \in DOMAIN Unseen, NEW t \in Textures,
             Unseen[i].copy[t] # NoTexels
      PROVE  <<t, Unseen[i].frame>> \in disturbed'
  <2>1. file.frame # taken /\ Unseen = file.draws
    BY DEF Unseen
  <2>2. <<t, Unseen[i].frame>> \in LostWith(Unseen)
    BY <1>8, LostCopies
  <2> QED BY <1>1, <2>1, <2>2
<1>9. ASSUME NEW i \in DOMAIN recorded, NEW t \in Textures,
             recorded[i].copy[t] # NoTexels,
             <<t, recorded[i].frame>> \notin disturbed'
      PROVE  i \in DOMAIN s /\ s[i].copy[t] = recorded[i].copy[t]
  <2>1. i <= Len(shown)
    <3>1. SUFFICES ASSUME i > Len(shown) PROVE FALSE
      BY <1>6
    <3> DEFINE j == i - Len(shown)
    <3>2. j \in DOMAIN CutOff(recorded) /\ CutOff(recorded)[j] = recorded[i]
      BY <1>4, <1>6, <3>1
    <3> HIDE DEF j
    <3>3. <<t, CutOff(recorded)[j].frame>> \in LostWith(CutOff(recorded))
      BY <1>9, <3>2, LostCopies
    <3> QED BY <1>1, <1>9, <3>2, <3>3
  <2>2. i \in DOMAIN s /\ i \in DOMAIN shown /\ shown[i] = recorded[i]
    BY <1>4, <1>5, <1>6, <2>1
  <2>3. <<i, t>> \notin omitted
    <3>1. ASSUME <<i, t>> \in omitted PROVE FALSE
      <4>1. <<t, frame>> \in {<<p[2], frame>> : p \in omitted}
        BY <3>1
      <4>2. <<t, frame>> \in disturbed'
        BY <1>1, <4>1
      <4>3. recorded[i].frame = frame
        BY <1>2
      <4> QED BY <1>9, <4>2, <4>3
    <3> QED BY <3>1
  <2> QED BY <1>5, <2>2, <2>3
<1>10. \E m : Remains(m, (replaying \o Unseen) \o recorded, replaying \o s, disturbed')
  <2>1. Len(s) <= Len(recorded)
    BY <1>4, <1>5
  <2>2. \A i \in DOMAIN Unseen, t \in Textures :
          Unseen[i].copy[t] # NoTexels => <<t, Unseen[i].frame>> \in disturbed'
    BY <1>8
  <2>3. \A i \in DOMAIN recorded, t \in Textures :
          recorded[i].copy[t] # NoTexels /\ <<t, recorded[i].frame>> \notin disturbed'
            => i \in DOMAIN s /\ s[i].copy[t] = recorded[i].copy[t]
    BY <1>9
  <2>4. /\ replaying \in Seq(DrawType) /\ Unseen \in Seq(DrawType)
        /\ recorded \in Seq(DrawType) /\ s \in Seq(DrawType)
    BY <1>2, <1>5
  <2> QED BY <1>7, <2>1, <2>2, <2>3, <2>4, RemainsBehind, Zenon
<1>11. OnTheWay' = replaying \o s
  <2>1. Unseen' = s
    BY <1>1, <1>2 DEF Unseen
  <2>2. (replaying \o s) \o <<>> = replaying \o s
    BY <1>2, <1>5
  <2> QED BY <1>1, <2>1, <2>2 DEF OnTheWay
<1>12. PICK m : Remains(m, OnTheWay, OnTheWay', disturbed')
  BY <1>10, <1>11 DEF OnTheWay
<1>13. frame <= frame' /\ disturbed \subseteq disturbed' /\ UNCHANGED <<textures, cache>>
  BY <1>1, <1>2
<1>14. DrawsGiven' /\ BooksHold'
  BY <1>12, <1>13, LosingStep
<1> QED BY <1>3, <1>14 DEF IInv

\* A frame is taken; when it is not replayed, its copies are lost.
LEMMA TakeFrameStep ==
  ASSUME IInv, TypeOK', NEW replayed \in BOOLEAN, TakeFrame(replayed)
  PROVE  IInv'
<1>1. /\ replaying = <<>> /\ file.frame # taken /\ taken' = file.frame
      /\ replaying' = IF replayed THEN file.draws ELSE <<>>
      /\ disturbed' = IF replayed THEN disturbed
                      ELSE disturbed \cup LostWith(file.draws)
      /\ UNCHANGED <<textures, frame, recorded, file, cache>>
  BY DEF TakeFrame, device
<1>2. /\ file.draws \in Seq(DrawType) /\ recorded \in Seq(DrawType)
      /\ Unseen = file.draws /\ Unseen' = <<>> /\ frame \in Nat
  BY <1>1, WayType, BookTypes DEF IInv, Unseen
<1>3. FramesInOrder'
  BY <1>1 DEF IInv, FramesInOrder
<1>4. OnTheWay = file.draws \o recorded
  BY <1>1, <1>2 DEF OnTheWay
<1>5. OnTheWay' = IF replayed THEN file.draws \o recorded ELSE recorded
  BY <1>1, <1>2 DEF OnTheWay
<1>6. CASE replayed
  <2>1. /\ OnTheWay' = OnTheWay
        /\ UNCHANGED <<textures, frame, disturbed, cache>>
    BY <1>1, <1>4, <1>5, <1>6
  <2>2. DrawsGiven' /\ BooksHold'
    BY <2>1 DEF IInv, DrawsGiven, BooksHold
  <2> QED BY <1>3, <2>2 DEF IInv
<1>7. CASE ~replayed
  <2>1. <<>> \in Seq(DrawType) /\ (<<>> \o file.draws) \o recorded = OnTheWay
        /\ <<>> \o recorded = OnTheWay'
    BY <1>2, <1>4, <1>5, <1>7
  <2>2. \A i \in DOMAIN file.draws, t \in Textures :
          file.draws[i].copy[t] # NoTexels
            => <<t, file.draws[i].frame>> \in disturbed'
    BY <1>1, <1>7, LostCopies
  <2>3. \A i \in DOMAIN recorded :
          /\ recorded[i].frame = recorded[i].frame
          /\ recorded[i].bound = recorded[i].bound
          /\ recorded[i].want = recorded[i].want
          /\ \A t \in Textures : recorded[i].copy[t] \in {NoTexels, recorded[i].copy[t]}
    OBVIOUS
  <2>4. \A i \in DOMAIN recorded, t \in Textures :
          recorded[i].copy[t] # NoTexels /\ <<t, recorded[i].frame>> \notin disturbed'
            => i \in DOMAIN recorded /\ recorded[i].copy[t] = recorded[i].copy[t]
    OBVIOUS
  <2>5. Len(recorded) <= Len(recorded)
    BY <1>2
  <2>6. PICK m : Remains(m, OnTheWay, OnTheWay', disturbed')
    <3>1. \E m : Remains(m, (<<>> \o file.draws) \o recorded, <<>> \o recorded, disturbed')
      BY <1>2, <2>1, <2>2, <2>3, <2>4, <2>5, RemainsBehind
    <3> QED BY <2>1, <3>1
  <2>7. frame <= frame' /\ disturbed \subseteq disturbed' /\ UNCHANGED <<textures, cache>>
    BY <1>1, <1>2
  <2>8. DrawsGiven' /\ BooksHold'
    BY <2>6, <2>7, LosingStep
  <2> QED BY <1>3, <2>8 DEF IInv
<1> QED BY <1>6, <1>7

\* What happens to the first draw that is replayed.
LEMMA FirstReplayed ==
  ASSUME TypeOK,
         \/ \E failed, reached \in SUBSET Textures : ReplayDraw(failed, reached)
         \/ SkipDraw
  PROVE  /\ replaying # <<>> /\ OnTheWay # <<>>
         /\ OnTheWay[1] = Head(replaying)
         /\ OnTheWay' = Tail(OnTheWay)
         /\ disturbed \subseteq disturbed'
         /\ UNCHANGED <<textures, frame, recorded, file, taken>>
         /\ FirstTaken(OnTheWay, cache, cache', disturbed')
<1> DEFINE draw == Head(replaying)
<1>1. /\ replaying # <<>> /\ replaying' = Tail(replaying)
      /\ disturbed \subseteq disturbed'
      /\ UNCHANGED <<textures, frame, recorded, file, taken>>
  BY DEF ReplayDraw, SkipDraw, device
<1>2. /\ replaying \in Seq(DrawType) /\ Unseen \in Seq(DrawType)
      /\ recorded \in Seq(DrawType)
  BY WayType
<1>3. Unseen' = Unseen
  BY <1>1 DEF Unseen
<1>4. ASSUME NEW a \in Seq(DrawType), NEW b \in Seq(DrawType), a # <<>>
      PROVE  /\ a \o b \in Seq(DrawType) /\ a \o b # <<>>
             /\ (a \o b)[1] = Head(a) /\ Tail(a \o b) = Tail(a) \o b
  <2>1. a \o b \in Seq(DrawType) /\ a \o b # <<>> /\ (a \o b)[1] = Head(a)
    BY <1>4
  <2>2. Tail(a \o b) = Tail(a) \o b
    BY <1>4
  <2> QED BY <2>1, <2>2
<1>5. /\ OnTheWay # <<>> /\ OnTheWay[1] = draw /\ OnTheWay' = Tail(OnTheWay)
  <2> DEFINE a == replaying \o Unseen
  <2>1. a \in Seq(DrawType) /\ a # <<>> /\ a[1] = draw
        /\ Tail(a) = Tail(replaying) \o Unseen
    BY <1>1, <1>2, <1>4
  <2>2. Head(a) = a[1]
    BY <2>1
  <2> HIDE DEF a
  <2>3. /\ a \o recorded # <<>> /\ (a \o recorded)[1] = Head(a)
        /\ Tail(a \o recorded) = Tail(a) \o recorded
    BY <1>2, <1>4, <2>1
  <2> QED BY <1>1, <1>3, <2>1, <2>2, <2>3 DEF OnTheWay, a
<1>6. ASSUME NEW t \in Textures
      PROVE  /\ draw.copy[t] = NoTexels => cache'[t] = cache[t]
             /\ draw.copy[t] # NoTexels /\ <<t, draw.frame>> \notin disturbed'
                  => cache'[t] = draw.copy[t]
  <2>1. ASSUME NEW failed \in SUBSET Textures, NEW reached \in SUBSET Textures,
               ReplayDraw(failed, reached)
        PROVE  <1>6!2
    <3>1. /\ cache' = Cached(draw, failed, reached)
          /\ \A u \in Copies(draw) \cap (failed \cup (Textures \ reached)) :
               <<u, draw.frame>> \in disturbed'
      BY <2>1 DEF ReplayDraw
    <3>2. cache'[t] = IF t \in reached THEN Resolved(draw, failed, t) ELSE cache[t]
      BY <3>1 DEF Cached
    <3>3. t \in Copies(draw) <=> draw.copy[t] # NoTexels
      BY DEF Copies
    <3> HIDE DEF draw
    <3> QED BY <3>1, <3>2, <3>3 DEF Resolved
  <2>2. ASSUME SkipDraw
        PROVE  <1>6!2
    <3>1. cache' = cache /\ LostWith(<<draw>>) \subseteq disturbed'
      BY <2>2 DEF SkipDraw
    <3>2. 1 \in DOMAIN <<draw>> /\ <<draw>>[1] = draw
      OBVIOUS
    <3> HIDE DEF draw
    <3>3. draw.copy[t] # NoTexels => <<t, <<draw>>[1].frame>> \in LostWith(<<draw>>)
      BY <3>2, LostCopies
    <3> QED BY <3>1, <3>2, <3>3
  <2> QED BY <2>1, <2>2
<1>7. FirstTaken(OnTheWay, cache, cache', disturbed')
  BY <1>5, <1>6 DEF FirstTaken
<1> QED BY <1>1, <1>5, <1>7

LEMMA ReplayStep ==
  ASSUME IInv, TypeOK',
         \/ \E failed, reached \in SUBSET Textures : ReplayDraw(failed, reached)
         \/ SkipDraw
  PROVE  IInv'
<1>1. /\ OnTheWay # <<>> /\ OnTheWay' = Tail(OnTheWay)
      /\ disturbed \subseteq disturbed'
      /\ UNCHANGED <<textures, frame, recorded, file, taken>>
      /\ FirstTaken(OnTheWay, cache, cache', disturbed')
  BY FirstReplayed DEF IInv
<1>2. OnTheWay \in Seq(DrawType)
  BY WayType DEF IInv
<1>3. FramesInOrder'
  BY <1>1 DEF IInv, FramesInOrder
<1>4. AllGiven(Tail(OnTheWay), disturbed', cache')
  BY <1>1, <1>2, AllAfterFirst DEF IInv, DrawsGiven
<1>5. ASSUME NEW t \in Textures
      PROVE  BookHolds(textures[t], t, frame, Tail(OnTheWay), disturbed', cache')
  <2>1. /\ textures[t] \in TextureType /\ frame \in Nat
        /\ BookHolds(textures[t], t, frame, OnTheWay, disturbed, cache)
    BY BookTypes DEF IInv, BooksHold
  <2> QED BY <1>1, <1>2, <2>1, BookAfterFirst
<1>6. DrawsGiven' /\ BooksHold'
  BY <1>1, <1>4, <1>5 DEF DrawsGiven, BooksHold
<1> QED BY <1>3, <1>6 DEF IInv
-----------------------------------------------------------------------------
\* The theorems.

LEMMA InitHolds == Init => IInv
<1> SUFFICES ASSUME Init PROVE IInv
  OBVIOUS
<1>1. TypeOK
  BY InitTyped
<1>2. OnTheWay = <<>> /\ DOMAIN OnTheWay = {}
  BY DEF Init, OnTheWay, Unseen
<1>3. FramesInOrder
  BY DEF Init, FramesInOrder
<1>4. DrawsGiven
  BY <1>2 DEF DrawsGiven, AllGiven
<1>5. BooksHold
  <2> SUFFICES ASSUME NEW t \in Textures
               PROVE  BookHolds(textures[t], t, frame, OnTheWay, disturbed, cache)
    BY DEF BooksHold
  <2>1. /\ textures[t].lastGeneration = 0 /\ textures[t].generation = 1
        /\ textures[t].lastFrame = 0 /\ frame = 1
    BY DEF Init, NewTexture
  <2> QED BY <2>1 DEF BookHolds, Booked
<1> QED BY <1>1, <1>3, <1>4, <1>5 DEF IInv

LEMMA InvStep == FirstFrames /\ IInv /\ [Next]_vars => IInv'
<1> SUFFICES ASSUME FirstFrames, IInv, [Next]_vars PROVE IInv'
  OBVIOUS
<1>1. TypeOK'
  BY TypeStep DEF IInv
<1>2. CASE UNCHANGED vars
  BY <1>1, <1>2 DEF IInv, FramesInOrder, DrawsGiven, BooksHold, OnTheWay, Unseen,
     vars, device, viewer
<1>3. CASE Next
  BY <1>1, <1>3, GameStep, DrawStep, PresentStep, TakeFrameStep, ReplayStep DEF Next
<1> QED BY <1>2, <1>3

\* In the first FrameIds frames of a device, whatever copies are lost and
\* wherever: a draw that is on its way finds what the game had in its textures,
\* or something recent was lost, and so will a texture that the frontend does
\* not send again (fill_draw_texture_stages).
THEOREM InvHolds ==
  ASSUME FirstFrames
  PROVE  Spec => []IInv
<1>1. FirstFrames
  OBVIOUS
<1>2. IInv /\ [Next]_vars => IInv'
  BY <1>1, InvStep
<1> QED BY InitHolds, <1>2, PTL DEF Spec

LEMMA RepairStep ==
  ASSUME IInv, [Next]_vars, replaying # <<>>, replaying' # replaying,
         NEW t \in Head(replaying).bound,
         Head(replaying).want[t] # NoTexels,
         \A f \in Recent(Head(replaying).frame) : <<t, f>> \notin disturbed'
  PROVE  cache'[t] = Head(replaying).want[t]
<1> DEFINE draw == Head(replaying)
           fs == Recent(draw.frame)
           v == draw.want[t]
<1>1. \/ \E failed, reached \in SUBSET Textures : ReplayDraw(failed, reached)
      \/ SkipDraw
  BY DEF Next, Update, AddDirtyRect, EnsureSysmem, SetLOD, Draw, Present, TakeFrame,
     vars, viewer
<1>2. /\ OnTheWay # <<>> /\ OnTheWay[1] = draw
      /\ disturbed \subseteq disturbed'
      /\ FirstTaken(OnTheWay, cache, cache', disturbed')
  BY <1>1, FirstReplayed DEF IInv
<1>3. OnTheWay \in Seq(DrawType)
  BY WayType DEF IInv
<1>4. 1 \in DOMAIN OnTheWay /\ 0 \in 0..(Len(OnTheWay) - 1) /\ 0 + 1 = 1
  BY <1>2, <1>3
<1>5. t \in Textures
  <2>1. draw \in DrawType
    BY <1>2, <1>3, <1>4
  <2>2. draw.bound \in SUBSET Textures
    BY <2>1 DEF DrawType
  <2> QED BY <2>2
<1>6. v # NoTexels /\ Quiet(t, fs, disturbed') /\ Quiet(t, fs, disturbed)
  BY <1>2 DEF Quiet
<1>7. Given(OnTheWay, 1, t, v, fs, cache[t])
  BY <1>2, <1>4, <1>5, <1>6 DEF IInv, DrawsGiven, AllGiven
<1> HIDE DEF v, fs
<1>8. Given(Tail(OnTheWay), 0, t, v, fs, cache'[t])
  BY <1>2, <1>3, <1>4, <1>5, <1>6, <1>7, GivenAfter
<1>9. \A j \in DOMAIN Tail(OnTheWay) : ~(j <= 0)
  BY <1>2, <1>3
<1>10. cache'[t] = v
  BY <1>8, <1>9 DEF Given
<1> QED BY <1>10 DEF v

\* For any textures, levels, capacities and refresh interval, and any losses: when
\* no copy of a texture was lost and no other level chosen in the frames since
\* the last refresh could be due, the viewer draws with what the game had in the
\* texture at the call.  After FrameIds frames without a draw a book may look
\* fresh that is not.
THEOREM LossesRepaired ==
  ASSUME FirstFrames
  PROVE  Spec => LossesAreRepaired
<1>1. IInv /\ [Next]_vars
        => (replaying # <<>> /\ replaying' # replaying =>
              LET draw == Head(replaying) IN
              \A t \in draw.bound :
                draw.want[t] # NoTexels
                  /\ (\A f \in Recent(draw.frame) : <<t, f>> \notin disturbed')
                => cache'[t] = draw.want[t])
  BY RepairStep
<1>2. Spec => []IInv
  BY InvHolds
<1> QED BY <1>1, <1>2, PTL DEF Spec, LossesAreRepaired
=============================================================================
