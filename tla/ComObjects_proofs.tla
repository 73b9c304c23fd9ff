------------------------- MODULE ComObjects_proofs -------------------------
(***************************************************************************)
(* ComObjects for any heap: any number of objects of each kind, any widths *)
(* of the bindings and any numbers of references.                          *)
(*                                                                         *)
(* A call is a composition of steps on a heap h and the references g that  *)
(* somebody holds on its objects: to add a reference, to give one          *)
(* back, to store one in a field, to empty fields, to allocate an object,  *)
(* to add parts to it, and to settle the objects S that lost references.   *)
(* Each keeps Good(h, g, S, X), where X is the set of the objects that are *)
(* being built or were lost.                                               *)
(***************************************************************************)
EXTENDS ComObjects, FiniteSetTheorems, TLAPS

-----------------------------------------------------------------------------
\* Fields.

Roles ==
  {"rt", "texture", "stream", "depth", "indices", "vdecl", "vs", "ps",
   "swapchain", "parent", "backbuffer", "level", "device", "none"}

LEMMA RolesFinite == IsFiniteSet(Roles)
<1>1. \A x, y : IsFiniteSet({x, y})
  <2> SUFFICES ASSUME NEW x, NEW y PROVE IsFiniteSet({x, y})
    OBVIOUS
  <2>1. IsFiniteSet({x} \cup {y})
    BY FS_Singleton, FS_AddElement
  <2>2. QED
    BY <2>1
<1>2. \A S, T : IsFiniteSet(S) /\ IsFiniteSet(T) => IsFiniteSet(S \cup T)
  BY FS_Union
<1>3. IsFiniteSet({"rt", "texture"} \cup {"stream", "depth"})
  BY <1>1, <1>2
<1>4. IsFiniteSet({"indices", "vdecl"} \cup {"vs", "ps"})
  BY <1>1, <1>2
<1>5. IsFiniteSet({"swapchain", "parent"} \cup {"backbuffer", "level"})
  BY <1>1, <1>2
<1>6. IsFiniteSet({"device", "none"})
  BY <1>1
<1>7. Roles = (({"rt", "texture"} \cup {"stream", "depth"})
                 \cup ({"indices", "vdecl"} \cup {"vs", "ps"}))
              \cup (({"swapchain", "parent"} \cup {"backbuffer", "level"})
                      \cup {"device", "none"})
  BY DEF Roles
<1>8. QED
  BY <1>2, <1>3, <1>4, <1>5, <1>6, <1>7

LEMMA WidthType ==
  ASSUME NEW kind \in Kinds
  PROVE  /\ DOMAIN Width(kind) \subseteq Roles
         /\ \A role \in DOMAIN Width(kind) : Width(kind)[role] \in Nat
<1>1. /\ RenderTargets \in Nat /\ Stages \in Nat /\ Streams \in Nat
      /\ Levels \in Nat /\ Faces \in Nat
  BY ObjectsAssumption
<1>2. Levels * Faces \in Nat
  BY <1>1
<1>3. CASE kind = "device"
  BY <1>1, <1>3 DEF Width, Roles
<1>4. CASE kind = "swapchain"
  BY <1>4 DEF Width, Roles
<1>5. CASE kind = "texture"
  BY <1>1, <1>5 DEF Width, Roles
<1>6. CASE kind = "cube"
  BY <1>2, <1>6 DEF Width, Roles
<1>7. CASE kind = "query"
  BY <1>7 DEF Width, Roles
<1>8. CASE kind \notin {"device", "swapchain", "texture", "cube", "query"}
  BY <1>8 DEF Width, Roles
<1>9. QED
  BY <1>3, <1>4, <1>5, <1>6, <1>7, <1>8

LEMMA SlotsFinite ==
  ASSUME NEW kind \in Kinds
  PROVE  IsFiniteSet(Slots(kind))
<1> DEFINE W == Width(kind)
           f == [role \in DOMAIN W |-> {role} \X (0..(W[role] - 1))]
           T == {{role} \X (0..(W[role] - 1)) : role \in DOMAIN W}
<1>1. IsFiniteSet(DOMAIN W)
  BY WidthType, RolesFinite, FS_Subset
<1>2. \A role \in DOMAIN W : W[role] \in Nat
  BY WidthType
<1> HIDE DEF W
<1>3. f \in Surjection(DOMAIN W, T)
  BY DEF Surjection
<1>4. IsFiniteSet(T)
  BY <1>1, <1>3, FS_Surjection
<1>5. ASSUME NEW role \in DOMAIN W
      PROVE  IsFiniteSet({role} \X (0..(W[role] - 1)))
  <2>1. IsFiniteSet(0..(W[role] - 1))
    BY <1>2, FS_Interval
  <2>2. IsFiniteSet({role})
    BY FS_Singleton
  <2>3. QED
    BY <2>1, <2>2, FS_Product
<1>6. \A U \in T : IsFiniteSet(U)
  BY <1>5
<1>7. IsFiniteSet(UNION T)
  BY <1>4, <1>6, FS_UNION
<1>8. QED
  BY <1>7 DEF Slots, W

LEMMA KindOf ==
  ASSUME NEW o \in Objects
  PROVE  Kind[o] \in Kinds
BY ObjectsAssumption

LEMMA OwnFields ==
  ASSUME NEW D \in SUBSET Objects
  PROVE  FieldsOf(D) = {f \in Fields : f[1] \in D}
<1>1. \A o \in Objects : Own[o] = {o} \X Slots(Kind[o])
  BY DEF Own
<1>2. ASSUME NEW f PROVE f \in FieldsOf(D) <=> f \in Fields /\ f[1] \in D
  <2>1. f \in FieldsOf(D) <=> \E o \in D : f \in Own[o]
    BY DEF FieldsOf
  <2>2. f \in Fields <=> \E o \in Objects : f \in Own[o]
    BY DEF Fields, FieldsOf
  <2>3. \A o \in Objects : f \in Own[o] => f[1] = o
    BY <1>1
  <2>4. QED
    BY <2>1, <2>2, <2>3
<1>3. QED
  BY <1>2

LEMMA FieldForm ==
  ASSUME NEW f \in Fields
  PROVE  /\ f[1] \in Objects
         /\ f \in Own[f[1]]
         /\ f[2] \in Slots(Kind[f[1]])
         /\ f = <<f[1], f[2]>>
<1>1. PICK o \in Objects : f \in Own[o]
  BY DEF Fields, FieldsOf
<1>2. Own[o] = {o} \X Slots(Kind[o])
  BY DEF Own
<1>3. QED
  BY <1>1, <1>2

LEMMA FieldsFinite == IsFiniteSet(Fields)
<1> DEFINE T == {Own[o] : o \in Objects}
<1>1. Own \in Surjection(Objects, T)
  BY DEF Surjection, Own
<1>2. IsFiniteSet(T)
  BY <1>1, ObjectsAssumption, FS_Surjection
<1>3. ASSUME NEW o \in Objects PROVE IsFiniteSet(Own[o])
  <2>1. Own[o] = {o} \X Slots(Kind[o])
    BY DEF Own
  <2>2. IsFiniteSet(Slots(Kind[o])) /\ IsFiniteSet({o})
    BY KindOf, SlotsFinite, FS_Singleton
  <2>3. QED
    BY <2>1, <2>2, FS_Product
<1>4. IsFiniteSet(UNION T)
  BY <1>2, <1>3, FS_UNION
<1>5. QED
  BY <1>4 DEF Fields, FieldsOf

\* The named fields.
LEMMA AtField ==
  ASSUME NEW o \in Objects, NEW role \in DOMAIN Width(Kind[o]),
         NEW i \in 0..(Width(Kind[o])[role] - 1)
  PROVE  At(o, role, i) \in Fields /\ At(o, role, i) \in Own[o]
<1>1. <<role, i>> \in Slots(Kind[o])
  BY DEF Slots
<1>2. At(o, role, i) \in Own[o]
  BY <1>1 DEF At, Own
<1>3. QED
  BY <1>2 DEF Fields, FieldsOf

-----------------------------------------------------------------------------
\* The invariant of a heap, in parts.

HeapType ==
  [refs : [Objects -> Int],
   ptr : [Fields -> Objects \cup {Null}],
   container : [Surfaces -> Objects \cup {Null}],
   device : [Objects -> Objects \cup {Null, Freed}]]

GameType == [Objects -> Nat]

\* Every reference is the game's or a field's.
Counts(h, g) == \A o \in Objects : h.refs[o] = g[o] + Cardinality(Names(h, o))

\* Counting pointers go downwards: query, device, container, the rest.
Height(o) ==
  CASE Kind[o] = "query" -> 3
    [] Kind[o] = "device" -> 2
    [] Kind[o] \in Containers -> 1
    [] OTHER -> 0

\* Whether field f may refer to o.
Fits(f, o) ==
  /\ Height(o) < Height(f[1])
  /\ Kind[f[1]] = "device" /\ f = The(f[1], "swapchain") => Kind[o] = "swapchain"

Graded(h) == \A f \in Fields : h.ptr[f] # Null => Fits(f, h.ptr[f])

\* What is not allocated, and not among the unsettled objects S, has no fields.
EmptyWhenDead(h, S) ==
  \A f \in Fields : h.refs[f[1]] = 0 /\ f[1] \notin S => h.ptr[f] = Null

DevicesLive(h, S) ==
  \A o \in Objects : h.device[o] \in Objects =>
    /\ Kind[h.device[o]] = "device"
    /\ h.refs[h.device[o]] > 0 \/ h.device[o] \in S

Contained(h) ==
  \A s \in Surfaces : h.container[s] # Null =>
    /\ Kind[h.container[s]] \in Containers
    /\ \E f \in Fields : h.ptr[f] = s /\ f[1] = h.container[s]

\* A query has its device and a device its swap chain, except those in X.
Complete(h, X) ==
  \A o \in Objects \ X : h.refs[o] > 0 =>
    /\ Kind[o] = "query" => h.device[o] = h.ptr[The(o, "device")]
    /\ Kind[o] = "device" =>
         /\ h.ptr[The(o, "swapchain")] # Null
         /\ h.device[h.ptr[The(o, "swapchain")]] = o

Good(h, g, S, X) ==
  /\ h \in HeapType
  /\ g \in GameType
  /\ S \in SUBSET Objects
  /\ X \in SUBSET Objects
  /\ Counts(h, g)
  /\ Graded(h)
  /\ EmptyWhenDead(h, S)
  /\ DevicesLive(h, S)
  /\ Contained(h)
  /\ Complete(h, X)

-----------------------------------------------------------------------------
\* Who refers to whom.

LEMMA NoObject == Null \notin Objects /\ Freed \notin Objects
BY ObjectsAssumption

LEMMA HeightType ==
  ASSUME NEW o \in Objects
  PROVE  Height(o) \in 0..3
BY DEF Height

\* What has fields is a query, a device or a container.
LEMMA OwnerHeight ==
  ASSUME NEW f \in Fields
  PROVE  Height(f[1]) \in 1..3
<1>1. f[2] \in Slots(Kind[f[1]]) /\ f[1] \in Objects
  BY FieldForm
<1>2. CASE Kind[f[1]] \in Containers \cup {"device", "query"}
  BY <1>2 DEF Height, Containers
<1>3. CASE Kind[f[1]] \notin Containers \cup {"device", "query"}
  <2>1. Width(Kind[f[1]]) = [none |-> 0]
    BY <1>3 DEF Width, Containers
  <2>2. Slots(Kind[f[1]]) = UNION {{role} \X (0..-1) : role \in {"none"}}
    BY <2>1 DEF Slots
  <2>3. QED
    BY <1>1, <2>2
<1>4. QED
  BY <1>2, <1>3

LEMMA FromFinite ==
  ASSUME NEW h, NEW F \in SUBSET Fields, NEW o
  PROVE  /\ IsFiniteSet(From(h, F, o))
         /\ Cardinality(From(h, F, o)) \in Nat
         /\ Cardinality(From(h, F, o)) = 0 <=> From(h, F, o) = {}
<1>1. From(h, F, o) \in SUBSET Fields
  BY DEF From
<1>2. IsFiniteSet(From(h, F, o))
  BY <1>1, FieldsFinite, FS_Subset
<1>3. QED
  BY <1>2, FS_CardinalityType, FS_EmptySet

LEMMA FromNames ==
  ASSUME NEW h, NEW F \in SUBSET Fields, NEW o
  PROVE  /\ From(h, F, o) \subseteq Names(h, o)
         /\ Cardinality(From(h, F, o)) <= Cardinality(Names(h, o))
         /\ Cardinality(From(h, F, o)) = Cardinality(Names(h, o))
              => From(h, F, o) = Names(h, o)
<1>1. From(h, F, o) \in SUBSET Names(h, o)
  BY DEF From, Names
<1>2. IsFiniteSet(Names(h, o))
  BY FromFinite DEF Names
<1>3. QED
  BY <1>1, <1>2, FS_Subset

\* With exact counts: a count is a number, and what is named is counted.
LEMMA Counted ==
  ASSUME NEW h \in HeapType, NEW g \in GameType, Counts(h, g),
         NEW o \in Objects
  PROVE  /\ h.refs[o] \in Nat
         /\ h.refs[o] >= g[o]
         /\ Cardinality(Names(h, o)) \in Nat
         /\ h.refs[o] = g[o] + Cardinality(Names(h, o))
         /\ \A f \in Fields : h.ptr[f] = o => h.refs[o] > 0
         /\ h.refs[o] = 0 => g[o] = 0 /\ Names(h, o) = {}
<1>1. g[o] \in Nat /\ Cardinality(Names(h, o)) \in Nat
  BY FromFinite DEF GameType, Names
<1>2. h.refs[o] = g[o] + Cardinality(Names(h, o))
  BY DEF Counts
<1>3. Cardinality(Names(h, o)) = 0 <=> Names(h, o) = {}
  BY FromFinite DEF Names
<1>4. \A f \in Fields : h.ptr[f] = o => f \in Names(h, o)
  BY DEF Names, From
<1>5. QED
  BY <1>1, <1>2, <1>3, <1>4

-----------------------------------------------------------------------------
\* Settling.

LEMMA DropFields ==
  ASSUME NEW h \in HeapType, NEW F \in SUBSET Fields
  PROVE  /\ Drop(h, F) \in HeapType
         /\ \A o \in Objects :
              Drop(h, F).refs[o] = h.refs[o] - Cardinality(From(h, F, o))
         /\ \A f \in Fields :
              Drop(h, F).ptr[f] = IF f \in F THEN Null ELSE h.ptr[f]
         /\ Drop(h, F).container = h.container
         /\ Drop(h, F).device = h.device
<1> DEFINE r == [o \in Objects |-> h.refs[o] - Cardinality(From(h, F, o))]
           p == [f \in Fields |-> IF f \in F THEN Null ELSE h.ptr[f]]
<1>1. r \in [Objects -> Int]
  <2>1. ASSUME NEW o \in Objects PROVE h.refs[o] - Cardinality(From(h, F, o)) \in Int
    <3> DEFINE a == h.refs[o]
               b == Cardinality(From(h, F, o))
    <3>1. a \in Int
      BY DEF HeapType
    <3>2. b \in Nat
      BY FromFinite
    <3> HIDE DEF a, b
    <3>3. a - b \in Int
      BY <3>1, <3>2
    <3> QED BY <3>3 DEF a, b
  <2> QED BY <2>1, Zenon
<1>2. p \in [Fields -> Objects \cup {Null}]
  BY DEF HeapType
<1>3. Drop(h, F) = [h EXCEPT !.refs = r, !.ptr = p]
  BY DEF Drop
<1>4. /\ \A o \in Objects : r[o] = h.refs[o] - Cardinality(From(h, F, o))
      /\ \A f \in Fields : p[f] = IF f \in F THEN Null ELSE h.ptr[f]
  OBVIOUS
<1> HIDE DEF r, p
<1>5. QED
  BY <1>1, <1>2, <1>3, <1>4 DEF HeapType

LEMMA FreeFields ==
  ASSUME NEW h \in HeapType, NEW D \in SUBSET Objects
  PROVE  /\ Free(h, D) \in HeapType
         /\ \A o \in Objects :
              Free(h, D).refs[o] =
                h.refs[o] - Cardinality(From(h, FieldsOf(D), o))
         /\ \A f \in Fields :
              Free(h, D).ptr[f] = IF f[1] \in D THEN Null ELSE h.ptr[f]
         /\ \A s \in Surfaces :
              Free(h, D).container[s] =
                IF \/ s \in D
                   \/ \E f \in Fields : /\ f[1] \in D
                                        /\ Kind[f[1]] \in Containers
                                        /\ h.ptr[f] = s
                  THEN Null ELSE h.container[s]
         /\ \A o \in Objects :
              Free(h, D).device[o] =
                IF o \in D THEN Null
                ELSE IF h.device[o] \in D THEN Freed ELSE h.device[o]
<1> DEFINE F == FieldsOf(D)
           parts == {f \in F : Kind[f[1]] \in Containers}
           c == [s \in Surfaces |-> IF s \in D \/ From(h, parts, s) # {}
                                      THEN Null ELSE h.container[s]]
           d == [o \in Objects |->
                   IF o \in D THEN Null
                   ELSE IF h.device[o] \in D THEN Freed ELSE h.device[o]]
<1>1. F \in SUBSET Fields /\ F = {f \in Fields : f[1] \in D}
  BY OwnFields
<1>2. \A s : From(h, parts, s) # {} <=>
               \E f \in Fields : /\ f[1] \in D
                                 /\ Kind[f[1]] \in Containers
                                 /\ h.ptr[f] = s
  BY <1>1 DEF From
<1>3. c \in [Surfaces -> Objects \cup {Null}]
  BY DEF HeapType
<1>4. d \in [Objects -> Objects \cup {Null, Freed}]
  BY DEF HeapType
<1>5. Free(h, D) = [Drop(h, F) EXCEPT !.container = c, !.device = d]
  BY DEF Free
<1>6. /\ \A s \in Surfaces :
           c[s] = IF \/ s \in D
                     \/ \E f \in Fields : /\ f[1] \in D
                                          /\ Kind[f[1]] \in Containers
                                          /\ h.ptr[f] = s
                    THEN Null ELSE h.container[s]
      /\ \A o \in Objects :
           d[o] = IF o \in D THEN Null
                  ELSE IF h.device[o] \in D THEN Freed ELSE h.device[o]
  BY <1>2
<1> HIDE DEF c, d, F
<1>7. /\ Drop(h, F) \in HeapType
      /\ \A o \in Objects :
           Drop(h, F).refs[o] = h.refs[o] - Cardinality(From(h, F, o))
      /\ \A f \in Fields :
           Drop(h, F).ptr[f] = IF f \in F THEN Null ELSE h.ptr[f]
  BY <1>1, DropFields
<1>8. /\ Free(h, D) \in HeapType
      /\ Free(h, D).refs = Drop(h, F).refs
      /\ Free(h, D).ptr = Drop(h, F).ptr
      /\ Free(h, D).container = c
      /\ Free(h, D).device = d
  BY <1>3, <1>4, <1>5, <1>7 DEF HeapType
<1>9. QED
  BY <1>1, <1>6, <1>7, <1>8 DEF F

\* To empty fields takes exactly their references away.
LEMMA DropCounts ==
  ASSUME NEW h \in HeapType, NEW g \in GameType, NEW F \in SUBSET Fields,
         NEW k, Counts(h, g),
         \A o \in Objects : k.refs[o] = h.refs[o] - Cardinality(From(h, F, o)),
         \A f \in Fields : k.ptr[f] = IF f \in F THEN Null ELSE h.ptr[f]
  PROVE  Counts(k, g)
<1> SUFFICES ASSUME NEW o \in Objects
             PROVE  k.refs[o] = g[o] + Cardinality(Names(k, o))
  BY DEF Counts
<1>1. Names(k, o) = Names(h, o) \ From(h, F, o)
  BY NoObject DEF Names, From
<1>2. From(h, F, o) = Names(h, o) \cap From(h, F, o)
  BY FromNames
<1>3. IsFiniteSet(Names(h, o)) /\ Cardinality(Names(h, o)) \in Nat
  BY FromFinite DEF Names
<1>4. Cardinality(Names(k, o)) =
        Cardinality(Names(h, o)) - Cardinality(From(h, F, o))
  <2>1. Cardinality(Names(h, o) \ From(h, F, o)) =
          Cardinality(Names(h, o)) - Cardinality(Names(h, o) \cap From(h, F, o))
    BY <1>3, FS_Difference
  <2>2. QED
    BY <1>1, <1>2, <2>1
<1>5. h.refs[o] = g[o] + Cardinality(Names(h, o)) /\ g[o] \in Nat
  BY DEF Counts, GameType
<1>6. Cardinality(From(h, F, o)) \in Nat
  BY FromFinite
<1>7. QED
  BY <1>3, <1>4, <1>5, <1>6

\* What is doomed with D: nothing but fields of D refers to it.
LEMMA DoomedIs ==
  ASSUME NEW h \in HeapType, NEW D \in SUBSET Objects
  PROVE  /\ Doomed(h, D) \in SUBSET Objects
         /\ \A o \in Objects : o \in Doomed(h, D) <=>
              \/ o \in D
              \/ /\ From(h, FieldsOf(D), o) # {}
                 /\ h.refs[o] = Cardinality(From(h, FieldsOf(D), o))
<1>1. FieldsOf(D) \subseteq Fields
  BY OwnFields
<1>2. \A f \in Fields : h.ptr[f] \in Objects \cup {Null}
  BY DEF HeapType
<1>3. ASSUME NEW o
      PROVE  o \in Doomed(h, D) <=>
               \/ o \in D
               \/ \E f \in FieldsOf(D) :
                    /\ h.ptr[f] = o
                    /\ o # Null
                    /\ h.refs[o] = Cardinality(From(h, FieldsOf(D), o))
  BY DEF Doomed
<1>4. \A o : From(h, FieldsOf(D), o) # {} <=>
               \E f \in FieldsOf(D) : h.ptr[f] = o
  BY DEF From
<1>5. QED
  BY <1>1, <1>2, <1>3, <1>4, NoObject

\* One more round of Doomed adds nothing of height n when the round before has
\* added nothing above n.
LEMMA DoomedRound ==
  ASSUME NEW h \in HeapType, Graded(h), NEW D \in SUBSET Objects, NEW n \in Nat,
         \A x \in Doomed(h, D) : Height(x) > n => x \in D
  PROVE  \A x \in Doomed(h, Doomed(h, D)) : Height(x) >= n => x \in Doomed(h, D)
<1> DEFINE E == Doomed(h, D)
<1>1. E \in SUBSET Objects /\ D \subseteq E
  BY DoomedIs
<1> SUFFICES ASSUME NEW x \in Doomed(h, E), Height(x) >= n, x \notin E
             PROVE  FALSE
  OBVIOUS
<1>2. /\ x \in Objects
      /\ From(h, FieldsOf(E), x) # {}
      /\ h.refs[x] = Cardinality(From(h, FieldsOf(E), x))
  BY <1>1, DoomedIs
<1>3. From(h, FieldsOf(E), x) = From(h, FieldsOf(D), x)
  <2>1. ASSUME NEW f \in Fields, h.ptr[f] = x, f[1] \in E
        PROVE  f[1] \in D
    <3>1. Height(x) < Height(f[1])
      BY <1>2, <2>1, NoObject DEF Graded, Fits
    <3>2. Height(x) \in Nat /\ Height(f[1]) \in Nat
      BY <1>2, HeightType, OwnerHeight
    <3>3. Height(f[1]) > n
      BY <3>1, <3>2
    <3>4. QED
      BY <2>1, <3>3
  <2>2. /\ FieldsOf(E) = {f \in Fields : f[1] \in E}
        /\ FieldsOf(D) = {f \in Fields : f[1] \in D}
    BY <1>1, OwnFields
  <2>3. QED
    BY <1>1, <2>1, <2>2 DEF From
<1>4. QED
  BY <1>2, <1>3, DoomedIs

\* The objects that settling frees, and what is known of them.
Gone(h, S) == {o \in S : h.refs[o] = 0}
Freed3(h, S) == Doomed(h, Doomed(h, Doomed(h, Gone(h, S))))

LEMMA FreedObjects ==
  ASSUME NEW h \in HeapType, NEW g \in GameType, NEW S \in SUBSET Objects,
         Counts(h, g), Graded(h)
  PROVE  LET D == Freed3(h, S) IN
         /\ D \in SUBSET Objects
         /\ Gone(h, S) \subseteq D
         \* only they refer to themselves,
         /\ \A x \in D : Names(h, x) \subseteq FieldsOf(D)
         /\ \A x \in D : h.refs[x] = Cardinality(From(h, FieldsOf(D), x))
         \* and nothing else loses its last reference with them.
         /\ \A x \in Objects :
              h.refs[x] = Cardinality(From(h, FieldsOf(D), x))
                => h.refs[x] = 0 \/ x \in D
<1> DEFINE A == Gone(h, S)
           B == Doomed(h, A)
           C == Doomed(h, B)
           D == Doomed(h, C)
<1>1. A \in SUBSET Objects
  BY DEF Gone
<1>2. /\ B \in SUBSET Objects /\ A \subseteq B
      /\ C \in SUBSET Objects /\ B \subseteq C
      /\ D \in SUBSET Objects /\ C \subseteq D
  BY <1>1, DoomedIs
<1>3. \A x \in B : Height(x) > 2 => x \in A
  <2> SUFFICES ASSUME NEW x \in B, Height(x) > 2, x \notin A
               PROVE  FALSE
    OBVIOUS
  <2>1. From(h, FieldsOf(A), x) # {} /\ x \in Objects
    BY <1>1, <1>2, DoomedIs
  <2>2. PICK f \in Fields : h.ptr[f] = x
    BY <1>1, <2>1, OwnFields DEF From
  <2>3. Height(x) < Height(f[1])
    BY <2>1, <2>2, NoObject DEF Graded, Fits
  <2>4. Height(f[1]) \in 1..3 /\ Height(x) \in 0..3
    BY <2>1, OwnerHeight, HeightType
  <2>5. QED
    BY <2>3, <2>4
<1>4. \A x \in C : Height(x) >= 2 => x \in B
  BY <1>1, <1>3, DoomedRound
<1>5. \A x \in C : Height(x) > 1 => x \in B
  BY <1>2, <1>4, HeightType
<1>6. \A x \in D : Height(x) >= 1 => x \in C
  BY <1>2, <1>5, DoomedRound
<1>7. FieldsOf(D) = FieldsOf(C)
  <2>1. ASSUME NEW f \in Fields PROVE f[1] \in D <=> f[1] \in C
    <3>1. Height(f[1]) >= 1
      BY OwnerHeight
    <3>2. QED
      BY <1>2, <1>6, <3>1
  <2>2. QED
    BY <1>2, <2>1, OwnFields
<1>8. ASSUME NEW E \in SUBSET Objects, E \subseteq D, NEW x \in Doomed(h, E),
             x \notin E
      PROVE  Names(h, x) \subseteq FieldsOf(D)
  <2>1. x \in Objects /\ h.refs[x] = Cardinality(From(h, FieldsOf(E), x))
    BY <1>8, DoomedIs
  <2>2. FieldsOf(E) \in SUBSET Fields /\ FieldsOf(E) \subseteq FieldsOf(D)
    BY <1>2, <1>8, OwnFields
  <2>3. /\ Cardinality(Names(h, x)) \in Nat
        /\ g[x] \in Nat
        /\ h.refs[x] = g[x] + Cardinality(Names(h, x))
    BY <2>1, Counted DEF GameType
  <2>4. /\ Cardinality(From(h, FieldsOf(E), x)) \in Nat
        /\ Cardinality(From(h, FieldsOf(E), x)) <= Cardinality(Names(h, x))
    BY <2>2, FromFinite, FromNames
  <2>5. Cardinality(From(h, FieldsOf(E), x)) = Cardinality(Names(h, x))
    BY <2>1, <2>3, <2>4
  <2>6. Names(h, x) = From(h, FieldsOf(E), x)
    BY <2>2, <2>5, FromNames
  <2>7. QED
    BY <2>2, <2>6 DEF From
<1>9. ASSUME NEW x \in D PROVE Names(h, x) \subseteq FieldsOf(D)
  <2>1. CASE x \in A
    <3>1. Names(h, x) = {}
      BY <1>1, <2>1, Counted DEF Gone
    <3>2. QED
      BY <3>1
  <2>2. QED
    BY <1>1, <1>2, <1>8, <2>1
<1>10. ASSUME NEW x \in D
       PROVE  h.refs[x] = Cardinality(From(h, FieldsOf(D), x))
  <2>1. From(h, FieldsOf(D), x) = Names(h, x)
    BY <1>2, <1>9, OwnFields DEF From, Names
  <2>2. CASE x \in A
    <3>1. h.refs[x] = 0 /\ Names(h, x) = {}
      BY <1>1, <2>2, Counted DEF Gone
    <3>2. QED
      BY <2>1, <3>1, FS_EmptySet
  <2>3. ASSUME NEW E \in SUBSET Objects, E \subseteq D, x \in Doomed(h, E),
               x \notin E
        PROVE  h.refs[x] = Cardinality(Names(h, x))
    <3>1. h.refs[x] = Cardinality(From(h, FieldsOf(E), x))
      BY <2>3, DoomedIs
    <3>2. FieldsOf(E) \in SUBSET Fields
      BY OwnFields
    <3>3. /\ x \in Objects
          /\ Cardinality(Names(h, x)) \in Nat
          /\ g[x] \in Nat
          /\ h.refs[x] = g[x] + Cardinality(Names(h, x))
      BY <1>2, Counted DEF GameType
    <3>4. /\ Cardinality(From(h, FieldsOf(E), x)) \in Nat
          /\ Cardinality(From(h, FieldsOf(E), x)) <= Cardinality(Names(h, x))
      BY <3>2, FromFinite, FromNames
    <3>5. QED
      BY <3>1, <3>3, <3>4
  <2>4. QED
    BY <1>1, <1>2, <2>1, <2>2, <2>3
<1>11. ASSUME NEW x \in Objects,
              h.refs[x] = Cardinality(From(h, FieldsOf(D), x)),
              h.refs[x] # 0
       PROVE  x \in D
  <2>1. h.refs[x] = Cardinality(From(h, FieldsOf(C), x))
    BY <1>7, <1>11
  <2>2. From(h, FieldsOf(C), x) # {}
    BY <1>11, <2>1, FS_EmptySet
  <2>3. QED
    BY <1>2, <2>1, <2>2, DoomedIs
<1>12. D = Freed3(h, S)
  BY DEF Freed3
<1> HIDE DEF A, B, C, D
<1>13. QED
  BY <1>2, <1>9, <1>10, <1>11, <1>12 DEF A

LEMMA SettleIs ==
  ASSUME NEW h, NEW S
  PROVE  Settle(h, S) = IF Gone(h, S) = {} THEN h ELSE Free(h, Freed3(h, S))
<1>1. UNION {{o} : o \in {x \in S : h.refs[x] = 0}} = Gone(h, S)
  BY DEF Gone
<1>2. QED
  BY <1>1 DEF Settle, Freed3

LEMMA TheFields ==
  ASSUME NEW o \in Objects
  PROVE  /\ Kind[o] = "query" => The(o, "device") \in Fields
         /\ Kind[o] = "device" =>
              /\ The(o, "swapchain") \in Fields
              /\ The(o, "parent") \in Fields
              /\ The(o, "rt") \in Fields
              /\ The(o, "vdecl") \in Fields
         /\ Kind[o] = "swapchain" => The(o, "backbuffer") \in Fields
         /\ \A role : The(o, role)[1] = o
<1>1. 0 \in 0..(1 - 1) /\ 0 \in 0..(RenderTargets - 1)
  BY ObjectsAssumption
<1>2. CASE Kind[o] = "query"
  BY <1>1, <1>2, AtField DEF Width, The, At
<1>3. CASE Kind[o] = "device"
  BY <1>1, <1>3, AtField DEF Width, The, At
<1>4. CASE Kind[o] = "swapchain"
  BY <1>1, <1>4, AtField DEF Width, The, At
<1>5. QED
  BY <1>2, <1>3, <1>4 DEF The, At

\* Free of the objects that nothing else refers to.
LEMMA FreeGood ==
  ASSUME NEW h, NEW g, NEW S, NEW X, Good(h, g, S, X)
  PROVE  Good(Free(h, Freed3(h, S)), g, {}, X)
<1> DEFINE D == Freed3(h, S)
           k == Free(h, D)
<1> USE DEF Good
<1>1. /\ D \in SUBSET Objects
      /\ Gone(h, S) \subseteq D
      /\ \A x \in D : Names(h, x) \subseteq FieldsOf(D)
      /\ \A x \in D : h.refs[x] = Cardinality(From(h, FieldsOf(D), x))
      /\ \A x \in Objects :
           h.refs[x] = Cardinality(From(h, FieldsOf(D), x))
             => h.refs[x] = 0 \/ x \in D
  BY FreedObjects
<1>2. /\ FieldsOf(D) = {f \in Fields : f[1] \in D}
      /\ FieldsOf(D) \in SUBSET Fields
  BY <1>1, OwnFields
<1> HIDE DEF D
<1>3. /\ k \in HeapType
      /\ \A o \in Objects :
           k.refs[o] = h.refs[o] - Cardinality(From(h, FieldsOf(D), o))
      /\ \A f \in Fields : k.ptr[f] = IF f[1] \in D THEN Null ELSE h.ptr[f]
      /\ \A s \in Surfaces :
           k.container[s] = IF \/ s \in D
                               \/ \E f \in Fields : /\ f[1] \in D
                                                    /\ Kind[f[1]] \in Containers
                                                    /\ h.ptr[f] = s
                              THEN Null ELSE h.container[s]
      /\ \A o \in Objects :
           k.device[o] = IF o \in D THEN Null
                         ELSE IF h.device[o] \in D THEN Freed ELSE h.device[o]
  BY <1>1, FreeFields
<1> HIDE DEF k
<1>4. Counts(k, g)
  <2>1. \A f \in Fields :
          k.ptr[f] = IF f \in FieldsOf(D) THEN Null ELSE h.ptr[f]
    BY <1>2, <1>3
  <2>2. QED
    BY <1>2, <1>3, <2>1, DropCounts
<1>5. \A x \in Objects : k.refs[x] \in Nat /\ h.refs[x] \in Nat
  BY <1>3, <1>4, Counted
<1>6. \A x \in Objects : Cardinality(From(h, FieldsOf(D), x)) \in Nat
  BY <1>2, FromFinite
<1>7. \A x \in Objects : k.refs[x] = 0 <=> h.refs[x] = 0 \/ x \in D
  BY <1>1, <1>3, <1>5, <1>6
<1>8. Graded(k)
  BY <1>3 DEF Graded
<1>9. EmptyWhenDead(k, {})
  <2> SUFFICES ASSUME NEW f \in Fields, k.refs[f[1]] = 0, f[1] \notin D
               PROVE  h.ptr[f] = Null
    BY <1>3 DEF EmptyWhenDead
  <2>1. f[1] \in Objects /\ h.refs[f[1]] = 0
    BY <1>7, FieldForm
  <2>2. f[1] \notin S
    BY <1>1, <2>1 DEF Gone
  <2>3. QED
    BY <2>1, <2>2 DEF EmptyWhenDead
<1>10. DevicesLive(k, {})
  <2> SUFFICES ASSUME NEW o \in Objects, k.device[o] \in Objects
               PROVE  /\ Kind[k.device[o]] = "device"
                      /\ k.refs[k.device[o]] > 0
    BY DEF DevicesLive
  <2>1. k.device[o] = h.device[o] /\ h.device[o] \notin D
    BY <1>3, NoObject
  <2>2. /\ Kind[h.device[o]] = "device"
        /\ h.refs[h.device[o]] > 0 \/ h.device[o] \in S
    BY <2>1 DEF DevicesLive
  <2>3. h.refs[h.device[o]] # 0
    BY <1>1, <2>1, <2>2 DEF Gone
  <2>4. k.refs[k.device[o]] # 0
    BY <1>7, <2>1, <2>3
  <2>5. QED
    BY <1>5, <2>1, <2>2, <2>4
<1>11. Contained(k)
  <2> SUFFICES ASSUME NEW s \in Surfaces, k.container[s] # Null
               PROVE  /\ Kind[k.container[s]] \in Containers
                      /\ \E f \in Fields : k.ptr[f] = s /\ f[1] = k.container[s]
    BY DEF Contained
  <2>1. /\ k.container[s] = h.container[s]
        /\ ~ \E f \in Fields :
               f[1] \in D /\ Kind[f[1]] \in Containers /\ h.ptr[f] = s
    BY <1>3
  <2>2. PICK f \in Fields : h.ptr[f] = s /\ f[1] = h.container[s]
    BY <2>1 DEF Contained
  <2>3. Kind[h.container[s]] \in Containers
    BY <2>1 DEF Contained
  <2>4. f[1] \notin D
    BY <2>1, <2>2, <2>3
  <2>5. QED
    BY <1>3, <2>1, <2>2, <2>3, <2>4
<1>12. Complete(k, X)
  <2> SUFFICES ASSUME NEW o \in Objects \ X, k.refs[o] > 0
               PROVE  /\ Kind[o] = "query" => k.device[o] = k.ptr[The(o, "device")]
                      /\ Kind[o] = "device" =>
                           /\ k.ptr[The(o, "swapchain")] # Null
                           /\ k.device[k.ptr[The(o, "swapchain")]] = o
    BY DEF Complete
  <2>1. o \notin D /\ h.refs[o] > 0
    BY <1>5, <1>7
  <2>2. \A f \in Fields : f[1] = o => k.ptr[f] = h.ptr[f] /\ h.ptr[f] \notin D
    <3> SUFFICES ASSUME NEW f \in Fields, f[1] = o, h.ptr[f] \in D
                 PROVE  FALSE
      BY <1>3, <2>1
    <3>1. f \in Names(h, h.ptr[f])
      BY DEF Names, From
    <3>2. f \in FieldsOf(D)
      BY <1>1, <3>1
    <3>3. QED
      BY <1>2, <2>1, <3>2
  <2>3. CASE Kind[o] = "query"
    <3>1. The(o, "device") \in Fields /\ The(o, "device")[1] = o
      BY <2>3, TheFields
    <3>2. h.device[o] = h.ptr[The(o, "device")]
      BY <2>1, <2>3 DEF Complete
    <3>3. QED
      BY <1>3, <2>1, <2>2, <2>3, <3>1, <3>2
  <2>4. CASE Kind[o] = "device"
    <3> DEFINE c == h.ptr[The(o, "swapchain")]
    <3>1. The(o, "swapchain") \in Fields /\ The(o, "swapchain")[1] = o
      BY <2>4, TheFields
    <3>2. c # Null /\ h.device[c] = o
      BY <2>1, <2>4 DEF Complete
    <3>3. c \in Objects
      BY <3>1, <3>2 DEF HeapType
    <3>4. k.ptr[The(o, "swapchain")] = c /\ c \notin D
      BY <2>2, <3>1
    <3>5. k.device[c] = o
      BY <1>3, <2>1, <3>2, <3>3, <3>4
    <3>6. QED
      BY <2>4, <3>2, <3>4, <3>5
  <2>5. QED
    BY <2>3, <2>4
<1>13. QED
  BY <1>3, <1>4, <1>8, <1>9, <1>10, <1>11, <1>12 DEF k, D

LEMMA SettleGood ==
  ASSUME NEW h, NEW g, NEW S, NEW X, Good(h, g, S, X)
  PROVE  /\ Good(Settle(h, S), g, {}, X)
         /\ \A f \in Fields : Settle(h, S).ptr[f] \in {h.ptr[f], Null}
<1> USE DEF Good
<1>1. CASE Gone(h, S) = {}
  <2>1. Settle(h, S) = h
    BY <1>1, SettleIs
  <2>2. \A o \in S : h.refs[o] > 0
    BY <1>1, Counted DEF Gone
  <2>3. EmptyWhenDead(h, {})
    BY <2>2, FieldForm DEF EmptyWhenDead
  <2>4. DevicesLive(h, {})
    BY <2>2 DEF DevicesLive
  <2>5. QED
    BY <2>1, <2>3, <2>4
<1>2. CASE Gone(h, S) # {}
  <2>1. Settle(h, S) = Free(h, Freed3(h, S))
    BY <1>2, SettleIs
  <2>2. \A f \in Fields : Free(h, Freed3(h, S)).ptr[f] \in {h.ptr[f], Null}
    BY FreedObjects, FreeFields
  <2>3. QED
    BY <2>1, <2>2, FreeGood
<1>3. QED
  BY <1>1, <1>2

-----------------------------------------------------------------------------
\* The other steps.

LEMMA SurfacesAre == Surfaces = {o \in Objects : Kind[o] = "surface"}
BY DEF Surfaces, Of

LEMMA RefsUpdate ==
  ASSUME NEW h \in HeapType, NEW o \in Objects, NEW v \in Int,
         NEW k, k = [h EXCEPT !.refs[o] = v]
  PROVE  /\ k \in HeapType
         /\ k.ptr = h.ptr /\ k.container = h.container /\ k.device = h.device
         /\ k.refs[o] = v
         /\ \A x \in Objects \ {o} : k.refs[x] = h.refs[x]
<1> DEFINE r == [h.refs EXCEPT ![o] = v]
<1>1. /\ r \in [Objects -> Int]
      /\ r[o] = v
      /\ \A x \in Objects \ {o} : r[x] = h.refs[x]
  BY DEF HeapType
<1>2. k = [h EXCEPT !.refs = r]
  BY DEF HeapType
<1> HIDE DEF r
<1>3. QED
  BY <1>1, <1>2 DEF HeapType

\* Only the count of o has changed, by as much as what is held of it.
LEMMA CountChange ==
  ASSUME NEW h \in HeapType, NEW g \in GameType, Counts(h, g),
         NEW o \in Objects, NEW k, NEW j \in GameType,
         k.ptr = h.ptr,
         k.refs[o] - h.refs[o] = j[o] - g[o], k.refs[o] \in Int,
         \A x \in Objects \ {o} : k.refs[x] = h.refs[x] /\ j[x] = g[x]
  PROVE  Counts(k, j)
<1> SUFFICES ASSUME NEW x \in Objects
             PROVE  k.refs[x] = j[x] + Cardinality(Names(k, x))
  BY DEF Counts
<1>1. Names(k, x) = Names(h, x)
  BY DEF Names, From
<1>2. /\ h.refs[x] = g[x] + Cardinality(Names(h, x))
      /\ Cardinality(Names(h, x)) \in Nat
      /\ g[x] \in Nat /\ j[x] \in Nat /\ h.refs[x] \in Nat
  BY Counted DEF GameType
<1>3. QED
  BY <1>1, <1>2

\* One reference more or less for the game, and a pointer stored in a field.
More(g, o) == [g EXCEPT ![o] = @ + 1]
Less(g, o) == [g EXCEPT ![o] = @ - 1]
Point(h, f, o) == [h EXCEPT !.ptr[f] = o]

LEMMA MoreLess ==
  ASSUME NEW g \in GameType, NEW o \in Objects
  PROVE  /\ More(g, o) \in GameType
         /\ More(g, o)[o] = g[o] + 1
         /\ More(g, o)[o] > 0
         /\ \A x \in Objects \ {o} : More(g, o)[x] = g[x]
         /\ Less(More(g, o), o) = g
<1>1. /\ More(g, o) \in GameType
      /\ More(g, o)[o] = g[o] + 1
      /\ More(g, o)[o] > 0
      /\ \A x \in Objects \ {o} : More(g, o)[x] = g[x]
  BY DEF GameType, More
<1>2. Less(More(g, o), o) = [More(g, o) EXCEPT ![o] = (g[o] + 1) - 1]
  BY <1>1 DEF Less
<1>3. g[o] \in Nat /\ (g[o] + 1) - 1 = g[o]
  BY DEF GameType
<1>4. Less(More(g, o), o) \in GameType
  BY <1>1, <1>2, <1>3 DEF GameType
<1>5. \A x \in Objects : Less(More(g, o), o)[x] = g[x]
  BY <1>1, <1>2, <1>3 DEF GameType
<1>6. Less(More(g, o), o) = g
  BY <1>4, <1>5 DEF GameType
<1>7. QED
  BY <1>1, <1>6

LEMMA MoreCommute ==
  ASSUME NEW g \in GameType, NEW o \in Objects, NEW x \in Objects, o # x
  PROVE  More(More(g, o), x) = More(More(g, x), o)
BY DEF GameType, More

LEMMA AddRefGood ==
  ASSUME NEW h, NEW g, NEW S, NEW X, Good(h, g, S, X),
         NEW o \in Objects, h.refs[o] > 0
  PROVE  /\ Good(SafeAddRef(h, o), More(g, o), S, X)
         /\ SafeAddRef(h, o).ptr = h.ptr
         /\ SafeAddRef(h, o).device = h.device
         /\ \A x \in Objects : SafeAddRef(h, o).refs[x] >= h.refs[x]
<1> DEFINE k == SafeAddRef(h, o)
           j == More(g, o)
<1> USE DEF Good
<1>1. k = [h EXCEPT !.refs[o] = h.refs[o] + 1]
  BY NoObject DEF SafeAddRef
<1>2. /\ j \in GameType
      /\ j[o] = g[o] + 1
      /\ \A x \in Objects \ {o} : j[x] = g[x]
      /\ g[o] \in Nat /\ h.refs[o] + 1 \in Int /\ h.refs[o] \in Int
  BY DEF GameType, HeapType, More
<1> HIDE DEF k, j
<1>3. /\ k \in HeapType /\ Counts(k, j)
      /\ k.ptr = h.ptr /\ k.container = h.container /\ k.device = h.device
      /\ k.refs[o] = h.refs[o] + 1
      /\ \A x \in Objects \ {o} : k.refs[x] = h.refs[x]
  BY <1>1, <1>2, RefsUpdate, CountChange
<1>4. \A x \in Objects : h.refs[x] \in Nat
  BY Counted
<1>5. \A x \in Objects : k.refs[x] >= h.refs[x] /\ (k.refs[x] > 0 <=> h.refs[x] > 0)
  BY <1>3, <1>4
<1>6. Graded(k)
  BY <1>3 DEF Graded
<1>7. EmptyWhenDead(k, S)
  BY <1>3, <1>4, <1>5, FieldForm DEF EmptyWhenDead
<1>8. DevicesLive(k, S)
  BY <1>3, <1>5 DEF DevicesLive
<1>9. Contained(k)
  BY <1>3 DEF Contained
<1>10. Complete(k, X)
  BY <1>3, <1>5 DEF Complete
<1>11. QED
  BY <1>2, <1>3, <1>5, <1>6, <1>7, <1>8, <1>9, <1>10 DEF k, j

LEMMA ReleaseGood ==
  ASSUME NEW h, NEW g, NEW X, Good(h, g, {}, X),
         NEW o \in Objects, g[o] > 0
  PROVE  /\ Good(Release(h, o), Less(g, o), {}, X)
         /\ \A f \in Fields : Release(h, o).ptr[f] \in {h.ptr[f], Null}
<1> DEFINE k == [h EXCEPT !.refs[o] = @ - 1]
           j == Less(g, o)
<1> USE DEF Good
<1>1. /\ j \in GameType
      /\ j[o] = g[o] - 1
      /\ \A x \in Objects \ {o} : j[x] = g[x]
      /\ g[o] \in Nat /\ h.refs[o] - 1 \in Int /\ h.refs[o] \in Int
  BY DEF GameType, HeapType, Less
<1>2. k = [h EXCEPT !.refs[o] = h.refs[o] - 1] /\ Release(h, o) = Settle(k, {o})
  BY DEF Release
<1> HIDE DEF k, j
<1>3. /\ k \in HeapType /\ Counts(k, j)
      /\ k.ptr = h.ptr /\ k.container = h.container /\ k.device = h.device
      /\ k.refs[o] = h.refs[o] - 1
      /\ \A x \in Objects \ {o} : k.refs[x] = h.refs[x]
  BY <1>1, <1>2, RefsUpdate, CountChange
<1>5. \A x \in Objects : h.refs[x] \in Nat /\ k.refs[x] \in Nat
  BY <1>3, Counted
<1>6. Graded(k)
  BY <1>3 DEF Graded
<1>7. EmptyWhenDead(k, {o})
  BY <1>3, FieldForm DEF EmptyWhenDead
<1>8. DevicesLive(k, {o})
  BY <1>3 DEF DevicesLive
<1>9. Contained(k)
  BY <1>3 DEF Contained
<1>10. Complete(k, X)
  BY <1>3, <1>5 DEF Complete
<1>11. Good(k, j, {o}, X)
  BY <1>1, <1>3, <1>6, <1>7, <1>8, <1>9, <1>10
<1>12. /\ Good(Settle(k, {o}), j, {}, X)
       /\ \A f \in Fields : Settle(k, {o}).ptr[f] \in {k.ptr[f], Null}
  BY <1>11, SettleGood
<1>13. QED
  BY <1>2, <1>3, <1>12 DEF j

\* What the fields F refer to.
LetGo(h, F) == {h.ptr[f] : f \in F} \ {Null}

\* Bindings of devices are emptied; a device loses its swap chain only if it
\* is in X.
LEMMA DropGood ==
  ASSUME NEW h, NEW g, NEW X, Good(h, g, {}, X), NEW F \in SUBSET Fields,
         \A f \in F : /\ Kind[f[1]] = "device"
                      /\ f = The(f[1], "swapchain") => f[1] \in X
  PROVE  /\ Good(Drop(h, F), g, LetGo(h, F), X)
         /\ \A o \in Objects \ LetGo(h, F) : Drop(h, F).refs[o] = h.refs[o]
         /\ \A f \in Fields : Drop(h, F).ptr[f] = IF f \in F THEN Null ELSE h.ptr[f]
<1> DEFINE k == Drop(h, F)
           S == LetGo(h, F)
<1> USE DEF Good
<1>1. /\ k \in HeapType
      /\ \A o \in Objects : k.refs[o] = h.refs[o] - Cardinality(From(h, F, o))
      /\ \A f \in Fields : k.ptr[f] = IF f \in F THEN Null ELSE h.ptr[f]
      /\ k.container = h.container
      /\ k.device = h.device
  BY DropFields
<1>3. S \in SUBSET Objects
  BY DEF HeapType, LetGo
<1>4. \A o : o \in S <=> o # Null /\ \E f \in F : h.ptr[f] = o
  BY DEF LetGo
<1> HIDE DEF k, S
<1>5. Counts(k, g)
  BY <1>1, DropCounts
<1>6. \A o \in Objects : h.refs[o] \in Nat /\ k.refs[o] \in Nat
  BY <1>1, <1>5, Counted
<1>7. ASSUME NEW o \in Objects, o \notin S PROVE k.refs[o] = h.refs[o]
  <2>1. From(h, F, o) = {}
    BY <1>4, <1>7, NoObject DEF From
  <2>2. Cardinality(From(h, F, o)) = 0
    BY <2>1, FromFinite
  <2>3. QED
    BY <1>1, <1>6, <2>2
<1>8. \A o \in Objects : k.refs[o] > 0 => h.refs[o] > 0
  <2> SUFFICES ASSUME NEW o \in Objects, k.refs[o] > 0 PROVE h.refs[o] > 0
    OBVIOUS
  <2>1. Cardinality(From(h, F, o)) \in Nat
    BY FromFinite
  <2>2. QED
    BY <1>1, <1>6, <2>1
<1>9. Graded(k)
  BY <1>1 DEF Graded
<1>10. EmptyWhenDead(k, S)
  BY <1>1, <1>7, FieldForm DEF EmptyWhenDead
<1>11. DevicesLive(k, S)
  BY <1>1, <1>7 DEF DevicesLive
<1>12. Contained(k)
  <2> SUFFICES ASSUME NEW s \in Surfaces, h.container[s] # Null
               PROVE  /\ Kind[h.container[s]] \in Containers
                      /\ \E f \in Fields : k.ptr[f] = s /\ f[1] = h.container[s]
    BY <1>1 DEF Contained
  <2>1. /\ Kind[h.container[s]] \in Containers
        /\ \E f \in Fields : h.ptr[f] = s /\ f[1] = h.container[s]
    BY DEF Contained
  <2>2. \A f \in Fields : f[1] = h.container[s] => f \notin F
    BY <2>1 DEF Containers
  <2>3. QED
    BY <1>1, <2>1, <2>2
<1>13. Complete(k, X)
  <2> SUFFICES ASSUME NEW o \in Objects \ X, k.refs[o] > 0
               PROVE  /\ Kind[o] = "query" => h.device[o] = k.ptr[The(o, "device")]
                      /\ Kind[o] = "device" =>
                           /\ k.ptr[The(o, "swapchain")] # Null
                           /\ h.device[k.ptr[The(o, "swapchain")]] = o
    BY <1>1 DEF Complete
  <2>1. /\ Kind[o] = "query" => h.device[o] = h.ptr[The(o, "device")]
        /\ Kind[o] = "device" =>
             /\ h.ptr[The(o, "swapchain")] # Null
             /\ h.device[h.ptr[The(o, "swapchain")]] = o
    BY <1>8 DEF Complete
  <2>2. Kind[o] = "query" => k.ptr[The(o, "device")] = h.ptr[The(o, "device")]
    BY <1>1, TheFields
  <2>3. Kind[o] = "device" =>
          k.ptr[The(o, "swapchain")] = h.ptr[The(o, "swapchain")]
    BY <1>1, TheFields
  <2>4. QED
    BY <2>1, <2>2, <2>3
<1>14. QED
  BY <1>1, <1>3, <1>5, <1>7, <1>9, <1>10, <1>11, <1>12, <1>13 DEF k, S

LEMMA ClearGood ==
  ASSUME NEW h, NEW g, NEW X, Good(h, g, {}, X), NEW F \in SUBSET Fields,
         \A f \in F : /\ Kind[f[1]] = "device"
                      /\ f = The(f[1], "swapchain") => f[1] \in X
  PROVE  /\ Good(Clear(h, F), g, {}, X)
         /\ \A f \in Fields : Clear(h, F).ptr[f] \in {h.ptr[f], Null}
         /\ \A f \in F : Clear(h, F).ptr[f] = Null
<1>1. Clear(h, F) = Settle(Drop(h, F), LetGo(h, F))
  BY DEF Clear, LetGo
<1>2. /\ Good(Drop(h, F), g, LetGo(h, F), X)
      /\ \A f \in Fields : Drop(h, F).ptr[f] = IF f \in F THEN Null ELSE h.ptr[f]
  BY DropGood
<1>3. /\ Good(Settle(Drop(h, F), LetGo(h, F)), g, {}, X)
      /\ \A f \in Fields :
           Settle(Drop(h, F), LetGo(h, F)).ptr[f] \in {Drop(h, F).ptr[f], Null}
  BY <1>2, SettleGood
<1>4. QED
  BY <1>1, <1>2, <1>3

\* A reference somebody holds is stored in an empty field.
LEMMA PointGood ==
  ASSUME NEW h, NEW g, NEW S, NEW X, Good(h, g, S, X),
         NEW f \in Fields, h.ptr[f] = Null, h.refs[f[1]] > 0,
         NEW o \in Objects, g[o] > 0, Fits(f, o),
         Kind[f[1]] = "query" => f[1] \in X
  PROVE  /\ Good(Point(h, f, o), Less(g, o), S, X)
         /\ Point(h, f, o).ptr[f] = o
         /\ \A e \in Fields \ {f} : Point(h, f, o).ptr[e] = h.ptr[e]
         /\ Point(h, f, o).refs = h.refs
         /\ Point(h, f, o).device = h.device
<1> DEFINE k == Point(h, f, o)
           j == Less(g, o)
           p == [h.ptr EXCEPT ![f] = o]
<1> USE DEF Good
<1>1. /\ p \in [Fields -> Objects \cup {Null}]
      /\ p[f] = o
      /\ \A e \in Fields \ {f} : p[e] = h.ptr[e]
  BY DEF HeapType
<1>2. k = [h EXCEPT !.ptr = p]
  BY DEF HeapType, Point
<1>3. /\ j \in GameType
      /\ j[o] = g[o] - 1
      /\ \A x \in Objects \ {o} : j[x] = g[x]
  BY DEF GameType, Less
<1> HIDE DEF p, j, k
<1>4. /\ k \in HeapType
      /\ k.refs = h.refs /\ k.container = h.container /\ k.device = h.device
      /\ k.ptr[f] = o
      /\ \A e \in Fields \ {f} : k.ptr[e] = h.ptr[e]
  BY <1>1, <1>2 DEF HeapType
<1>5. Counts(k, j)
  <2> SUFFICES ASSUME NEW x \in Objects
               PROVE  k.refs[x] = j[x] + Cardinality(Names(k, x))
    BY DEF Counts
  <2>1. /\ h.refs[x] = g[x] + Cardinality(Names(h, x))
        /\ Cardinality(Names(h, x)) \in Nat
        /\ g[x] \in Nat
    BY Counted DEF GameType
  <2>2. CASE x = o
    <3>1. Names(k, x) = Names(h, x) \cup {f} /\ f \notin Names(h, x)
      BY <1>4, <2>2, NoObject DEF Names, From
    <3>2. IsFiniteSet(Names(h, x))
      BY FromFinite DEF Names
    <3>3. Cardinality(Names(k, x)) = Cardinality(Names(h, x)) + 1
      BY <3>1, <3>2, FS_AddElement
    <3>4. QED
      BY <1>3, <1>4, <2>1, <2>2, <3>3
  <2>3. CASE x # o
    <3>1. Names(k, x) = Names(h, x)
      BY <1>4, <2>3, NoObject DEF Names, From
    <3>2. QED
      BY <1>3, <1>4, <2>1, <2>3, <3>1
  <2>4. QED
    BY <2>2, <2>3
<1>6. Graded(k)
  BY <1>4 DEF Graded
<1>7. EmptyWhenDead(k, S)
  BY <1>4 DEF EmptyWhenDead
<1>8. DevicesLive(k, S)
  BY <1>4 DEF DevicesLive
<1>9. Contained(k)
  <2> SUFFICES ASSUME NEW s \in Surfaces, h.container[s] # Null
               PROVE  /\ Kind[h.container[s]] \in Containers
                      /\ \E e \in Fields : k.ptr[e] = s /\ e[1] = h.container[s]
    BY <1>4 DEF Contained
  <2>1. PICK e \in Fields : h.ptr[e] = s /\ e[1] = h.container[s]
    BY DEF Contained
  <2>2. e # f
    BY <2>1, NoObject, SurfacesAre
  <2>3. QED
    BY <1>4, <2>1, <2>2 DEF Contained
<1>10. Complete(k, X)
  <2> SUFFICES ASSUME NEW x \in Objects \ X, h.refs[x] > 0
               PROVE  /\ Kind[x] = "query" => h.device[x] = k.ptr[The(x, "device")]
                      /\ Kind[x] = "device" =>
                           /\ k.ptr[The(x, "swapchain")] # Null
                           /\ h.device[k.ptr[The(x, "swapchain")]] = x
    BY <1>4 DEF Complete
  <2>1. CASE Kind[x] = "query"
    <3>1. The(x, "device") \in Fields /\ The(x, "device") # f
      BY <2>1, TheFields
    <3>2. QED
      BY <1>4, <2>1, <3>1 DEF Complete
  <2>2. CASE Kind[x] = "device"
    <3>1. /\ h.ptr[The(x, "swapchain")] # Null
          /\ h.device[h.ptr[The(x, "swapchain")]] = x
      BY <2>2 DEF Complete
    <3>2. The(x, "swapchain") \in Fields /\ The(x, "swapchain") # f
      BY <2>2, <3>1, TheFields
    <3>3. QED
      BY <1>4, <2>2, <3>1, <3>2
  <2>3. QED
    BY <2>1, <2>2
<1>11. QED
  BY <1>3, <1>4, <1>5, <1>6, <1>7, <1>8, <1>9, <1>10 DEF k, j

\* A new object, with the reference that its creator holds.
LEMMA AllocateGood ==
  ASSUME NEW h, NEW g, NEW X, Good(h, g, {}, X),
         NEW o \in Objects, h.refs[o] = 0,
         NEW d \in Objects \cup {Null},
         d # Null => Kind[d] = "device" /\ h.refs[d] > 0,
         NEW Y \in SUBSET Objects, X \subseteq Y,
         Kind[o] \in {"query", "device"} => o \in Y
  PROVE  /\ Good(Allocate(h, o, d), More(g, o), {}, Y)
         /\ Allocate(h, o, d).refs[o] = 1
         /\ \A x \in Objects \ {o} : Allocate(h, o, d).refs[x] = h.refs[x]
         /\ Allocate(h, o, d).ptr = h.ptr
         /\ Allocate(h, o, d).device[o] = d
         /\ \A f \in Fields : f[1] = o => Allocate(h, o, d).ptr[f] = Null
<1> DEFINE k == Allocate(h, o, d)
           j == More(g, o)
           e == [h.device EXCEPT ![o] = d]
           r == [h.refs EXCEPT ![o] = 1]
<1> USE DEF Good
<1>1. /\ e \in [Objects -> Objects \cup {Null, Freed}]
      /\ e[o] = d
      /\ \A x \in Objects \ {o} : e[x] = h.device[x]
      /\ r \in [Objects -> Int]
      /\ r[o] = 1
      /\ \A x \in Objects \ {o} : r[x] = h.refs[x]
  BY DEF HeapType
<1>2. k = [h EXCEPT !.refs = r, !.device = e]
  BY DEF Allocate, HeapType
<1>3. /\ j \in GameType
      /\ j[o] = g[o] + 1
      /\ \A x \in Objects \ {o} : j[x] = g[x]
  BY DEF GameType, More
<1> HIDE DEF e, r, j
<1>4. /\ k \in HeapType
      /\ k.refs = r /\ k.device = e
      /\ k.ptr = h.ptr /\ k.container = h.container
  BY <1>1, <1>2 DEF HeapType
<1> HIDE DEF k
<1>5. /\ \A x \in Objects : h.refs[x] \in Nat
      /\ \A f \in Fields : h.ptr[f] \in Objects => h.refs[h.ptr[f]] > 0
      /\ g[o] = 0
  BY Counted
<1>6. Counts(k, j)
  <2>1. k.refs[o] - h.refs[o] = j[o] - g[o] /\ k.refs[o] \in Int
    BY <1>1, <1>3, <1>4, <1>5
  <2>2. QED
    BY <1>1, <1>3, <1>4, <2>1, CountChange
<1>7. Graded(k)
  BY <1>4 DEF Graded
<1>8. EmptyWhenDead(k, {})
  BY <1>1, <1>4, FieldForm DEF EmptyWhenDead
<1>9. DevicesLive(k, {})
  <2> SUFFICES ASSUME NEW x \in Objects, k.device[x] \in Objects
               PROVE  /\ Kind[k.device[x]] = "device"
                      /\ k.refs[k.device[x]] > 0
    BY DEF DevicesLive
  <2>1. CASE x = o
    BY <1>1, <1>4, <2>1, NoObject
  <2>2. CASE x # o
    <3>1. k.device[x] = h.device[x]
      BY <1>1, <1>4, <2>2
    <3>2. Kind[h.device[x]] = "device" /\ h.refs[h.device[x]] > 0
      BY <3>1 DEF DevicesLive
    <3>3. QED
      BY <1>1, <1>4, <3>1, <3>2
  <2>3. QED
    BY <2>1, <2>2
<1>10. Contained(k)
  BY <1>4 DEF Contained
<1>11. Complete(k, Y)
  <2> SUFFICES ASSUME NEW x \in Objects \ Y, k.refs[x] > 0
               PROVE  /\ Kind[x] = "query" => k.device[x] = k.ptr[The(x, "device")]
                      /\ Kind[x] = "device" =>
                           /\ k.ptr[The(x, "swapchain")] # Null
                           /\ k.device[k.ptr[The(x, "swapchain")]] = x
    BY DEF Complete
  <2>1. CASE x = o
    BY <2>1
  <2>2. CASE x # o
    <3>1. x \in Objects \ X /\ h.refs[x] > 0 /\ k.device[x] = h.device[x]
      BY <1>1, <1>4, <2>2
    <3>2. CASE Kind[x] = "query"
      BY <1>4, <3>1, <3>2 DEF Complete
    <3>3. CASE Kind[x] = "device"
      <4> DEFINE c == h.ptr[The(x, "swapchain")]
      <4>1. c # Null /\ h.device[c] = x
        BY <3>1, <3>3 DEF Complete
      <4>2. c \in Objects /\ h.refs[c] > 0
        BY <1>5, <3>3, <4>1, TheFields DEF HeapType
      <4>3. k.device[c] = h.device[c]
        BY <1>1, <1>4, <4>2
      <4>4. QED
        BY <1>4, <3>3, <4>1, <4>3
    <3>4. QED
      BY <3>2, <3>3
  <2>3. QED
    BY <2>1, <2>2
<1>12. \A f \in Fields : f[1] = o => k.ptr[f] = Null
  BY <1>4 DEF EmptyWhenDead
<1>13. QED
  BY <1>1, <1>3, <1>4, <1>6, <1>7, <1>8, <1>9, <1>10, <1>11, <1>12 DEF k, j

Made(F, part) == {part[f] : f \in F}

LEMMA AddPartsFields ==
  ASSUME NEW h \in HeapType, NEW c \in Objects, NEW d \in Objects \cup {Null},
         NEW F \in SUBSET Fields, NEW part \in [F -> Surfaces]
  PROVE  /\ AddParts(h, c, d, part) \in HeapType
         /\ \A o \in Objects : AddParts(h, c, d, part).refs[o] = IF o \in Made(F, part) THEN 1 ELSE h.refs[o]
         /\ \A f \in Fields : AddParts(h, c, d, part).ptr[f] = IF f \in F THEN part[f] ELSE h.ptr[f]
         /\ \A s \in Surfaces :
              AddParts(h, c, d, part).container[s] = IF s \in Made(F, part) THEN c ELSE h.container[s]
         /\ \A o \in Objects : AddParts(h, c, d, part).device[o] = IF o \in Made(F, part) THEN d ELSE h.device[o]
<1> DEFINE made == Made(F, part)
           r == [o \in Objects |-> IF o \in made THEN 1 ELSE h.refs[o]]
           p == [f \in Fields |-> IF f \in F THEN part[f] ELSE h.ptr[f]]
           t == [s \in Surfaces |-> IF s \in made THEN c ELSE h.container[s]]
           e == [o \in Objects |-> IF o \in made THEN d ELSE h.device[o]]
<1>1. /\ DOMAIN part = F /\ Surfaces \subseteq Objects
      /\ made = {part[f] : f \in F}
  BY SurfacesAre DEF Made
<1>2. r \in [Objects -> Int]
  BY DEF HeapType
<1>3. p \in [Fields -> Objects \cup {Null}]
  BY <1>1 DEF HeapType
<1>4. t \in [Surfaces -> Objects \cup {Null}]
  BY DEF HeapType
<1>5. e \in [Objects -> Objects \cup {Null, Freed}]
  BY DEF HeapType
<1>6. AddParts(h, c, d, part) = [refs |-> r, ptr |-> p, container |-> t, device |-> e]
  BY <1>1 DEF AddParts
<1>7. /\ \A o \in Objects : r[o] = IF o \in made THEN 1 ELSE h.refs[o]
      /\ \A f \in Fields : p[f] = IF f \in F THEN part[f] ELSE h.ptr[f]
      /\ \A s \in Surfaces : t[s] = IF s \in made THEN c ELSE h.container[s]
      /\ \A o \in Objects : e[o] = IF o \in made THEN d ELSE h.device[o]
  OBVIOUS
<1> HIDE DEF r, p, t, e
<1>8. QED
  BY <1>2, <1>3, <1>4, <1>5, <1>6, <1>7 DEF HeapType

\* New surfaces in empty fields of a container.
LEMMA AddPartsGood ==
  ASSUME NEW h, NEW g, NEW X, Good(h, g, {}, X),
         NEW c \in Objects, h.refs[c] > 0, Kind[c] \in Containers,
         NEW d \in Objects, Kind[d] = "device", h.refs[d] > 0,
         NEW F \in SUBSET Fields,
         \A f \in F : f[1] = c /\ h.ptr[f] = Null,
         NEW part \in PartsFor(h, F)
  PROVE  /\ Good(AddParts(h, c, d, part), g, {}, X)
         /\ \A o \in Objects \ Surfaces :
              /\ AddParts(h, c, d, part).refs[o] = h.refs[o]
              /\ AddParts(h, c, d, part).device[o] = h.device[o]
         /\ \A o \in Objects : AddParts(h, c, d, part).refs[o] >= h.refs[o]
         /\ \A f \in Fields :
              AddParts(h, c, d, part).ptr[f] = IF f \in F THEN part[f] ELSE h.ptr[f]
         /\ \A f \in F : /\ part[f] \in Surfaces
                        /\ AddParts(h, c, d, part).refs[part[f]] = 1
<1> DEFINE k == AddParts(h, c, d, part)
           made == Made(F, part)
<1>1. /\ part \in [F -> Surfaces]
      /\ \A f \in F : part[f] \in Surfaces /\ ~(h.refs[part[f]] > 0)
      /\ \A f, e \in F : part[f] = part[e] => f = e
  BY DEF PartsFor, Unused, Surfaces, Alive, Of
<1>2. /\ k \in HeapType
      /\ \A o \in Objects : k.refs[o] = IF o \in made THEN 1 ELSE h.refs[o]
      /\ \A f \in Fields : k.ptr[f] = IF f \in F THEN part[f] ELSE h.ptr[f]
      /\ \A s \in Surfaces :
           k.container[s] = IF s \in made THEN c ELSE h.container[s]
      /\ \A o \in Objects : k.device[o] = IF o \in made THEN d ELSE h.device[o]
  <2>1. h \in HeapType
    BY DEF Good
  <2>2. d \in Objects \cup {Null} /\ part \in [F -> Surfaces]
    BY <1>1
  <2> DEFINE l == AddParts(h, c, d, part)
             m == Made(F, part)
  <2>3. /\ l \in HeapType
        /\ \A o \in Objects : l.refs[o] = IF o \in m THEN 1 ELSE h.refs[o]
        /\ \A f \in Fields : l.ptr[f] = IF f \in F THEN part[f] ELSE h.ptr[f]
        /\ \A s \in Surfaces : l.container[s] = IF s \in m THEN c ELSE h.container[s]
        /\ \A o \in Objects : l.device[o] = IF o \in m THEN d ELSE h.device[o]
    <3> HIDE DEF k, made
    <3>1. QED
      BY <2>1, <2>2, AddPartsFields
  <2>4. QED
    BY <2>3
<1>3. /\ \A o : o \in made <=> \E f \in F : o = part[f]
      /\ made \subseteq Surfaces /\ Surfaces \subseteq Objects
      /\ \A s \in Surfaces : Kind[s] = "surface"
  BY <1>1, SurfacesAre DEF Made
<1> HIDE DEF k, made
<1> USE DEF Good
<1>4. \A o \in Objects : h.refs[o] \in Nat
  BY Counted
<1>5. \A o \in made : h.refs[o] = 0 /\ g[o] = 0 /\ Names(h, o) = {}
  BY <1>1, <1>3, <1>4, Counted
<1>6. \A f \in Fields : h.ptr[f] \notin made
  BY <1>5 DEF Names, From
<1>7. Counts(k, g)
  <2> SUFFICES ASSUME NEW o \in Objects
               PROVE  k.refs[o] = g[o] + Cardinality(Names(k, o))
    BY DEF Counts
  <2>1. CASE o \in made
    <3>1. PICK f \in F : o = part[f]
      BY <1>3, <2>1
    <3>2. Names(k, o) = {f}
      BY <1>1, <1>2, <1>6, <2>1, <3>1 DEF Names, From
    <3>3. Cardinality(Names(k, o)) = 1
      BY <3>2, FS_Singleton
    <3>4. k.refs[o] = 1 /\ g[o] = 0
      BY <1>2, <1>5, <2>1
    <3>5. QED
      BY <3>3, <3>4
  <2>2. CASE o \notin made
    <3>1. Names(k, o) = Names(h, o)
      BY <1>2, <1>3, <2>2, NoObject DEF Names, From
    <3>2. QED
      BY <1>2, <2>2, <3>1 DEF Counts
  <2>3. QED
    BY <2>1, <2>2
<1>8. Graded(k)
  <2> SUFFICES ASSUME NEW f \in F PROVE Fits(f, part[f])
    BY <1>2 DEF Graded
  <2>1. Kind[part[f]] = "surface"
    BY <1>1, <1>3
  <2>2. Height(part[f]) = 0
    BY <2>1 DEF Height, Containers
  <2>3. Height(part[f]) < Height(f[1])
    BY <2>2, OwnerHeight
  <2>4. QED
    BY <2>3 DEF Fits, Containers
<1>9. EmptyWhenDead(k, {})
  <2> SUFFICES ASSUME NEW f \in Fields, k.refs[f[1]] = 0
               PROVE  k.ptr[f] = Null
    BY DEF EmptyWhenDead
  <2>1. f[1] \in Objects
    BY FieldForm
  <2>2. f[1] \notin made /\ h.refs[f[1]] = 0
    BY <1>2, <2>1
  <2>3. f \notin F
    BY <2>2
  <2>4. QED
    BY <1>2, <2>2, <2>3 DEF EmptyWhenDead
<1>10. DevicesLive(k, {})
  <2> SUFFICES ASSUME NEW o \in Objects, k.device[o] \in Objects
               PROVE  /\ Kind[k.device[o]] = "device"
                      /\ k.refs[k.device[o]] > 0
    BY DEF DevicesLive
  <2>1. /\ Kind[k.device[o]] = "device"
        /\ h.refs[k.device[o]] > 0
    BY <1>2 DEF DevicesLive
  <2>2. k.device[o] \notin made
    BY <1>3, <2>1
  <2>3. QED
    BY <1>2, <2>1, <2>2
<1>11. Contained(k)
  <2> SUFFICES ASSUME NEW s \in Surfaces, k.container[s] # Null
               PROVE  /\ Kind[k.container[s]] \in Containers
                      /\ \E f \in Fields : k.ptr[f] = s /\ f[1] = k.container[s]
    BY DEF Contained
  <2>1. CASE s \in made
    BY <1>2, <1>3, <2>1
  <2>2. CASE s \notin made
    <3>1. k.container[s] = h.container[s]
      BY <1>2, <2>2
    <3>2. PICK f \in Fields : h.ptr[f] = s /\ f[1] = h.container[s]
      BY <3>1 DEF Contained
    <3>3. f \notin F
      BY <1>3, <3>2, NoObject
    <3>4. QED
      BY <1>2, <3>1, <3>2, <3>3 DEF Contained
  <2>3. QED
    BY <2>1, <2>2
<1>12. Complete(k, X)
  <2> SUFFICES ASSUME NEW x \in Objects \ X, k.refs[x] > 0,
                      Kind[x] \in {"query", "device"}
               PROVE  /\ Kind[x] = "query" => k.device[x] = k.ptr[The(x, "device")]
                      /\ Kind[x] = "device" =>
                           /\ k.ptr[The(x, "swapchain")] # Null
                           /\ k.device[k.ptr[The(x, "swapchain")]] = x
    BY DEF Complete
  <2>1. x \notin made
    BY <1>3
  <2>2. h.refs[x] > 0 /\ k.device[x] = h.device[x]
    BY <1>2, <2>1
  <2>3. x # c
    BY DEF Containers
  <2>4. CASE Kind[x] = "query"
    <3>1. The(x, "device") \in Fields /\ The(x, "device")[1] = x
      BY <2>4, TheFields
    <3>2. k.ptr[The(x, "device")] = h.ptr[The(x, "device")]
      BY <1>2, <2>3, <3>1
    <3>3. QED
      BY <2>2, <2>4, <3>2 DEF Complete
  <2>5. CASE Kind[x] = "device"
    <3> DEFINE b == h.ptr[The(x, "swapchain")]
    <3>1. The(x, "swapchain") \in Fields /\ The(x, "swapchain")[1] = x
      BY <2>5, TheFields
    <3>2. k.ptr[The(x, "swapchain")] = b
      BY <1>2, <2>3, <3>1
    <3>3. b # Null /\ h.device[b] = x
      BY <2>2, <2>5 DEF Complete
    <3>4. b \in Objects /\ b \notin made
      BY <1>6, <3>1, <3>3 DEF HeapType
    <3>5. QED
      BY <1>2, <2>5, <3>2, <3>3, <3>4
  <2>6. QED
    BY <2>4, <2>5
<1>13. \A o \in Objects : k.refs[o] >= h.refs[o]
  BY <1>2, <1>4, <1>5
<1>14. QED
  BY <1>1, <1>2, <1>3, <1>7, <1>8, <1>9, <1>10, <1>11, <1>12, <1>13 DEF k, made

-----------------------------------------------------------------------------
\* The calls that are made of several steps.

\* More objects may be incomplete, and one that is complete need not be in X.
LEMMA WeakenGood ==
  ASSUME NEW h, NEW g, NEW S, NEW X, Good(h, g, S, X),
         NEW Y \in SUBSET Objects, X \subseteq Y
  PROVE  Good(h, g, S, Y)
BY DEF Good, Complete

LEMMA CompletedGood ==
  ASSUME NEW h, NEW g, NEW S, NEW X, Good(h, g, S, X), NEW o \in Objects,
         h.refs[o] > 0 =>
           /\ Kind[o] = "query" => h.device[o] = h.ptr[The(o, "device")]
           /\ Kind[o] = "device" =>
                /\ h.ptr[The(o, "swapchain")] # Null
                /\ h.device[h.ptr[The(o, "swapchain")]] = o
  PROVE  Good(h, g, S, X \ {o})
<1>1. Complete(h, X \ {o})
  BY DEF Good, Complete
<1>2. QED
  BY <1>1 DEF Good

\* What the game holds, and what a field names, is allocated.
LEMMA HeldLives ==
  ASSUME NEW h, NEW g, NEW S, NEW X, Good(h, g, S, X), NEW o \in Objects
  PROVE  /\ h.refs[o] \in Nat
         /\ g[o] \in Nat
         /\ g[o] > 0 => h.refs[o] > 0
         /\ \A f \in Fields : h.ptr[f] = o => h.refs[o] > 0
<1>1. h \in HeapType /\ g \in GameType /\ Counts(h, g)
  BY DEF Good
<1>2. g[o] \in Nat
  BY <1>1 DEF GameType
<1>3. QED
  BY <1>1, <1>2, Counted

LEMMA BindGood ==
  ASSUME NEW h, NEW g, NEW X, Good(h, g, {}, X),
         NEW f \in Fields, Kind[f[1]] = "device", h.refs[f[1]] > 0,
         f # The(f[1], "swapchain"),
         NEW o \in Objects \cup {Null},
         o # Null => g[o] > 0 /\ Height(o) < 2
  PROVE  Good(Bind(h, f, o), g, {}, X)
<1>1. CASE h.ptr[f] = o
  BY <1>1 DEF Bind
<1>2. CASE h.ptr[f] # o /\ o = Null
  <2>1. Drop(SafeAddRef(h, o), {f}) = Drop(h, {f})
    BY <1>2 DEF SafeAddRef
  <2>2. /\ Good(Drop(h, {f}), g, LetGo(h, {f}), X)
        /\ Drop(h, {f}).ptr[f] = Null
    BY DropGood
  <2>3. LetGo(h, {f}) = {h.ptr[f]} \ {Null}
    BY DEF LetGo
  <2>4. [Drop(h, {f}) EXCEPT !.ptr[f] = Null] = Drop(h, {f})
    <3> DEFINE k == Drop(h, {f})
    <3>1. k \in HeapType /\ k.ptr[f] = Null
      BY <2>2 DEF Good
    <3> HIDE DEF k
    <3>2. [k EXCEPT !.ptr[f] = Null] = k
      BY <3>1 DEF HeapType
    <3>3. QED
      BY <3>2 DEF k
  <2>5. Bind(h, f, o) = Settle(Drop(h, {f}), LetGo(h, {f}))
    BY <1>2, <2>1, <2>3, <2>4 DEF Bind
  <2>6. QED
    BY <2>2, <2>5, SettleGood
<1>3. CASE h.ptr[f] # o /\ o # Null
  <2> DEFINE m == SafeAddRef(h, o)
             n == Drop(m, {f})
             S == {h.ptr[f]} \ {Null}
             k == Point(n, f, o)
  <2>0. g \in GameType /\ h \in HeapType
    BY DEF Good
  <2>1. o \in Objects /\ h.refs[o] > 0 /\ g[o] > 0 /\ Height(o) < 2
    BY <1>3, HeldLives
  <2>2. /\ Good(m, More(g, o), {}, X)
        /\ m.ptr = h.ptr
        /\ \A x \in Objects : m.refs[x] >= h.refs[x]
    BY <2>1, AddRefGood
  <2>3. LetGo(m, {f}) = S
    BY <2>2 DEF LetGo
  <2> HIDE DEF m
  <2>4. /\ Good(n, More(g, o), S, X)
        /\ \A x \in Objects \ S : n.refs[x] = m.refs[x]
        /\ n.ptr[f] = Null
    <3>1. /\ Good(n, More(g, o), LetGo(m, {f}), X)
          /\ \A x \in Objects \ LetGo(m, {f}) : n.refs[x] = m.refs[x]
          /\ n.ptr[f] = Null
      BY <2>2, DropGood
    <3>2. QED
      BY <2>3, <3>1
  <2> HIDE DEF n
  <2>5. f[1] \in Objects /\ f[1] \notin S
    <3>1. f[1] \in Objects
      BY FieldForm
    <3>2. h.ptr[f] # Null => Height(h.ptr[f]) < Height(f[1])
      BY DEF Good, Graded, Fits
    <3>3. f[1] \notin S
      <4> SUFFICES ASSUME h.ptr[f] = f[1], h.ptr[f] # Null PROVE FALSE
        OBVIOUS
      <4>1. Height(f[1]) \in Nat
        BY <3>1, HeightType
      <4>2. QED
        BY <3>2, <4>1
    <3>4. QED
      BY <3>1, <3>3
  <2>6. n.refs[f[1]] > 0
    <3>1. n.refs[f[1]] = m.refs[f[1]] /\ m.refs[f[1]] >= h.refs[f[1]]
      BY <2>2, <2>4, <2>5
    <3>2. n.refs[f[1]] \in Nat /\ h.refs[f[1]] \in Nat
      BY <2>4, <2>5, HeldLives
    <3>3. QED
      BY <3>1, <3>2
  <2>7. More(g, o)[o] > 0 /\ Less(More(g, o), o) = g
    BY <2>0, <2>1, MoreLess
  <2>8. Fits(f, o)
    <3>1. Height(f[1]) = 2
      BY DEF Height, Containers
    <3>2. QED
      BY <2>1, <3>1 DEF Fits
  <2>9. Good(k, g, S, X)
    <3>1. Good(k, Less(More(g, o), o), S, X)
      BY <2>1, <2>4, <2>6, <2>7, <2>8, PointGood
    <3>2. QED
      BY <2>7, <3>1
  <2>10. Bind(h, f, o) = Settle(k, S)
    BY <1>3 DEF Bind, Point, m, n
  <2>11. QED
    BY <2>9, <2>10, SettleGood
<1>4. QED
  BY <1>1, <1>2, <1>3

\* A swap chain and its back buffer for a device that has none.
LEMMA AddSwapChainGood ==
  ASSUME NEW h, NEW g, NEW X, Good(h, g, {}, X),
         NEW d \in X, Kind[d] = "device", h.refs[d] > 0,
         h.ptr[The(d, "swapchain")] = Null, h.ptr[The(d, "rt")] = Null,
         NEW c \in Objects, Kind[c] = "swapchain", h.refs[c] = 0,
         NEW b \in Objects, Kind[b] = "surface", h.refs[b] = 0
  PROVE  Good(AddSwapChain(h, d, c, b), g, {}, X \ {d})
<1> DEFINE F == {The(c, "backbuffer")}
           part == [f \in F |-> b]
           m1 == Allocate(h, c, d)
           m2 == AddParts(m1, c, d, part)
           m3 == SafeAddRef(m2, b)
           m4 == Point(m3, The(d, "swapchain"), c)
           m5 == Point(m4, The(d, "rt"), b)
           g1 == More(g, c)
           g2 == More(g1, b)
           g3 == More(g, b)
<1>1. /\ d \in Objects /\ X \in SUBSET Objects
      /\ g \in GameType /\ h \in HeapType
      /\ c # b /\ c # d
  BY DEF Good
<1>2. /\ The(d, "swapchain") \in Fields /\ The(d, "rt") \in Fields
      /\ The(d, "swapchain")[1] = d /\ The(d, "rt")[1] = d
      /\ The(d, "swapchain") # The(d, "rt")
      /\ The(c, "backbuffer") \in Fields /\ The(c, "backbuffer")[1] = c
  BY <1>1, TheFields DEF The, At
<1>3. /\ Good(m1, g1, {}, X)
      /\ m1.refs[c] = 1
      /\ \A x \in Objects \ {c} : m1.refs[x] = h.refs[x]
      /\ m1.ptr = h.ptr
      /\ m1.device[c] = d
      /\ \A f \in Fields : f[1] = c => m1.ptr[f] = Null
  <2>1. d # Null => Kind[d] = "device" /\ h.refs[d] > 0
    OBVIOUS
  <2>2. d \in Objects \cup {Null} /\ X \in SUBSET Objects /\ X \subseteq X
        /\ ~(Kind[c] \in {"query", "device"})
    BY <1>1
  <2>3. QED
    BY <2>1, <2>2, AllocateGood
<1>4. part \in PartsFor(m1, F) /\ part[The(c, "backbuffer")] = b
  <2>1. b \in Of("surface") /\ ~(m1.refs[b] > 0)
    BY <1>1, <1>3 DEF Of
  <2> HIDE DEF m1
  <2>2. b \in Unused(m1, "surface")
    BY <2>1 DEF Unused, Alive
  <2>3. QED
    BY <2>2 DEF PartsFor
<1>5. F \in SUBSET Fields /\ \A f \in F : f[1] = c /\ m1.ptr[f] = Null
  BY <1>2, <1>3
<1>6. /\ Good(m2, g1, {}, X)
      /\ \A o \in Objects \ Surfaces :
           m2.refs[o] = m1.refs[o] /\ m2.device[o] = m1.device[o]
      /\ \A f \in Fields : m2.ptr[f] = IF f \in F THEN part[f] ELSE m1.ptr[f]
      /\ m2.refs[b] = 1
  <2>1. m1.refs[c] > 0 /\ m1.refs[d] > 0 /\ Kind[c] \in Containers
    BY <1>1, <1>3 DEF Containers
  <2> HIDE DEF m1, part, F
  <2>2. /\ Good(m2, g1, {}, X)
        /\ \A o \in Objects \ Surfaces :
             m2.refs[o] = m1.refs[o] /\ m2.device[o] = m1.device[o]
        /\ \A f \in Fields : m2.ptr[f] = IF f \in F THEN part[f] ELSE m1.ptr[f]
        /\ \A f \in F : m2.refs[part[f]] = 1
    BY <1>1, <1>3, <1>4, <1>5, <2>1, AddPartsGood
  <2>3. m2.refs[b] = 1
    BY <1>4, <2>2 DEF F
  <2>4. QED
    BY <2>2, <2>3
<1>7. /\ m2.refs[d] > 0 /\ m2.device[c] = d
      /\ m2.ptr[The(d, "swapchain")] = Null /\ m2.ptr[The(d, "rt")] = Null
  <2>1. d \notin Surfaces /\ c \notin Surfaces
    BY SurfacesAre
  <2>2. The(d, "swapchain") \notin F /\ The(d, "rt") \notin F
    BY <1>1, <1>2
  <2>3. QED
    BY <1>1, <1>2, <1>3, <1>6, <2>1, <2>2
<1> HIDE DEF m1, m2, part, F
<1>8. /\ Good(m3, g2, {}, X)
      /\ m3.ptr = m2.ptr /\ m3.device = m2.device
      /\ m3.refs[d] > 0
  <2>1. /\ Good(m3, g2, {}, X)
        /\ m3.ptr = m2.ptr /\ m3.device = m2.device
        /\ \A x \in Objects : m3.refs[x] >= m2.refs[x]
    BY <1>6, AddRefGood
  <2>2. m3.refs[d] >= m2.refs[d] /\ m3.refs[d] \in Nat /\ m2.refs[d] \in Nat
    BY <1>1, <1>6, <2>1, HeldLives
  <2>3. QED
    BY <1>7, <2>1, <2>2
<1> HIDE DEF m3
<1>9. /\ g1 \in GameType /\ g2 = More(g3, c)
      /\ g3 \in GameType /\ g2[c] > 0 /\ Less(g2, c) = g3
      /\ g3[b] > 0 /\ Less(g3, b) = g
  BY <1>1, MoreLess, MoreCommute
<1> HIDE DEF g1, g2, g3
<1>10. Height(c) = 1 /\ Height(b) = 0 /\ Height(d) = 2
  BY DEF Height, Containers
<1>11. /\ Good(m4, g3, {}, X)
       /\ m4.ptr[The(d, "swapchain")] = c
       /\ m4.ptr[The(d, "rt")] = Null
       /\ m4.refs[d] > 0
       /\ m4.device[c] = d
  <2>1. /\ m3.ptr[The(d, "swapchain")] = Null /\ m3.ptr[The(d, "rt")] = Null
        /\ Fits(The(d, "swapchain"), c)
        /\ ~(Kind[The(d, "swapchain")[1]] = "query")
    BY <1>2, <1>7, <1>8, <1>10 DEF Fits
  <2>2. /\ Good(m4, Less(g2, c), {}, X)
        /\ m4.ptr[The(d, "swapchain")] = c
        /\ \A e \in Fields \ {The(d, "swapchain")} : m4.ptr[e] = m3.ptr[e]
        /\ m4.refs = m3.refs
        /\ m4.device = m3.device
    BY <1>2, <1>8, <1>9, <2>1, PointGood
  <2>3. QED
    BY <1>2, <1>7, <1>8, <1>9, <2>1, <2>2
<1> HIDE DEF m4
<1>12. /\ Good(m5, g, {}, X)
       /\ m5.ptr[The(d, "swapchain")] = c
       /\ m5.device[c] = d
  <2>1. /\ Fits(The(d, "rt"), b)
        /\ ~(Kind[The(d, "rt")[1]] = "query")
    BY <1>2, <1>10 DEF Fits
  <2>2. /\ Good(m5, Less(g3, b), {}, X)
        /\ \A e \in Fields \ {The(d, "rt")} : m5.ptr[e] = m4.ptr[e]
        /\ m5.device = m4.device
    BY <1>2, <1>9, <1>11, <2>1, PointGood
  <2>3. QED
    BY <1>2, <1>9, <1>11, <2>2
<1> HIDE DEF m5
<1>13. Good(m5, g, {}, X \ {d})
  BY <1>1, <1>12, CompletedGood, NoObject
<1>14. AddSwapChain(h, d, c, b) = m5
  BY DEF AddSwapChain, m5, m4, m3, m2, m1, part, F, Point
<1>15. QED
  BY <1>13, <1>14

\* A new device, which has no swap chain yet.
LEMMA NewDeviceGood ==
  ASSUME NEW h, NEW g, NEW X, Good(h, g, {}, X),
         NEW p \in Objects, Kind[p] = "d3d9", h.refs[p] > 0,
         NEW d \in Objects, Kind[d] = "device", h.refs[d] = 0
  PROVE  /\ Good(NewDevice(h, p, d), More(g, d), {}, X \cup {d})
         /\ NewDevice(h, p, d).refs[d] = 1
         /\ \A x \in Objects \ {p, d} : NewDevice(h, p, d).refs[x] = h.refs[x]
         /\ NewDevice(h, p, d).ptr[The(d, "swapchain")] = Null
         /\ NewDevice(h, p, d).ptr[The(d, "rt")] = Null
         /\ \A f \in Fields : NewDevice(h, p, d).ptr[f] # d
<1> DEFINE Y == X \cup {d}
           m1 == Allocate(h, d, Null)
           m2 == SafeAddRef(m1, p)
           m3 == Point(m2, The(d, "parent"), p)
           g1 == More(g, d)
<1>1. /\ Y \in SUBSET Objects /\ X \subseteq Y /\ d \in Y
      /\ g \in GameType /\ h \in HeapType
      /\ d # p /\ g1 \in GameType
  BY MoreLess DEF Good
<1>2. /\ The(d, "parent") \in Fields /\ The(d, "parent")[1] = d
      /\ The(d, "swapchain") \in Fields /\ The(d, "rt") \in Fields
      /\ The(d, "swapchain")[1] = d /\ The(d, "rt")[1] = d
      /\ The(d, "parent") # The(d, "swapchain")
      /\ The(d, "parent") # The(d, "rt")
  BY TheFields DEF The, At
<1> HIDE DEF Y, g1
<1>3. /\ Good(m1, g1, {}, Y)
      /\ m1.refs[d] = 1
      /\ \A x \in Objects \ {d} : m1.refs[x] = h.refs[x]
      /\ m1.ptr = h.ptr
      /\ \A f \in Fields : f[1] = d => m1.ptr[f] = Null
  <2>1. ~(Null # Null) /\ Null \in Objects \cup {Null}
    OBVIOUS
  <2>2. QED
    BY <1>1, <2>1, AllocateGood DEF g1
<1> HIDE DEF m1
<1>4. /\ Good(m2, More(g1, p), {}, Y)
      /\ m2.ptr = m1.ptr
      /\ m2.refs[d] = 1
      /\ \A x \in Objects \ {p, d} : m2.refs[x] = h.refs[x]
  <2>1. m1.refs[p] > 0
    BY <1>1, <1>3
  <2>2. Good(m2, More(g1, p), {}, Y) /\ m2.ptr = m1.ptr
    BY <1>3, <2>1, AddRefGood
  <2>3. m1 \in HeapType
    BY <1>3 DEF Good
  <2>4. m2 = [m1 EXCEPT !.refs[p] = m1.refs[p] + 1]
    BY NoObject DEF SafeAddRef
  <2>5. m1.refs[p] + 1 \in Int
    BY <2>3 DEF HeapType
  <2>6. \A x \in Objects \ {p} : m2.refs[x] = m1.refs[x]
    BY <2>3, <2>4, <2>5, RefsUpdate
  <2>7. QED
    BY <1>1, <1>3, <2>2, <2>6
<1> HIDE DEF m2
<1>5. More(g1, p)[p] > 0 /\ Less(More(g1, p), p) = g1
  BY <1>1, MoreLess
<1>6. Height(p) < Height(d)
  <2>1. Height(p) = 0 /\ Height(d) = 2
    BY DEF Height, Containers
  <2>2. QED
    BY <2>1
<1>7. /\ Good(m3, g1, {}, Y)
      /\ m3.ptr[The(d, "parent")] = p
      /\ \A e \in Fields \ {The(d, "parent")} : m3.ptr[e] = m2.ptr[e]
      /\ m3.refs = m2.refs
  <2>1. /\ m2.ptr[The(d, "parent")] = Null /\ m2.refs[The(d, "parent")[1]] > 0
        /\ ~(Kind[The(d, "parent")[1]] = "query")
        /\ Fits(The(d, "parent"), p)
    BY <1>2, <1>3, <1>4, <1>6 DEF Fits
  <2>2. Good(m3, Less(More(g1, p), p), {}, Y)
    BY <1>2, <1>4, <1>5, <2>1, PointGood
  <2>3. /\ m3.ptr[The(d, "parent")] = p
        /\ \A e \in Fields \ {The(d, "parent")} : m3.ptr[e] = m2.ptr[e]
        /\ m3.refs = m2.refs
    BY <1>2, <1>4, <1>5, <2>1, PointGood
  <2>4. QED
    BY <1>5, <2>2, <2>3
<1>8. NewDevice(h, p, d) = m3
  BY DEF NewDevice, m3, m2, m1, Point
<1> HIDE DEF m3
<1>9. \A f \in Fields : h.ptr[f] # d
  BY HeldLives
<1>10. \A f \in Fields : m3.ptr[f] # d
  BY <1>1, <1>3, <1>4, <1>7, <1>9
<1>11. QED
  BY <1>2, <1>3, <1>4, <1>7, <1>8, <1>10 DEF Y, g1

\* A new query, which refers to its device.
NewQuery(h, d, q) ==
  [SafeAddRef(Allocate(h, q, d), d) EXCEPT !.ptr[The(q, "device")] = d]

LEMMA NewQueryGood ==
  ASSUME NEW h, NEW g, NEW X, Good(h, g, {}, X),
         NEW d \in Objects, Kind[d] = "device", h.refs[d] > 0,
         NEW q \in Objects, Kind[q] = "query", h.refs[q] = 0, q \notin X
  PROVE  Good(NewQuery(h, d, q), More(g, q), {}, X)
<1> DEFINE Y == X \cup {q}
           m1 == Allocate(h, q, d)
           m2 == SafeAddRef(m1, d)
           m3 == Point(m2, The(q, "device"), d)
           g1 == More(g, q)
<1>1. /\ Y \in SUBSET Objects /\ X \subseteq Y /\ q \in Y
      /\ g \in GameType /\ h \in HeapType
      /\ q # d /\ g1 \in GameType /\ Y \ {q} = X
  BY MoreLess DEF Good
<1>2. The(q, "device") \in Fields /\ The(q, "device")[1] = q
  BY TheFields
<1> HIDE DEF Y, g1
<1>3. /\ Good(m1, g1, {}, Y)
      /\ m1.refs[q] = 1
      /\ \A x \in Objects \ {q} : m1.refs[x] = h.refs[x]
      /\ m1.device[q] = d
      /\ \A f \in Fields : f[1] = q => m1.ptr[f] = Null
  <2>1. d # Null => Kind[d] = "device" /\ h.refs[d] > 0
    OBVIOUS
  <2>2. d \in Objects \cup {Null} /\ (Kind[q] \in {"query", "device"} => q \in Y)
    BY <1>1
  <2>3. QED
    BY <1>1, <2>1, <2>2, AllocateGood DEF g1
<1> HIDE DEF m1
<1>4. /\ Good(m2, More(g1, d), {}, Y)
      /\ m2.ptr = m1.ptr /\ m2.device = m1.device
      /\ m2.refs[q] > 0
  <2>1. m1.refs[d] > 0
    BY <1>1, <1>3
  <2>2. /\ Good(m2, More(g1, d), {}, Y)
        /\ m2.ptr = m1.ptr /\ m2.device = m1.device
        /\ \A x \in Objects : m2.refs[x] >= m1.refs[x]
    BY <1>3, <2>1, AddRefGood
  <2>3. m2.refs[q] \in Nat
    BY <2>2, HeldLives
  <2>4. QED
    BY <1>3, <2>2, <2>3
<1> HIDE DEF m2
<1>5. More(g1, d)[d] > 0 /\ Less(More(g1, d), d) = g1
  BY <1>1, MoreLess
<1>6. Height(d) < Height(q)
  <2>1. Height(d) = 2 /\ Height(q) = 3
    BY DEF Height, Containers
  <2>2. QED
    BY <2>1
<1>7. /\ Good(m3, g1, {}, Y)
      /\ m3.ptr[The(q, "device")] = d
      /\ m3.device[q] = d
  <2>1. /\ m2.ptr[The(q, "device")] = Null /\ m2.refs[The(q, "device")[1]] > 0
        /\ The(q, "device")[1] \in Y
        /\ Fits(The(q, "device"), d)
    BY <1>1, <1>2, <1>3, <1>4, <1>6 DEF Fits
  <2>2. Good(m3, Less(More(g1, d), d), {}, Y)
    BY <1>2, <1>4, <1>5, <2>1, PointGood
  <2>3. m3.ptr[The(q, "device")] = d /\ m3.device = m2.device
    BY <1>2, <1>4, <1>5, <2>1, PointGood
  <2>4. QED
    BY <1>3, <1>4, <1>5, <2>2, <2>3
<1>8. NewQuery(h, d, q) = m3
  BY DEF NewQuery, m3, m2, m1, Point
<1> HIDE DEF m3
<1>9. Good(m3, g1, {}, Y \ {q})
  BY <1>1, <1>7, CompletedGood
<1>10. QED
  BY <1>1, <1>8, <1>9 DEF g1

\* A new object t of several surfaces.
LEMMA NewWithPartsGood ==
  ASSUME NEW h, NEW g, NEW X, Good(h, g, {}, X),
         NEW d \in Objects, Kind[d] = "device", h.refs[d] > 0,
         NEW t \in Objects, Kind[t] \in {"texture", "cube"}, h.refs[t] = 0,
         NEW F \in SUBSET Fields, \A f \in F : f[1] = t,
         NEW part \in PartsFor(h, F)
  PROVE  Good(AddParts(Allocate(h, t, d), t, d, part), More(g, t), {}, X)
<1> DEFINE m == Allocate(h, t, d)
<1>1. X \in SUBSET Objects /\ t # d /\ t \notin Surfaces
  BY SurfacesAre DEF Good
<1>2. /\ Good(m, More(g, t), {}, X)
      /\ m.refs[t] = 1
      /\ \A x \in Objects \ {t} : m.refs[x] = h.refs[x]
      /\ \A f \in Fields : f[1] = t => m.ptr[f] = Null
  <2>1. d # Null => Kind[d] = "device" /\ h.refs[d] > 0
    OBVIOUS
  <2>2. /\ d \in Objects \cup {Null} /\ X \subseteq X
        /\ ~(Kind[t] \in {"query", "device"})
    OBVIOUS
  <2>3. QED
    BY <1>1, <2>1, <2>2, AllocateGood
<1> HIDE DEF m
<1>3. Unused(m, "surface") = Unused(h, "surface")
  BY <1>1, <1>2, SurfacesAre DEF Unused, Alive, Surfaces
<1>4. part \in PartsFor(m, F)
  BY <1>3 DEF PartsFor
<1>5. /\ m.refs[t] > 0 /\ m.refs[d] > 0 /\ Kind[t] \in Containers
      /\ \A f \in F : f[1] = t /\ m.ptr[f] = Null
  BY <1>1, <1>2 DEF Containers
<1>6. Good(AddParts(m, t, d, part), More(g, t), {}, X)
  BY <1>2, <1>4, <1>5, AddPartsGood
<1>7. QED
  BY <1>6 DEF m

LEMMA LevelFields ==
  ASSUME NEW t \in Objects, NEW n \in Nat,
         \/ Kind[t] = "texture" /\ n <= Levels
         \/ Kind[t] = "cube" /\ n <= Levels * Faces
  PROVE  /\ LevelsOf(t, n) \in SUBSET Fields
         /\ \A f \in LevelsOf(t, n) : f[1] = t
<1>1. Levels \in Nat /\ Faces \in Nat /\ Levels * Faces \in Nat
  BY ObjectsAssumption
<1>2. ASSUME NEW i \in 0..(n - 1) PROVE At(t, "level", i) \in Fields
  <2>1. CASE Kind[t] = "texture"
    BY <1>1, <2>1, AtField DEF Width
  <2>2. CASE Kind[t] = "cube"
    BY <1>1, <2>2, AtField DEF Width
  <2>3. QED
    BY <2>1, <2>2
<1>3. QED
  BY <1>2 DEF LevelsOf, At

-----------------------------------------------------------------------------
\* The invariant of the specification.

Lost == {d \in Devices : lost[d]}

IInv ==
  /\ Good(heap, game, {}, Lost)
  /\ \A o \in Objects : game[o] <= GameRefs
  /\ fvf \in [Devices -> BOOLEAN]
  /\ lost \in [Devices -> BOOLEAN]
  /\ crashed \in BOOLEAN

LEMMA InitInv == Init => IInv
<1> SUFFICES ASSUME Init PROVE IInv
  OBVIOUS
<1> USE DEF Init
<1>1. heap \in HeapType /\ game \in GameType
  BY DEF HeapType, GameType
<1>2. /\ \A o \in Objects : heap.refs[o] = 0 /\ game[o] = 0
      /\ \A f \in Fields : heap.ptr[f] = Null
      /\ \A s \in Surfaces : heap.container[s] = Null
      /\ \A o \in Objects : heap.device[o] = Null
  OBVIOUS
<1>3. /\ GameRefs \in Nat
      /\ fvf \in [Devices -> BOOLEAN]
      /\ lost \in [Devices -> BOOLEAN]
      /\ crashed \in BOOLEAN
  BY ObjectsAssumption
<1> HIDE DEF Init
<1>4. Counts(heap, game)
  <2> SUFFICES ASSUME NEW o \in Objects
               PROVE  heap.refs[o] = game[o] + Cardinality(Names(heap, o))
    BY DEF Counts
  <2>1. Names(heap, o) = {}
    BY <1>2, NoObject DEF Names, From
  <2>2. Cardinality(Names(heap, o)) = 0
    BY <2>1, FromFinite DEF Names
  <2>3. QED
    BY <1>2, <2>2
<1>5. Graded(heap) /\ EmptyWhenDead(heap, {})
  BY <1>2 DEF Graded, EmptyWhenDead
<1>6. DevicesLive(heap, {}) /\ Contained(heap)
  BY <1>2, NoObject DEF DevicesLive, Contained
<1>7. Complete(heap, Lost)
  BY <1>2 DEF Complete
<1>8. Lost \in SUBSET Objects
  BY DEF Lost, Devices, Of
<1>9. Good(heap, game, {}, Lost)
  BY <1>1, <1>4, <1>5, <1>6, <1>7, <1>8 DEF Good
<1>10. QED
  BY <1>2, <1>3, <1>9 DEF IInv

\* The game never has more than GameRefs references.
LEMMA GiveIs ==
  ASSUME IInv, NEW o \in Objects, Give(o)
  PROVE  game' = More(game, o) /\ \A x \in Objects : game'[x] <= GameRefs
<1> DEFINE G == {p \in Objects \X (1..GameRefs) : p[2] <= game[p[1]]}
           H == {o} \X (1..GameRefs)
<1>1. game \in GameType /\ GameRefs \in Nat /\ \A x \in Objects : game[x] <= GameRefs
  BY ObjectsAssumption DEF IInv, Good
<1>2. game' = More(game, o) /\ Cardinality(G) < GameRefs
  BY DEF Give, More
<1>3. game[o] < GameRefs
  <2> SUFFICES ASSUME game[o] = GameRefs PROVE FALSE
    BY <1>1 DEF GameType
  <2>1. H \subseteq G
    BY <1>1
  <2>2. IsFiniteSet(G)
    <3>1. IsFiniteSet(1..GameRefs) /\ IsFiniteSet(Objects)
      BY <1>1, FS_Interval, ObjectsAssumption
    <3>2. IsFiniteSet(Objects \X (1..GameRefs))
      BY <3>1, FS_Product
    <3>3. QED
      BY <3>2, FS_Subset
  <2>3. Cardinality(H) = GameRefs
    <3>1. IsFiniteSet({o}) /\ Cardinality({o}) = 1
      BY FS_Singleton
    <3>2. IsFiniteSet(1..GameRefs) /\ Cardinality(1..GameRefs) = GameRefs
      <4>1. 1 \in Int /\ GameRefs \in Int
        BY <1>1
      <4>2. /\ IsFiniteSet(1..GameRefs)
            /\ Cardinality(1..GameRefs) =
                 IF 1 > GameRefs THEN 0 ELSE GameRefs - 1 + 1
        BY <4>1, FS_Interval
      <4>3. QED
        BY <1>1, <4>2
    <3>3. Cardinality(H) = Cardinality({o}) * Cardinality(1..GameRefs)
      BY <3>1, <3>2, FS_Product
    <3>4. QED
      BY <1>1, <3>1, <3>2, <3>3
  <2>4. Cardinality(H) <= Cardinality(G) /\ Cardinality(G) \in Nat
    BY <2>1, <2>2, FS_Subset, FS_CardinalityType
  <2>5. QED
    BY <1>1, <1>2, <2>3, <2>4
<1>4. /\ More(game, o)[o] = game[o] + 1
      /\ \A x \in Objects \ {o} : More(game, o)[x] = game[x]
      /\ game[o] \in Nat
  BY <1>1, MoreLess DEF GameType
<1>5. QED
  BY <1>1, <1>2, <1>3, <1>4

LEMMA HandInv ==
  ASSUME IInv, NEW h, NEW o \in Objects, Hand(h, o),
         Good(h, More(game, o), {}, Lost)
  PROVE  IInv'
<1>1. /\ Give(o) /\ heap' = h
      /\ fvf' = fvf /\ lost' = lost /\ crashed' = crashed
  BY DEF Hand
<1>2. game' = More(game, o) /\ \A x \in Objects : game'[x] <= GameRefs
  BY <1>1, GiveIs
<1>3. Lost' = Lost
  BY <1>1 DEF Lost
<1>4. QED
  BY <1>1, <1>2, <1>3 DEF IInv

LEMMA FailInv ==
  ASSUME IInv, NEW h, Fail(h), Good(h, game, {}, Lost)
  PROVE  IInv'
<1>1. Lost' = Lost
  BY DEF Fail, Lost
<1>2. QED
  BY <1>1 DEF Fail, IInv

LEMMA CrashInv ==
  ASSUME IInv, Crash
  PROVE  IInv'
<1>1. Lost' = Lost
  BY DEF Crash, Lost
<1>2. QED
  BY <1>1 DEF Crash, IInv

LEMMA HandOldInv ==
  ASSUME IInv, NEW o \in Objects, heap.refs[o] > 0, Hand(SafeAddRef(heap, o), o)
  PROVE  IInv'
<1>1. Good(SafeAddRef(heap, o), More(game, o), {}, Lost)
  BY AddRefGood DEF IInv
<1>2. QED
  BY <1>1, HandInv

LEMMA GetInv ==
  ASSUME IInv, NEW f \in Fields, Get(f)
  PROVE  IInv'
<1>1. heap \in HeapType /\ heap.ptr[f] # Null
  BY DEF Get, IInv, Good
<1>2. heap.ptr[f] \in Objects
  BY <1>1 DEF HeapType
<1>3. heap.refs[heap.ptr[f]] > 0
  BY <1>2, HeldLives DEF IInv
<1>4. Hand(SafeAddRef(heap, heap.ptr[f]), heap.ptr[f])
  BY DEF Get
<1>5. QED
  BY <1>2, <1>3, <1>4, HandOldInv

\* What the game calls is allocated.
LEMMA HoldsLives ==
  ASSUME IInv, NEW o \in Objects, Holds(o)
  PROVE  heap.refs[o] > 0 /\ game[o] > 0
BY HeldLives DEF IInv, Holds

LEMMA QueryInterfaceInv ==
  ASSUME IInv, NEW o \in Objects, QueryInterface(o)
  PROVE  IInv'
<1>1. Holds(o) /\ Hand(SafeAddRef(heap, o), o)
  BY DEF QueryInterface
<1>2. QED
  BY <1>1, HoldsLives, HandOldInv

LEMMA GetDeviceInv ==
  ASSUME IInv, NEW o \in Objects, GetDevice(o)
  PROVE  IInv'
<1>1. CASE /\ heap.device[o] \in Objects
           /\ Hand(SafeAddRef(heap, heap.device[o]), heap.device[o])
  <2>1. heap.refs[heap.device[o]] > 0
    BY <1>1 DEF IInv, Good, DevicesLive
  <2>2. QED
    BY <1>1, <2>1, HandOldInv
<1>2. CASE Crash
  BY <1>2, CrashInv
<1>3. QED
  BY <1>1, <1>2 DEF GetDevice

LEMMA GetContainerInv ==
  ASSUME IInv, NEW s \in Objects, GetContainer(s)
  PROVE  IInv'
<1>1. /\ s \in Surfaces /\ heap.container[s] # Null
      /\ Hand(SafeAddRef(heap, heap.container[s]), heap.container[s])
  BY SurfacesAre DEF GetContainer
<1>2. heap \in HeapType /\ heap.container[s] \in Objects
  BY <1>1 DEF IInv, Good, HeapType
<1>3. PICK f \in Fields : heap.ptr[f] = s /\ f[1] = heap.container[s]
  BY <1>1 DEF IInv, Good, Contained
<1>4. heap.ptr[f] # Null
  BY <1>1, <1>3, NoObject, SurfacesAre
<1>5. heap.refs[heap.container[s]] # 0
  BY <1>3, <1>4 DEF IInv, Good, EmptyWhenDead
<1>6. heap.refs[heap.container[s]] \in Nat
  BY <1>2, HeldLives DEF IInv
<1>7. QED
  BY <1>1, <1>2, <1>5, <1>6, HandOldInv

LEMMA GiveBackInv ==
  ASSUME IInv, NEW o \in Objects, GiveBack(o)
  PROVE  IInv'
<1>1. /\ game[o] > 0
      /\ heap' = Release(heap, o) /\ game' = Less(game, o)
      /\ fvf' = fvf /\ lost' = lost /\ crashed' = crashed
  BY DEF GiveBack, Holds, Less
<1>2. Good(heap', game', {}, Lost)
  BY <1>1, ReleaseGood DEF IInv
<1>3. \A x \in Objects : game'[x] <= GameRefs
  BY <1>1, ObjectsAssumption DEF IInv, Good, GameType, Less
<1>4. Lost' = Lost
  BY <1>1 DEF Lost
<1>5. QED
  BY <1>1, <1>2, <1>3, <1>4 DEF IInv

LEMMA CreateInv ==
  ASSUME IInv, NEW d \in Devices, NEW o \in Objects, NEW kind,
         kind \notin {"query", "device"}, Create(d, o, kind)
  PROVE  IInv'
<1>1. /\ d \in Objects /\ Kind[d] = "device" /\ heap.refs[d] > 0
      /\ heap.refs[o] = 0 /\ Kind[o] = kind
      /\ Hand(Allocate(heap, o, d), o)
  BY HoldsLives DEF Create, MayCreate, Devices, Of
<1>2. /\ d \in Objects \cup {Null}
      /\ d # Null => Kind[d] = "device" /\ heap.refs[d] > 0
      /\ Lost \in SUBSET Objects /\ Lost \subseteq Lost
      /\ Kind[o] \in {"query", "device"} => o \in Lost
  BY <1>1 DEF IInv, Good
<1>3. Good(Allocate(heap, o, d), More(game, o), {}, Lost)
  BY <1>1, <1>2, AllocateGood DEF IInv
<1>4. QED
  BY <1>1, <1>3, HandInv

LEMMA CreateFailsInv ==
  ASSUME IInv, NEW d \in Devices, NEW o \in Objects, NEW kind,
         kind \notin {"query", "device"}, CreateFails(d, o, kind)
  PROVE  IInv'
<1>1. /\ d \in Objects /\ Kind[d] = "device" /\ heap.refs[d] > 0
      /\ heap.refs[o] = 0 /\ Kind[o] = kind
      /\ Fail(Release(Allocate(heap, o, d), o))
  BY HoldsLives DEF CreateFails, MayCreate, Devices, Of
<1>2. /\ d \in Objects \cup {Null}
      /\ d # Null => Kind[d] = "device" /\ heap.refs[d] > 0
      /\ Lost \in SUBSET Objects /\ Lost \subseteq Lost
      /\ Kind[o] \in {"query", "device"} => o \in Lost
      /\ game \in GameType
  BY <1>1 DEF IInv, Good
<1>3. Good(Allocate(heap, o, d), More(game, o), {}, Lost)
  BY <1>1, <1>2, AllocateGood DEF IInv
<1>4. More(game, o)[o] > 0 /\ Less(More(game, o), o) = game
  BY <1>2, MoreLess
<1>5. Good(Release(Allocate(heap, o, d), o), Less(More(game, o), o), {}, Lost)
  BY <1>3, <1>4, ReleaseGood
<1>6. QED
  BY <1>1, <1>4, <1>5, FailInv

LEMMA CreateQueryInv ==
  ASSUME IInv, NEW d \in Devices, NEW q \in Objects, CreateQuery(d, q)
  PROVE  IInv'
<1>1. /\ d \in Objects /\ Kind[d] = "device" /\ heap.refs[d] > 0
      /\ heap.refs[q] = 0 /\ Kind[q] = "query"
      /\ Hand(NewQuery(heap, d, q), q)
  BY HoldsLives DEF CreateQuery, MayCreate, Devices, Of, NewQuery
<1>2. q \notin Lost
  BY <1>1 DEF Lost, Devices, Of
<1>3. Good(NewQuery(heap, d, q), More(game, q), {}, Lost)
  BY <1>1, <1>2, NewQueryGood DEF IInv
<1>4. QED
  BY <1>1, <1>3, HandInv

LEMMA PartsNumber ==
  ASSUME NEW t \in Objects, NEW n \in Nat, NEW kind, Kind[t] = kind,
         \/ kind = "texture" /\ n <= Levels
         \/ kind = "cube" /\ n <= Levels * Faces
  PROVE  /\ LevelsOf(t, n) \in SUBSET Fields
         /\ \A f \in LevelsOf(t, n) : f[1] = t
         /\ Kind[t] \in {"texture", "cube"}
BY LevelFields

LEMMA CreateWithPartsInv ==
  ASSUME IInv, NEW d \in Devices, NEW t \in Objects, NEW n \in Nat, NEW kind,
         \/ kind = "texture" /\ n <= Levels
         \/ kind = "cube" /\ n <= Levels * Faces,
         CreateWithParts(d, t, kind, n) \/ CreateWithPartsFails(d, t, kind, n)
  PROVE  IInv'
<1> DEFINE New(part) == AddParts(Allocate(heap, t, d), t, d, part)
<1>1. /\ d \in Objects /\ Kind[d] = "device" /\ heap.refs[d] > 0
      /\ heap.refs[t] = 0 /\ Kind[t] = kind
  BY HoldsLives
     DEF CreateWithParts, CreateWithPartsFails, MayCreate, Devices, Of
<1>2. PICK part \in PartsFor(heap, LevelsOf(t, n)) :
        Hand(New(part), t) \/ Fail(Release(New(part), t))
  BY DEF CreateWithParts, CreateWithPartsFails
<1>3. Good(New(part), More(game, t), {}, Lost)
  BY <1>1, PartsNumber, NewWithPartsGood DEF IInv
<1> HIDE DEF New
<1>4. CASE Hand(New(part), t)
  BY <1>3, <1>4, HandInv
<1>5. CASE Fail(Release(New(part), t))
  <2>1. game \in GameType
    BY DEF IInv, Good
  <2>2. More(game, t)[t] > 0 /\ Less(More(game, t), t) = game
    BY <2>1, MoreLess
  <2>3. Good(Release(New(part), t), Less(More(game, t), t), {}, Lost)
    BY <1>3, <2>2, ReleaseGood
  <2>4. QED
    BY <1>5, <2>2, <2>3, FailInv
<1>6. QED
  BY <1>2, <1>4, <1>5

\* Kinds that can be bound.
Bindable == {"surface", "texture", "cube", "vb", "ib", "vdecl", "vs", "ps"}

LEMMA SetInv ==
  ASSUME IInv, NEW d \in Devices, NEW f \in Fields, f[1] = d,
         f # The(d, "swapchain"), NEW o, NEW kinds \in SUBSET Bindable,
         Set(d, f, o, kinds), fvf' \in [Devices -> BOOLEAN]
  PROVE  IInv'
<1>1. /\ Holds(d) /\ Passed(o, kinds)
      /\ heap' = Bind(heap, f, o)
      /\ game' = game /\ lost' = lost /\ crashed' = crashed
  BY DEF Set
<1>2. d \in Objects /\ Kind[d] = "device" /\ heap.refs[d] > 0
  BY <1>1, HoldsLives DEF Devices, Of
<1>3. /\ o \in Objects \cup {Null}
      /\ o # Null => game[o] > 0 /\ Height(o) < 2
  <2>1. CASE o = Null
    BY <2>1
  <2>2. CASE o \in Objects /\ game[o] > 0 /\ Kind[o] \in kinds
    <3>1. Height(o) \in {0, 1}
      BY <2>2 DEF Height, Containers, Bindable
    <3>2. QED
      BY <2>2, <3>1
  <2>3. QED
    BY <1>1, <2>1, <2>2 DEF Passed
<1>4. Good(heap', game, {}, Lost)
  BY <1>1, <1>2, <1>3, BindGood DEF IInv
<1>5. Lost' = Lost
  BY <1>1 DEF Lost
<1>6. QED
  BY <1>1, <1>4, <1>5 DEF IInv

LEMMA SetFVFInv ==
  ASSUME IInv, NEW d \in Devices, NEW isSet \in BOOLEAN, SetFVF(d, isSet)
  PROVE  IInv'
<1>1. /\ heap' = Clear(heap, {The(d, "vdecl")})
      /\ fvf' = [fvf EXCEPT ![d] = isSet]
      /\ game' = game /\ lost' = lost /\ crashed' = crashed
      /\ d \in Objects /\ Kind[d] = "device"
  BY DEF SetFVF, Devices, Of
<1>2. /\ The(d, "vdecl") \in Fields /\ The(d, "vdecl")[1] = d
      /\ The(d, "vdecl") # The(d, "swapchain")
  BY <1>1, TheFields DEF The, At
<1>3. Good(heap', game, {}, Lost)
  BY <1>1, <1>2, ClearGood DEF IInv
<1>4. Lost' = Lost
  BY <1>1 DEF Lost
<1>5. fvf' \in [Devices -> BOOLEAN]
  BY <1>1 DEF IInv
<1>6. QED
  BY <1>1, <1>3, <1>4, <1>5 DEF IInv

\* A device without bindings and swap chain.
LEMMA UnboundGood ==
  ASSUME IInv, NEW d \in Devices, Holds(d)
  PROVE  /\ Good(Unbound(heap, d), game, {}, Lost \cup {d})
         /\ Unbound(heap, d).refs[d] > 0
         /\ Unbound(heap, d).ptr[The(d, "swapchain")] = Null
         /\ Unbound(heap, d).ptr[The(d, "rt")] = Null
<1> DEFINE F == FieldsOf({d}) \ {The(d, "parent")}
<1>1. /\ d \in Objects /\ Kind[d] = "device" /\ game[d] > 0
      /\ Lost \cup {d} \in SUBSET Objects
  BY DEF Devices, Of, Holds, IInv, Good
<1>2. FieldsOf({d}) = {f \in Fields : f[1] \in {d}}
  BY <1>1, OwnFields
<1>3. /\ F \in SUBSET Fields
      /\ \A f \in F : /\ Kind[f[1]] = "device"
                      /\ f[1] \in Lost \cup {d}
  BY <1>1, <1>2
<1>4. The(d, "swapchain") \in F /\ The(d, "rt") \in F
  BY <1>1, <1>2, TheFields DEF The, At
<1> HIDE DEF F
<1>5. Good(heap, game, {}, Lost \cup {d})
  BY <1>1, WeakenGood DEF IInv
<1>6. /\ Good(Clear(heap, F), game, {}, Lost \cup {d})
      /\ \A f \in F : Clear(heap, F).ptr[f] = Null
  BY <1>3, <1>5, ClearGood
<1>7. Clear(heap, F).refs[d] > 0
  BY <1>1, <1>6, HeldLives
<1>8. QED
  BY <1>4, <1>6, <1>7 DEF Unbound, F

LEMMA ResetFailsInv ==
  ASSUME IInv, NEW d \in Devices, ResetFails(d)
  PROVE  IInv'
<1>1. /\ Holds(d) /\ heap' = Unbound(heap, d)
      /\ lost' = [lost EXCEPT ![d] = TRUE]
      /\ game' = game /\ fvf' = fvf /\ crashed' = crashed
  BY DEF ResetFails
<1>2. /\ lost' \in [Devices -> BOOLEAN]
      /\ Lost' = Lost \cup {d}
  BY <1>1 DEF Lost, IInv
<1>3. QED
  BY <1>1, <1>2, UnboundGood DEF IInv

LEMMA ResetInv ==
  ASSUME IInv, NEW d \in Devices, Reset(d)
  PROVE  IInv'
<1> DEFINE bare == Unbound(heap, d)
<1>1. /\ Holds(d)
      /\ lost' = [lost EXCEPT ![d] = FALSE]
      /\ game' = game /\ fvf' = fvf /\ crashed' = crashed
  BY DEF Reset
<1>2. PICK c \in Unused(bare, "swapchain"), b \in Unused(bare, "surface") :
        heap' = AddSwapChain(bare, d, c, b)
  BY DEF Reset
<1>3. /\ Good(bare, game, {}, Lost \cup {d})
      /\ bare.refs[d] > 0
      /\ bare.ptr[The(d, "swapchain")] = Null
      /\ bare.ptr[The(d, "rt")] = Null
  BY <1>1, UnboundGood
<1> HIDE DEF bare
<1>4. /\ c \in Objects /\ Kind[c] = "swapchain" /\ bare.refs[c] = 0
      /\ b \in Objects /\ Kind[b] = "surface" /\ bare.refs[b] = 0
  <2>1. /\ c \in Objects /\ Kind[c] = "swapchain" /\ ~(bare.refs[c] > 0)
        /\ b \in Objects /\ Kind[b] = "surface" /\ ~(bare.refs[b] > 0)
    BY DEF Unused, Alive, Of
  <2>2. bare.refs[c] \in Nat /\ bare.refs[b] \in Nat
    BY <1>3, <2>1, HeldLives
  <2>3. QED
    BY <2>1, <2>2
<1>5. d \in Lost \cup {d} /\ Kind[d] = "device"
  BY DEF Devices, Of
<1>6. Good(heap', game, {}, (Lost \cup {d}) \ {d})
  BY <1>2, <1>3, <1>4, <1>5, AddSwapChainGood
<1>7. /\ lost' \in [Devices -> BOOLEAN]
      /\ Lost' = (Lost \cup {d}) \ {d}
  BY <1>1 DEF Lost, IInv
<1>8. QED
  BY <1>1, <1>6, <1>7 DEF IInv

LEMMA CreateDeviceInv ==
  ASSUME IInv, NEW p \in Of("d3d9"), NEW d \in Devices, NEW c \in Of("swapchain"),
         NEW b \in Surfaces, CreateDevice(p, d, c, b)
  PROVE  IInv'
<1> DEFINE m == NewDevice(heap, p, d)
<1>1. /\ Holds(p) /\ Give(d)
      /\ heap' = AddSwapChain(m, d, c, b)
      /\ fvf' = [fvf EXCEPT ![d] = FALSE]
      /\ lost' = [lost EXCEPT ![d] = FALSE]
      /\ crashed' = crashed
      /\ ~(heap.refs[d] > 0) /\ ~(heap.refs[c] > 0) /\ ~(heap.refs[b] > 0)
  BY DEF CreateDevice, Unused, Alive, Of, Devices, Surfaces
<1>2. /\ p \in Objects /\ Kind[p] = "d3d9" /\ d \in Objects /\ Kind[d] = "device"
      /\ c \in Objects /\ Kind[c] = "swapchain" /\ b \in Objects /\ Kind[b] = "surface"
      /\ c \notin {p, d} /\ b \notin {p, d}
  BY DEF Of, Devices, Surfaces
<1>3. heap.refs[p] > 0 /\ heap.refs[d] = 0 /\ heap.refs[c] = 0 /\ heap.refs[b] = 0
  <2>1. /\ heap.refs[d] \in Nat /\ heap.refs[c] \in Nat /\ heap.refs[b] \in Nat
    BY <1>2, HeldLives DEF IInv
  <2>2. QED
    BY <1>1, <1>2, <2>1, HoldsLives
<1>4. /\ Good(m, More(game, d), {}, Lost \cup {d})
      /\ m.refs[d] = 1
      /\ \A x \in Objects \ {p, d} : m.refs[x] = heap.refs[x]
      /\ m.ptr[The(d, "swapchain")] = Null
      /\ m.ptr[The(d, "rt")] = Null
  BY <1>2, <1>3, NewDeviceGood DEF IInv
<1> HIDE DEF m
<1>5. m.refs[d] > 0 /\ m.refs[c] = 0 /\ m.refs[b] = 0 /\ d \in Lost \cup {d}
  BY <1>2, <1>3, <1>4
<1>6. Good(heap', More(game, d), {}, (Lost \cup {d}) \ {d})
  BY <1>1, <1>2, <1>4, <1>5, AddSwapChainGood
<1>7. game' = More(game, d) /\ \A x \in Objects : game'[x] <= GameRefs
  BY <1>1, <1>2, GiveIs
<1>8. /\ lost' \in [Devices -> BOOLEAN]
      /\ fvf' \in [Devices -> BOOLEAN]
      /\ Lost' = (Lost \cup {d}) \ {d}
  BY <1>1 DEF Lost, IInv
<1>9. QED
  BY <1>1, <1>6, <1>7, <1>8 DEF IInv

LEMMA CreateDeviceFailsInv ==
  ASSUME IInv, NEW p \in Of("d3d9"), NEW d \in Devices, CreateDeviceFails(p, d)
  PROVE  IInv'
<1> DEFINE m == NewDevice(heap, p, d)
           k == Release(m, d)
<1>1. /\ Holds(p) /\ Fail(k) /\ ~(heap.refs[d] > 0)
  BY DEF CreateDeviceFails, Unused, Alive, Of, Devices
<1>2. /\ p \in Objects /\ Kind[p] = "d3d9" /\ d \in Objects /\ Kind[d] = "device"
      /\ game \in GameType
  BY DEF Of, Devices, IInv, Good
<1>3. heap.refs[p] > 0 /\ heap.refs[d] = 0
  <2>1. heap.refs[d] \in Nat
    BY <1>2, HeldLives DEF IInv
  <2>2. QED
    BY <1>1, <1>2, <2>1, HoldsLives
<1>4. /\ Good(m, More(game, d), {}, Lost \cup {d})
      /\ \A f \in Fields : m.ptr[f] # d
  BY <1>2, <1>3, NewDeviceGood DEF IInv
<1> HIDE DEF m
<1>5. More(game, d)[d] > 0 /\ Less(More(game, d), d) = game
  BY <1>2, MoreLess
<1>6. /\ Good(k, Less(More(game, d), d), {}, Lost \cup {d})
      /\ \A f \in Fields : k.ptr[f] \in {m.ptr[f], Null}
  BY <1>2, <1>4, <1>5, ReleaseGood
<1> HIDE DEF k
<1>7. Good(k, game, {}, Lost \cup {d})
  BY <1>5, <1>6
<1>8. k.refs[d] = 0
  <2>1. game[d] = 0
    BY <1>2, <1>3, Counted DEF IInv, Good
  <2>2. Names(k, d) = {}
    BY <1>2, <1>4, <1>6, NoObject DEF Names, From
  <2>3. Cardinality(Names(k, d)) = 0
    BY <2>2, FromFinite DEF Names
  <2>4. k.refs[d] = game[d] + Cardinality(Names(k, d))
    BY <1>2, <1>7 DEF Good, Counts
  <2>5. QED
    BY <2>1, <2>3, <2>4
<1>9. Good(k, game, {}, Lost)
  <2>1. ~(k.refs[d] > 0)
    BY <1>8
  <2>2. Complete(k, Lost)
    BY <1>7, <2>1 DEF Good, Complete
  <2>3. Lost \in SUBSET Objects
    BY DEF IInv, Good
  <2>4. QED
    BY <1>7, <2>2, <2>3 DEF Good
<1>10. QED
  BY <1>1, <1>9, FailInv

LEMMA Direct3DCreate9Inv ==
  ASSUME IInv, NEW o \in Objects, Direct3DCreate9(o)
  PROVE  IInv'
<1>1. /\ Kind[o] = "d3d9" /\ ~(heap.refs[o] > 0)
      /\ Hand(Allocate(heap, o, Null), o)
  BY DEF Direct3DCreate9, Unused, Alive, Of
<1>2. heap.refs[o] = 0
  BY <1>1, HeldLives DEF IInv
<1>3. /\ Null \in Objects \cup {Null} /\ ~(Null # Null)
      /\ Lost \in SUBSET Objects /\ Lost \subseteq Lost
      /\ ~(Kind[o] \in {"query", "device"})
  BY <1>1 DEF IInv, Good
<1>4. Good(Allocate(heap, o, Null), More(game, o), {}, Lost)
  BY <1>2, <1>3, AllocateGood DEF IInv
<1>5. QED
  BY <1>1, <1>4, HandInv

\* The swap chain of a device is one, so it has a back buffer.
LEMMA GetBackBufferInv ==
  ASSUME IInv, NEW d \in Devices, GetBackBuffer(d)
  PROVE  IInv'
<1> DEFINE c == heap.ptr[The(d, "swapchain")]
<1>1. c # Null /\ Get(The(c, "backbuffer"))
  BY DEF GetBackBuffer
<1>2. /\ d \in Objects /\ Kind[d] = "device" /\ heap \in HeapType
      /\ The(d, "swapchain") \in Fields /\ The(d, "swapchain")[1] = d
  BY TheFields DEF Devices, Of, IInv, Good
<1>3. c \in Objects /\ Kind[c] = "swapchain"
  BY <1>1, <1>2 DEF HeapType, IInv, Good, Graded, Fits
<1>4. The(c, "backbuffer") \in Fields
  BY <1>3, TheFields
<1>5. QED
  BY <1>1, <1>4, GetInv

LEMMA ReleasesInv ==
  ASSUME IInv, NEW o \in Objects, GameReleases(o)
  PROVE  IInv'
<1>1. GiveBack(o)
  BY DEF GameReleases, D3D9Release, DeviceRelease, SwapChainRelease,
         SurfaceRelease, TextureRelease, CubeRelease, VertexBufferRelease,
         IndexBufferRelease, DeclarationRelease, VertexShaderRelease,
         PixelShaderRelease, QueryRelease
<1>2. QED
  BY <1>1, GiveBackInv

LEMMA AsksInv ==
  ASSUME IInv, NEW o \in Objects, GameAsks(o)
  PROVE  IInv'
<1>1. CASE QueryInterface(o)
  BY <1>1, QueryInterfaceInv
<1>2. CASE GetDevice(o)
  BY <1>2, GetDeviceInv
<1>3. CASE GetContainer(o)
  BY <1>3, GetContainerInv
<1>4. CASE SwapChainGetBackBuffer(o)
  BY <1>4, TheFields, GetInv DEF SwapChainGetBackBuffer
<1>5. CASE SwapChainPresent(o)
  BY <1>5, CrashInv DEF SwapChainPresent
<1>6. ASSUME NEW i \in 0..(Levels * Faces - 1), GetSurfaceLevel(o, i)
      PROVE  IInv'
  <2>1. Kind[o] = "texture" /\ i \in 0..(Levels - 1) /\ Get(At(o, "level", i))
    BY <1>6 DEF GetSurfaceLevel
  <2>2. At(o, "level", i) \in Fields
    BY <2>1, AtField DEF Width
  <2>3. QED
    BY <2>1, <2>2, GetInv
<1>7. ASSUME NEW i \in 0..(Levels * Faces - 1), GetCubeMapSurface(o, i)
      PROVE  IInv'
  <2>1. Kind[o] = "cube" /\ Get(At(o, "level", i))
    BY <1>7 DEF GetCubeMapSurface
  <2>2. At(o, "level", i) \in Fields
    BY <2>1, AtField DEF Width
  <2>3. QED
    BY <2>1, <2>2, GetInv
<1>8. \/ QueryInterface(o) \/ GetDevice(o) \/ GetContainer(o)
      \/ SwapChainGetBackBuffer(o) \/ SwapChainPresent(o)
      \/ \E i \in 0..(Levels * Faces - 1) :
           GetSurfaceLevel(o, i) \/ GetCubeMapSurface(o, i)
  BY DEF GameAsks, D3D9QueryInterface, DeviceQueryInterface,
         SwapChainQueryInterface, SurfaceQueryInterface, TextureQueryInterface,
         CubeQueryInterface, VertexBufferQueryInterface,
         IndexBufferQueryInterface, DeclarationQueryInterface,
         VertexShaderQueryInterface, PixelShaderQueryInterface,
         QueryQueryInterface, SwapChainGetDevice, SurfaceGetDevice,
         TextureGetDevice, CubeGetDevice, VertexBufferGetDevice,
         IndexBufferGetDevice, DeclarationGetDevice, VertexShaderGetDevice,
         PixelShaderGetDevice, QueryGetDevice
<1>9. QED
  BY <1>1, <1>2, <1>3, <1>4, <1>5, <1>6, <1>7, <1>8

LEMMA CreatesInv ==
  ASSUME IInv, NEW d \in Devices, NEW o \in Objects, DeviceCreates(d, o)
  PROVE  IInv'
<1> DEFINE kinds == {"surface", "vb", "ib", "vdecl", "vs", "ps"}
<1>1. /\ Levels \in Nat /\ Faces \in Nat /\ Levels * Faces \in Nat
  BY ObjectsAssumption
<1>2. ASSUME NEW kind \in kinds, Create(d, o, kind) \/ CreateFails(d, o, kind)
      PROVE  IInv'
  BY <1>2, CreateInv, CreateFailsInv
<1>3. CASE CreateQuery(d, o)
  BY <1>3, CreateQueryInv
<1>4. CASE TextureCreate(d, o) \/ TextureCreateFails(d, o)
  <2>1. PICK n \in Nat : /\ n <= Levels
                         /\ \/ CreateWithParts(d, o, "texture", n)
                            \/ CreateWithPartsFails(d, o, "texture", n)
    BY <1>1, <1>4 DEF TextureCreate, TextureCreateFails
  <2>2. QED
    BY <2>1, CreateWithPartsInv
<1>5. CASE CubeCreate(d, o)
  <2>1. PICK n \in 1..Levels : CreateWithParts(d, o, "cube", n * Faces)
    BY <1>5 DEF CubeCreate
  <2>2. n * Faces \in Nat /\ n * Faces <= Levels * Faces
    BY <1>1
  <2>3. QED
    BY <2>1, <2>2, CreateWithPartsInv
<1>6. CASE CubeCreateFails(d, o)
  <2>1. PICK n \in Nat : n <= Levels * Faces /\ CreateWithPartsFails(d, o, "cube", n)
    BY <1>1, <1>6 DEF CubeCreateFails
  <2>2. QED
    BY <2>1, CreateWithPartsInv
<1>7. \/ \E kind \in kinds : Create(d, o, kind) \/ CreateFails(d, o, kind)
      \/ CreateQuery(d, o) \/ TextureCreate(d, o) \/ TextureCreateFails(d, o)
      \/ CubeCreate(d, o) \/ CubeCreateFails(d, o)
  BY DEF DeviceCreates, CreateRenderTarget, CreateDepthStencilSurface,
         CreateOffscreenPlainSurface, CreateVertexBuffer, CreateIndexBuffer,
         CreateVertexDeclaration, CreateVertexShader, CreatePixelShader,
         VertexBufferCreateFails, IndexBufferCreateFails,
         DeclarationCreateFails, VertexShaderCreateFails, PixelShaderCreateFails
<1>8. QED
  BY <1>2, <1>3, <1>4, <1>5, <1>6, <1>7

LEMMA DeviceFields ==
  ASSUME NEW d \in Devices
  PROVE  /\ \A i \in 0..(RenderTargets - 1) : At(d, "rt", i) \in Fields
         /\ \A i \in 0..(Stages - 1) : At(d, "texture", i) \in Fields
         /\ \A i \in 0..(Streams - 1) : At(d, "stream", i) \in Fields
         /\ \A role \in {"depth", "indices", "vdecl", "vs", "ps", "swapchain",
                         "parent"} : The(d, role) \in Fields
<1>1. d \in Objects /\ Kind[d] = "device" /\ 0 \in 0..(1 - 1)
  BY DEF Devices, Of
<1>2. ASSUME NEW i \in 0..(RenderTargets - 1) PROVE At(d, "rt", i) \in Fields
  BY <1>1, AtField DEF Width
<1>3. ASSUME NEW i \in 0..(Stages - 1) PROVE At(d, "texture", i) \in Fields
  BY <1>1, AtField DEF Width
<1>4. ASSUME NEW i \in 0..(Streams - 1) PROVE At(d, "stream", i) \in Fields
  BY <1>1, AtField DEF Width
<1>5. /\ The(d, "depth") \in Fields /\ The(d, "indices") \in Fields
      /\ The(d, "vdecl") \in Fields /\ The(d, "vs") \in Fields
      /\ The(d, "ps") \in Fields
  BY <1>1, AtField DEF Width, The
<1>6. The(d, "swapchain") \in Fields /\ The(d, "parent") \in Fields
  BY <1>1, TheFields
<1>7. QED
  BY <1>2, <1>3, <1>4, <1>5, <1>6

LEMMA SetsInv ==
  ASSUME IInv, NEW d \in Devices, NEW o, DeviceSets(d, o)
  PROVE  IInv'
<1>1. \A role : \A i : /\ At(d, role, i)[1] = d
                       /\ role # "swapchain" => At(d, role, i) # The(d, "swapchain")
  BY DEF At, The
<1>2. \A kinds \in SUBSET Bindable, f \in Fields :
        /\ f[1] = d /\ f # The(d, "swapchain")
        /\ Set(d, f, o, kinds) /\ UNCHANGED fvf
        => IInv'
  BY SetInv DEF IInv
<1>3. ASSUME NEW i \in 0..(RenderTargets - 1), SetRenderTarget(d, i, o) PROVE IInv'
  BY <1>1, <1>2, <1>3, DeviceFields DEF SetRenderTarget, Bindable
<1>4. ASSUME NEW i \in 0..(Stages - 1), SetTexture(d, i, o) PROVE IInv'
  BY <1>1, <1>2, <1>4, DeviceFields DEF SetTexture, Bindable
<1>5. ASSUME NEW i \in 0..(Streams - 1), SetStreamSource(d, i, o) PROVE IInv'
  BY <1>1, <1>2, <1>5, DeviceFields DEF SetStreamSource, Bindable
<1>6. CASE SetDepthStencilSurface(d, o)
  BY <1>1, <1>2, <1>6, DeviceFields DEF SetDepthStencilSurface, Bindable, The
<1>7. CASE SetIndices(d, o)
  BY <1>1, <1>2, <1>7, DeviceFields DEF SetIndices, Bindable, The
<1>8. CASE SetVertexShader(d, o)
  BY <1>1, <1>2, <1>8, DeviceFields DEF SetVertexShader, Bindable, The
<1>9. CASE SetPixelShader(d, o)
  BY <1>1, <1>2, <1>9, DeviceFields DEF SetPixelShader, Bindable, The
<1>10. CASE SetVertexDeclaration(d, o)
  <2>1. /\ Set(d, The(d, "vdecl"), o, {"vdecl"})
        /\ fvf' = fvf \/ fvf' = [fvf EXCEPT ![d] = FALSE]
    BY <1>10 DEF SetVertexDeclaration
  <2>2. fvf' \in [Devices -> BOOLEAN]
    BY <2>1 DEF IInv
  <2>3. /\ The(d, "vdecl") \in Fields /\ The(d, "vdecl")[1] = d
        /\ The(d, "vdecl") # The(d, "swapchain")
    BY DeviceFields DEF The, At
  <2>4. {"vdecl"} \in SUBSET Bindable
    BY DEF Bindable
  <2>5. QED
    BY <2>1, <2>2, <2>3, <2>4, SetInv
<1>11. QED
  BY <1>3, <1>4, <1>5, <1>6, <1>7, <1>8, <1>9, <1>10 DEF DeviceSets

LEMMA GetsInv ==
  ASSUME IInv, NEW d \in Devices, DeviceGets(d)
  PROVE  IInv'
<1>1. CASE GetDirect3D(d)
  BY <1>1, DeviceFields, GetInv DEF GetDirect3D
<1>2. CASE GetSwapChain(d)
  BY <1>2, DeviceFields, GetInv DEF GetSwapChain
<1>3. CASE GetBackBuffer(d)
  BY <1>3, GetBackBufferInv
<1>4. CASE CallWithoutSwapChain(d)
  BY <1>4, CrashInv DEF CallWithoutSwapChain
<1>5. ASSUME NEW role, NEW i, GetBinding(d, role, i) PROVE IInv'
  BY <1>5, GetInv DEF GetBinding
<1>6. \/ GetDirect3D(d) \/ GetSwapChain(d) \/ GetBackBuffer(d)
      \/ CallWithoutSwapChain(d)
      \/ \E role : \E i : GetBinding(d, role, i)
  BY DEF DeviceGets, GetRenderTarget, GetTexture, GetStreamSource,
         GetDepthStencilSurface, GetIndices, GetVertexDeclaration,
         GetVertexShader, GetPixelShader
<1>7. QED
  BY <1>1, <1>2, <1>3, <1>4, <1>5, <1>6

LEMMA NextInv == IInv /\ [Next]_vars => IInv'
<1> SUFFICES ASSUME IInv, [Next]_vars PROVE IInv'
  OBVIOUS
<1>1. ASSUME NEW o \in Objects,
             Direct3DCreate9(o) \/ GameReleases(o) \/ GameAsks(o)
      PROVE  IInv'
  BY <1>1, Direct3DCreate9Inv, ReleasesInv, AsksInv
<1>2. ASSUME NEW d \in Devices, DeviceGets(d) \/ ResetFails(d) \/ Reset(d)
      PROVE  IInv'
  BY <1>2, GetsInv, ResetFailsInv, ResetInv
<1>3. ASSUME NEW d \in Devices, NEW o \in Objects, DeviceCreates(d, o)
      PROVE  IInv'
  BY <1>3, CreatesInv
<1>4. ASSUME NEW d \in Devices, NEW o, DeviceSets(d, o)
      PROVE  IInv'
  BY <1>4, SetsInv
<1>5. ASSUME NEW d \in Devices, NEW isSet \in BOOLEAN, SetFVF(d, isSet)
      PROVE  IInv'
  BY <1>5, SetFVFInv
<1>6. ASSUME NEW d \in Devices, NEW p \in Of("d3d9"),
             \/ CreateDeviceFails(p, d)
             \/ \E c \in Of("swapchain"), b \in Surfaces : CreateDevice(p, d, c, b)
      PROVE  IInv'
  BY <1>6, CreateDeviceFailsInv, CreateDeviceInv
<1>7. CASE UNCHANGED vars
  <2>1. Lost' = Lost
    BY <1>7 DEF vars, Lost
  <2>2. QED
    BY <1>7, <2>1 DEF vars, IInv
<1>8. QED
  BY <1>1, <1>2, <1>3, <1>4, <1>5, <1>6, <1>7 DEF Next

\* The invariant holds for every heap and every order of calls.
THEOREM InvHolds == Spec => []IInv
<1>1. Init => IInv
  BY InitInv
<1>2. IInv /\ [Next]_vars => IInv'
  BY NextInv
<1>3. QED
  BY <1>1, <1>2, PTL DEF Spec

\* Every variable has its type: no count of references is ever below zero.
THEOREM TypeCorrect == Spec => []TypeOK
<1>1. IInv => TypeOK
  <2> SUFFICES ASSUME IInv PROVE TypeOK
    OBVIOUS
  <2>1. heap \in HeapType /\ game \in GameType
    BY DEF IInv, Good
  <2>2. \A o \in Objects : heap.refs[o] \in Nat
    BY HeldLives DEF IInv
  <2>3. heap.refs \in [Objects -> Nat]
    BY <2>1, <2>2 DEF HeapType
  <2>4. game \in [Objects -> 0..GameRefs]
    BY <2>1, ObjectsAssumption DEF IInv, GameType
  <2>5. QED
    BY <2>1, <2>3, <2>4 DEF TypeOK, HeapType, IInv
<1>2. QED
  BY <1>1, InvHolds, PTL

\* No call forgets a Release or releases what it has not counted: each count is
\* what the game was given plus the fields that refer to the object.
THEOREM CountsHold == Spec => []Accounted
<1>1. IInv => Accounted
  BY DEF IInv, Good, Counts, Accounted
<1>2. QED
  BY <1>1, InvHolds, PTL

\* GetContainer finds the texture or swap chain of which the surface is a part.
THEOREM ContainersHold == Spec => []ContainersHoldTheirSurfaces
<1>1. IInv => ContainersHoldTheirSurfaces
  <2> SUFFICES ASSUME IInv, NEW s \in Surfaces, heap.container[s] # Null
               PROVE  \E f \in Names(heap, s) : f[1] = heap.container[s]
    BY DEF ContainersHoldTheirSurfaces
  <2>1. PICK f \in Fields : heap.ptr[f] = s /\ f[1] = heap.container[s]
    BY DEF IInv, Good, Contained
  <2>2. QED
    BY <2>1 DEF Names, From
<1>2. QED
  BY <1>1, InvHolds, PTL

\* A device whose last Reset did not fail has a swap chain of its own.
THEOREM SwapChainsOwned == Spec => []OwnSwapChain
<1>1. IInv => OwnSwapChain
  <2> SUFFICES ASSUME IInv, NEW d \in Devices, heap.refs[d] > 0, ~lost[d]
               PROVE  /\ heap.ptr[The(d, "swapchain")] # Null
                      /\ heap.device[heap.ptr[The(d, "swapchain")]] = d
    BY DEF OwnSwapChain
  <2>1. d \in Objects \ Lost /\ Kind[d] = "device"
    BY DEF Devices, Of, Lost
  <2>2. QED
    BY <2>1 DEF IInv, Good, Complete
<1>2. QED
  BY <1>1, InvHolds, PTL

\* No order of releases leaves a query with a device that is gone.
THEOREM QueriesKeep == Spec => []QueriesKeepTheirDevice
<1>1. IInv => QueriesKeepTheirDevice
  <2> SUFFICES ASSUME IInv, NEW q \in Of("query"), heap.refs[q] > 0
               PROVE  heap.device[q] = heap.ptr[The(q, "device")]
    BY DEF QueriesKeepTheirDevice
  <2>1. q \in Objects \ Lost /\ Kind[q] = "query"
    BY DEF Devices, Of, Lost
  <2>2. QED
    BY <2>1 DEF IInv, Good, Complete
<1>2. QED
  BY <1>1, InvHolds, PTL

\* Who refers to an object is above it, so three steps from what the game holds
\* lead to everything.
LEMMA ReachedIs ==
  ASSUME NEW S \in SUBSET Objects
  PROVE  /\ Reached(S) \in SUBSET Objects
         /\ S \subseteq Reached(S)
         /\ \A f \in Fields : f[1] \in S /\ heap.ptr[f] \in Objects
              => heap.ptr[f] \in Reached(S)
         /\ \A o \in Reached(S) :
              o \in S \/ \E f \in Fields : f[1] \in S /\ heap.ptr[f] = o
<1>1. FieldsOf(S) = {f \in Fields : f[1] \in S}
  BY OwnFields
<1>2. QED
  BY <1>1 DEF Reached

LEMMA NamedByLive ==
  ASSUME IInv, NEW o \in Objects, heap.refs[o] > 0, game[o] = 0
  PROVE  \E f \in Fields :
           /\ heap.ptr[f] = o
           /\ f[1] \in Objects /\ heap.refs[f[1]] > 0
           /\ Height(o) < Height(f[1]) /\ Height(f[1]) \in 1..3
<1>1. Names(heap, o) # {}
  <2>1. heap.refs[o] = game[o] + Cardinality(Names(heap, o))
    BY DEF IInv, Good, Counts
  <2>2. Cardinality(Names(heap, o)) # 0
    BY <2>1
  <2>3. QED
    BY <2>2, FromFinite DEF Names
<1>2. PICK f \in Fields : heap.ptr[f] = o
  BY <1>1 DEF Names, From
<1>3. f[1] \in Objects
  BY FieldForm
<1>4. heap.refs[f[1]] # 0 /\ Height(o) < Height(f[1])
  BY <1>2, NoObject DEF IInv, Good, EmptyWhenDead, Graded, Fits
<1>5. heap.refs[f[1]] \in Nat
  BY <1>3, HeldLives DEF IInv
<1>6. QED
  BY <1>2, <1>3, <1>4, <1>5, OwnerHeight

\* What exists is what the game can get at.
THEOREM NothingLeaksOrDangles == Spec => []ExistsWhileReachable
<1>1. IInv => ExistsWhileReachable
  <2> SUFFICES ASSUME IInv PROVE ExistsWhileReachable
    OBVIOUS
  <2> DEFINE R0 == {o \in Objects : game[o] > 0}
             R1 == Reached(R0)
             R2 == Reached(R1)
             R3 == Reached(R2)
             L(n) == {o \in Objects : heap.refs[o] > 0 /\ Height(o) >= n}
  <2>1. /\ R0 \in SUBSET Objects /\ R1 \in SUBSET Objects
        /\ R2 \in SUBSET Objects /\ R3 \in SUBSET Objects
        /\ R0 \subseteq R1 /\ R1 \subseteq R2 /\ R2 \subseteq R3
    BY ReachedIs
  <2>2. \A o \in Objects : /\ heap.refs[o] \in Nat /\ game[o] \in Nat
                           /\ Height(o) \in 0..3
                           /\ game[o] > 0 => heap.refs[o] > 0
                           /\ \A f \in Fields : heap.ptr[f] = o => heap.refs[o] > 0
    BY HeldLives, HeightType DEF IInv
  \* Nothing is freed that is still named,
  <2>3. R3 \subseteq Alive(heap)
    <3>1. \A S \in SUBSET Objects :
            S \subseteq Alive(heap) => Reached(S) \subseteq Alive(heap)
      BY <2>2, ReachedIs DEF Alive
    <3>2. R0 \subseteq Alive(heap)
      BY <2>2 DEF Alive
    <3> HIDE DEF R0
    <3>3. R1 \subseteq Alive(heap)
      BY <2>1, <3>1, <3>2
    <3> HIDE DEF R1
    <3>4. R2 \subseteq Alive(heap)
      BY <2>1, <3>1, <3>3
    <3> HIDE DEF R2
    <3>5. QED
      BY <2>1, <3>1, <3>4
  \* and what exists is named from above.
  <2>4. ASSUME NEW n \in 0..3, NEW S \in SUBSET Objects, R0 \subseteq S,
               L(n + 1) \subseteq S
        PROVE  L(n) \subseteq Reached(S)
    <3> SUFFICES ASSUME NEW o \in Objects, heap.refs[o] > 0, Height(o) >= n,
                        o \notin R0
                 PROVE  o \in Reached(S)
      BY <2>4, ReachedIs
    <3>1. game[o] = 0
      BY <2>2
    <3>2. PICK f \in Fields : /\ heap.ptr[f] = o
                              /\ f[1] \in Objects /\ heap.refs[f[1]] > 0
                              /\ Height(o) < Height(f[1])
                              /\ Height(f[1]) \in 1..3
      BY <3>1, NamedByLive
    <3>3. Height(f[1]) >= n + 1
      BY <2>2, <3>2
    <3>4. f[1] \in S
      BY <2>4, <3>2, <3>3
    <3>5. QED
      BY <3>2, <3>4, ReachedIs
  <2>5. L(3) \subseteq R0
    <3> SUFFICES ASSUME NEW o \in Objects, heap.refs[o] > 0, Height(o) >= 3,
                        game[o] = 0
                 PROVE  FALSE
      BY <2>2
    <3>1. PICK f \in Fields : Height(o) < Height(f[1]) /\ Height(f[1]) \in 1..3
      BY NamedByLive
    <3>2. QED
      BY <2>2, <3>1
  <2> HIDE DEF R0, L
  <2>6. L(2) \subseteq R1
    BY <2>1, <2>4, <2>5
  <2>7. L(1) \subseteq R2
    <3> HIDE DEF R1
    <3>1. R0 \subseteq R1
      BY <2>1
    <3>2. QED
      BY <2>1, <2>4, <2>6, <3>1
  <2>8. L(0) \subseteq R3
    <3> HIDE DEF R1, R2
    <3>1. R0 \subseteq R2
      BY <2>1
    <3>2. QED
      BY <2>1, <2>4, <2>7, <3>1
  <2>9. Alive(heap) \subseteq L(0)
    BY <2>2 DEF Alive, L
  <2>10. Alive(heap) = R3
    BY <2>3, <2>8, <2>9
  <2>11. QED
    BY <2>10 DEF ExistsWhileReachable, R0
<1>2. QED
  BY <1>1, InvHolds, PTL
=============================================================================
