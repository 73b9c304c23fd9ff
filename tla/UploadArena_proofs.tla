------------------------- MODULE UploadArena_proofs -------------------------
(***************************************************************************)
(* UploadArena for any number and size of slots, any alignment and any     *)
(* sizes of the uploads, with frame numbers that wrap.  The types hold of  *)
(* any number of devices; that references lead to what was copied holds of *)
(* one device, because a second one starts the slot of the first again.    *)
(***************************************************************************)
EXTENDS UploadArena, TLAPS

AllValues == Settings \cup Buffers \cup {Blank}

LEMMA AlignUpBound ==
  ASSUME NEW n \in Nat
  PROVE  AlignUp(n) \in Nat /\ AlignUp(n) >= n
<1> DEFINE q == (n + Align - 1) \div Align
<1>1. Align \in Nat /\ Align > 0 /\ n + Align - 1 \in Nat
  BY ArenaAssumption
<1>2. q \in Nat /\ n + Align - 1 < (q + 1) * Align
  BY <1>1
<1>3. (q + 1) * Align = q * Align + Align
  BY <1>1, <1>2
<1>4. q * Align \in Nat
  BY <1>1, <1>2
<1> HIDE DEF q
<1>5. q * Align >= n
  BY <1>1, <1>2, <1>3, <1>4
<1>6. QED
  BY <1>4, <1>5 DEF AlignUp, q

\* A store writes its block and changes nothing before it or in other slots.
Stored(new, mem, slot, offset, v, n) ==
  /\ new \in [Cells -> AllValues]
  /\ \A i \in 0..(n - 1) : new[<<slot, offset + i>>] = v
  /\ \A s \in 0..(Slots - 1), i \in 0..(SlotBytes - 1) :
       (s # slot \/ i < offset) => new[<<s, i>>] = mem[<<s, i>>]

LEMMA StoreReads ==
  ASSUME NEW mem \in [Cells -> AllValues], NEW slot \in 0..(Slots - 1),
         NEW offset \in Nat, NEW v \in AllValues, NEW n \in Nat,
         offset + n <= SlotBytes
  PROVE  Stored(Store(mem, slot, offset, v, n), mem, slot, offset, v, n)
<1>1. Store(mem, slot, offset, v, n) \in [Cells -> AllValues]
  BY DEF Store
<1>2. ASSUME NEW i \in 0..(n - 1)
      PROVE  Store(mem, slot, offset, v, n)[<<slot, offset + i>>] = v
  <2>1. offset + i \in 0..(SlotBytes - 1) /\ offset + i \in offset..(offset + n - 1)
    BY ArenaAssumption
  <2>2. <<slot, offset + i>> \in Cells
    BY <2>1 DEF Cells
  <2>3. QED
    BY <2>1, <2>2 DEF Store
<1>3. ASSUME NEW s \in 0..(Slots - 1), NEW i \in 0..(SlotBytes - 1),
             s # slot \/ i < offset
      PROVE  Store(mem, slot, offset, v, n)[<<s, i>>] = mem[<<s, i>>]
  <2>1. <<s, i>> \in Cells
    BY DEF Cells
  <2>2. ~(s = slot /\ i \in offset..(offset + n - 1))
    BY <1>3
  <2>3. QED
    BY <2>1, <2>2 DEF Store
<1>4. QED
  BY <1>1, <1>2, <1>3 DEF Stored

-----------------------------------------------------------------------------
\* b is a with more in the slot in use, and nothing of it lost.
Extends(a, b) ==
  /\ b.frame = a.frame
  /\ b.slot = a.slot
  /\ a.next <= b.next
  /\ \A i \in 0..(SlotBytes - 1) :
       i < a.next => b.mem[<<a.slot, i>>] = a.mem[<<a.slot, i>>]

\* A reference into the slot in use that leads to a block of n times v.
Leads(a, ref, v, n) ==
  /\ ref.size = n
  /\ ref.slot = a.slot
  /\ ref.offset + n <= a.next
  /\ \A i \in 0..(n - 1) : a.mem[<<ref.slot, ref.offset + i>>] = v

LEMMA ExtendsReflexive ==
  ASSUME NEW a \in ArenaType
  PROVE  Extends(a, a)
BY DEF Extends, ArenaType

LEMMA ExtendsTransitive ==
  ASSUME NEW a \in ArenaType, NEW b \in ArenaType, NEW c \in ArenaType,
         Extends(a, b), Extends(b, c)
  PROVE  Extends(a, c)
BY ArenaAssumption DEF Extends, ArenaType

LEMMA LeadsOn ==
  ASSUME NEW a \in ArenaType, NEW b \in ArenaType, Extends(a, b),
         NEW ref \in RefType, NEW v, NEW n \in Nat, Leads(a, ref, v, n)
  PROVE  Leads(b, ref, v, n)
<1>1. ref.offset + n <= b.next
  BY ArenaAssumption DEF Extends, ArenaType, RefType, Leads
<1>2. ASSUME NEW i \in 0..(n - 1)
      PROVE  b.mem[<<ref.slot, ref.offset + i>>] = v
  <2>1. /\ ref.offset + i \in 0..(SlotBytes - 1)
        /\ ref.offset + i < a.next
    BY ArenaAssumption DEF ArenaType, RefType, Leads
  <2>2. QED
    BY <2>1 DEF Extends, Leads
<1>3. QED
  BY <1>1, <1>2 DEF Extends, Leads

LEMMA FollowBlock ==
  ASSUME NEW a, NEW ref \in RefType, NEW v, NEW n \in Nat, Leads(a, ref, v, n)
  PROVE  Follow(a.mem, ref) = Block(v, n)
BY DEF Leads, Follow, Block

-----------------------------------------------------------------------------
\* The two calls of the arena.

LEMMA OpenedArena ==
  ASSUME NEW a \in ArenaType, NEW f \in 0..(FrameIds - 1)
  PROVE  /\ ArenaBeginFrame(a, f) \in ArenaType
         /\ ArenaBeginFrame(a, f).frame = f
         /\ a.frame = f => ArenaBeginFrame(a, f) = a
<1>1. f % Slots \in 0..(Slots - 1)
  BY ArenaAssumption
<1>2. 0 \in 0..SlotBytes
  BY ArenaAssumption
<1>3. QED
  BY <1>1, <1>2 DEF ArenaBeginFrame, ArenaType

\* What upload_copy returns and leaves.
Copied(a, f, v, n, u) ==
  /\ u.arena \in ArenaType
  /\ u.ref \in RefType
  /\ u.ref.size \in {0, n}
  /\ a.frame = f => Extends(a, u.arena)
  /\ u.ref.size > 0 => u.arena.frame = f /\ Leads(u.arena, u.ref, v, n)

\* A copy that fits: the arena grows by it and the reference leads to it.
LEMMA CopyFits ==
  ASSUME NEW o \in ArenaType, NEW v \in AllValues, NEW n \in Nat \ {0},
         o.next <= SlotBytes - AlignUp(n)
  PROVE  LET a == [o EXCEPT !.next = @ + AlignUp(n),
                            !.mem = Store(@, o.slot, o.next, v, n)]
             ref == [slot |-> o.slot, offset |-> o.next, size |-> n]
         IN  /\ a \in ArenaType
             /\ ref \in RefType
             /\ a.frame = o.frame
             /\ Extends(o, a)
             /\ Leads(a, ref, v, n)
<1> DEFINE k == AlignUp(n)
           store == Store(o.mem, o.slot, o.next, v, n)
           a == [o EXCEPT !.next = o.next + k, !.mem = store]
           ref == [slot |-> o.slot, offset |-> o.next, size |-> n]
<1>1. k \in Nat /\ k >= n
  BY AlignUpBound
<1>2. /\ o.mem \in [Cells -> AllValues]
      /\ o.slot \in 0..(Slots - 1)
      /\ o.next \in Nat /\ o.frame \in 0..(FrameIds - 1)
      /\ SlotBytes \in Nat
  BY ArenaAssumption DEF ArenaType, AllValues
<1>3. o.next + n <= SlotBytes /\ o.next + k \in 0..SlotBytes
  BY <1>1, <1>2
<1>4. Stored(store, o.mem, o.slot, o.next, v, n)
  BY <1>2, <1>3, StoreReads
<1> HIDE DEF store, k
<1>5. a \in ArenaType
  BY <1>2, <1>3, <1>4 DEF ArenaType, AllValues, Stored
<1>6. /\ a.frame = o.frame /\ a.slot = o.slot
      /\ a.next = o.next + k /\ a.mem = store
  BY DEF ArenaType
<1>7. ref \in RefType /\ ref.slot = o.slot /\ ref.offset = o.next /\ ref.size = n
  BY <1>2 DEF RefType
<1> HIDE DEF a, ref
<1>8. Extends(o, a)
  BY <1>1, <1>2, <1>4, <1>6 DEF Extends, Stored
<1>9. Leads(a, ref, v, n)
  BY <1>1, <1>2, <1>4, <1>6, <1>7 DEF Leads, Stored
<1>10. QED
  BY <1>5, <1>6, <1>7, <1>8, <1>9 DEF a, ref, k, store

LEMMA NoRefType == NoRef \in RefType /\ NoRef.size = 0
BY ArenaAssumption DEF NoRef, RefType

LEMMA UploadCopies ==
  ASSUME NEW a \in ArenaType, NEW f \in 0..(FrameIds - 1),
         NEW v \in AllValues, NEW n \in Nat
  PROVE  Copied(a, f, v, n, UploadCopy(a, f, v, n))
<1> DEFINE u == UploadCopy(a, f, v, n)
           o == ArenaBeginFrame(a, f)
<1>1. o \in ArenaType /\ o.frame = f /\ (a.frame = f => o = a)
  BY OpenedArena
<1>2. CASE n = 0 \/ AlignUp(n) > SlotBytes
  <2>1. u = [arena |-> a, ref |-> NoRef]
    BY <1>2 DEF UploadCopy
  <2>2. u.arena = a /\ u.ref = NoRef
    BY <2>1
  <2> HIDE DEF u
  <2>3. QED
    BY <2>2, NoRefType, ExtendsReflexive DEF Copied, u
<1>3. CASE ~(n = 0 \/ AlignUp(n) > SlotBytes) /\ o.next > SlotBytes - AlignUp(n)
  <2>1. u = [arena |-> o, ref |-> NoRef]
    BY <1>3 DEF UploadCopy
  <2>2. u.arena = o /\ u.ref = NoRef
    BY <2>1
  <2> HIDE DEF u, o
  <2>3. QED
    BY <1>1, <2>2, NoRefType, ExtendsReflexive DEF Copied, u
<1>4. CASE ~(n = 0 \/ AlignUp(n) > SlotBytes) /\ ~(o.next > SlotBytes - AlignUp(n))
  <2> DEFINE b == [o EXCEPT !.next = @ + AlignUp(n),
                            !.mem = Store(@, o.slot, o.next, v, n)]
             ref == [slot |-> o.slot, offset |-> o.next, size |-> n]
  <2>1. u = [arena |-> b, ref |-> ref]
    BY <1>4 DEF UploadCopy
  <2>2. u.arena = b /\ u.ref = ref
    BY <2>1
  <2>3. o.next <= SlotBytes - AlignUp(n) /\ n \in Nat \ {0}
    BY <1>1, <1>4, AlignUpBound, ArenaAssumption DEF ArenaType
  <2> HIDE DEF o
  <2>4. /\ b \in ArenaType
        /\ ref \in RefType
        /\ b.frame = o.frame
        /\ Extends(o, b)
        /\ Leads(b, ref, v, n)
    BY <1>1, <2>3, CopyFits
  <2>5. ref.size = n
    OBVIOUS
  <2> HIDE DEF u, b, ref
  <2>6. QED
    BY <1>1, <2>2, <2>4, <2>5 DEF Copied, u
<1>5. QED
  BY <1>2, <1>3, <1>4

\* A cached reference that may be used again.
Cached(a, f, c) ==
  ~c.dirty /\ c.ref.size > 0 =>
    a.frame = f /\ Leads(a, c.ref, c.value, ConstantBytes)

LEMMA ConstantsCopied ==
  ASSUME NEW a \in ArenaType, NEW f \in 0..(FrameIds - 1),
         NEW c \in ConstantType, Cached(a, f, c)
  PROVE  Copied(a, f, c.value, ConstantBytes, ConstantRef(a, f, c))
<1>1. /\ c.value \in AllValues /\ ConstantBytes \in Nat
      /\ c.ref \in RefType /\ c.dirty \in BOOLEAN
  BY ArenaAssumption DEF ConstantType, AllValues
<1>2. CASE c.dirty \/ c.ref.size = 0
  BY <1>1, <1>2, UploadCopies DEF ConstantRef
<1>3. CASE ~(c.dirty \/ c.ref.size = 0)
  <2>1. ConstantRef(a, f, c) = [arena |-> a, ref |-> c.ref]
    BY <1>3 DEF ConstantRef
  <2>2. c.ref.size > 0
    BY <1>1, <1>3 DEF RefType
  <2>3. a.frame = f /\ Leads(a, c.ref, c.value, ConstantBytes)
    BY <1>3, <2>2, SMTT(60) DEF Cached
  <2>4. QED
    BY <1>1, <2>1, <2>3, ExtendsReflexive DEF Copied, Leads
<1>4. QED
  BY <1>2, <1>3

-----------------------------------------------------------------------------
\* The three uploads of a draw.

VsCopy(d) == ConstantRef(arena, frameId[d], constants[d]["vs"])
PsCopy(d) == ConstantRef(VsCopy(d).arena, frameId[d], constants[d]["ps"])
Other(d, v, n) == UploadCopy(PsCopy(d).arena, frameId[d], v, n)

Command(d, v, n) ==
  [refs |-> [vs |-> VsCopy(d).ref, ps |-> PsCopy(d).ref,
             payload |-> Other(d, v, n).ref],
   content |-> Content(Block(constants[d]["vs"].value, ConstantBytes),
                       Block(constants[d]["ps"].value, ConstantBytes),
                       Block(v, Other(d, v, n).ref.size))]

LEMMA DrawEffect ==
  ASSUME NEW d \in Devices, NEW v \in Buffers, NEW n \in Payloads, Draw(d, v, n)
  PROVE  /\ begun[d]
         /\ arena' = Other(d, v, n).arena
         /\ constants' = [constants EXCEPT
                            ![d] = Sent(constants[d], VsCopy(d).ref, PsCopy(d).ref)]
         /\ commands' = IF VsCopy(d).ref.size > 0 /\ PsCopy(d).ref.size > 0
                          THEN commands \cup {Command(d, v, n)} ELSE commands
         /\ mapped' = TRUE
         /\ UNCHANGED <<crashed, frameId, begun, lastFrame, screen>>
BY DEF Draw, MayDraw, VsCopy, PsCopy, Other, Command

LEMMA ConstantRefType ==
  ASSUME NEW a \in ArenaType, NEW f \in 0..(FrameIds - 1), NEW c \in ConstantType
  PROVE  /\ ConstantRef(a, f, c).arena \in ArenaType
         /\ ConstantRef(a, f, c).ref \in RefType
<1>1. c.value \in AllValues /\ ConstantBytes \in Nat /\ c.ref \in RefType
  BY ArenaAssumption DEF ConstantType, AllValues
<1>2. CASE c.dirty \/ c.ref.size = 0
  BY <1>1, <1>2, UploadCopies DEF ConstantRef, Copied
<1>3. CASE ~(c.dirty \/ c.ref.size = 0)
  BY <1>1, <1>3 DEF ConstantRef
<1>4. QED
  BY <1>2, <1>3

LEMMA UploadsTyped ==
  ASSUME TypeOK, NEW d \in Devices, NEW v \in Buffers, NEW n \in Payloads
  PROVE  /\ VsCopy(d).arena \in ArenaType /\ VsCopy(d).ref \in RefType
         /\ PsCopy(d).arena \in ArenaType /\ PsCopy(d).ref \in RefType
         /\ Other(d, v, n).arena \in ArenaType
         /\ Other(d, v, n).ref \in RefType
         /\ Other(d, v, n).ref.size \in {0, n}
<1>1. /\ frameId[d] \in 0..(FrameIds - 1)
      /\ constants[d]["vs"] \in ConstantType
      /\ constants[d]["ps"] \in ConstantType
      /\ arena \in ArenaType
  BY DEF TypeOK, Kinds
<1>2. VsCopy(d).arena \in ArenaType /\ VsCopy(d).ref \in RefType
  BY <1>1, ConstantRefType DEF VsCopy
<1>3. PsCopy(d).arena \in ArenaType /\ PsCopy(d).ref \in RefType
  BY <1>1, <1>2, ConstantRefType DEF PsCopy
<1>4. v \in AllValues /\ n \in Nat
  BY ArenaAssumption DEF AllValues
<1>5. Copied(PsCopy(d).arena, frameId[d], v, n, Other(d, v, n))
  BY <1>1, <1>3, <1>4, UploadCopies DEF Other
<1>6. QED
  BY <1>2, <1>3, <1>5 DEF Copied

LEMMA SentType ==
  ASSUME NEW cs \in [Kinds -> ConstantType],
         NEW vs \in RefType, NEW ps \in RefType
  PROVE  Sent(cs, vs, ps) \in [Kinds -> ConstantType]
<1>1. ASSUME NEW kind \in Kinds, NEW ref \in RefType
      PROVE  [cs[kind] EXCEPT !.ref = ref, !.dirty = FALSE] \in ConstantType
  BY DEF ConstantType
<1>2. QED
  BY <1>1 DEF Sent

LEMMA InvalidatedType ==
  ASSUME NEW cs \in [Kinds -> ConstantType]
  PROVE  Invalidated(cs) \in [Kinds -> ConstantType]
<1>1. ASSUME NEW kind \in Kinds
      PROVE  [cs[kind] EXCEPT !.ref = NoRef, !.dirty = TRUE] \in ConstantType
  BY NoRefType DEF ConstantType
<1>2. QED
  BY <1>1 DEF Invalidated

CommandType ==
  [refs : [vs : RefType, ps : RefType, payload : RefType], content : Contents]

LEMMA CommandTyped ==
  ASSUME TypeOK, NEW d \in Devices, NEW v \in Buffers, NEW n \in Payloads
  PROVE  Command(d, v, n) \in CommandType
<1>1. /\ constants[d]["vs"].value \in Settings \cup {Blank}
      /\ constants[d]["ps"].value \in Settings \cup {Blank}
  BY DEF TypeOK, Kinds, ConstantType
<1>2. Other(d, v, n).ref.size \in Payloads \cup {0}
  BY UploadsTyped
<1>3. Command(d, v, n).content \in Contents
  BY <1>1, <1>2 DEF Command, Contents
<1>4. Command(d, v, n).refs \in [vs : RefType, ps : RefType, payload : RefType]
  BY UploadsTyped DEF Command
<1>5. QED
  BY <1>3, <1>4 DEF Command, CommandType

LEMMA TypeStep ==
  ASSUME TypeOK, [Next]_vars
  PROVE  TypeOK'
<1> USE DEF TypeOK
<1>1. ASSUME NEW d \in Devices, BeginScene(d)
      PROVE  TypeOK'
  <2>1. /\ begun' \in [Devices -> BOOLEAN]
        /\ commands' \subseteq commands
        /\ lastFrame' \in 0..(FrameIds - 1)
    BY <1>1 DEF BeginScene
  <2>2. QED
    BY <1>1, <2>1 DEF BeginScene
<1>2. ASSUME NEW d \in Devices, Present(d)
      PROVE  TypeOK'
  <2>1. (frameId[d] + 1) % FrameIds \in 0..(FrameIds - 1)
    BY ArenaAssumption
  <2>2. frameId' \in [Devices -> 0..(FrameIds - 1)]
    BY <1>2, <2>1 DEF Present
  <2>3. constants' \in [Devices -> [Kinds -> ConstantType]]
    BY <1>2, InvalidatedType DEF Present
  <2>4. begun' \in [Devices -> BOOLEAN] /\ lastFrame' \in 0..(FrameIds - 1)
    BY <1>2 DEF Present
  <2>5. QED
    BY <1>2, <2>2, <2>3, <2>4 DEF Present
<1>3. ASSUME NEW d \in Devices, DrawWithoutArena(d)
      PROVE  TypeOK'
  BY <1>3 DEF DrawWithoutArena, device, bridge
<1>4. ASSUME NEW d \in Devices, NEW kind \in Kinds, NEW v \in Settings,
             SetConstants(d, kind, v)
      PROVE  TypeOK'
  <2>1. [constants[d][kind] EXCEPT !.value = v, !.dirty = TRUE] \in ConstantType
    <3>1. constants[d][kind] \in ConstantType
      OBVIOUS
    <3>2. QED
      BY <3>1 DEF ConstantType
  <2>2. constants' =
          [constants EXCEPT ![d] = [constants[d] EXCEPT
             ![kind] = [constants[d][kind] EXCEPT !.value = v, !.dirty = TRUE]]]
    BY <1>4 DEF SetConstants
  <2>3. constants' \in [Devices -> [Kinds -> ConstantType]]
    BY <2>1, <2>2
  <2>4. QED
    BY <1>4, <2>3 DEF SetConstants, bridge
<1>5. ASSUME NEW d \in Devices, NEW v \in Buffers, NEW n \in Payloads,
             Draw(d, v, n)
      PROVE  TypeOK'
  <2>0. /\ arena' = Other(d, v, n).arena
        /\ commands' \in {commands, commands \cup {Command(d, v, n)}}
    BY <1>5, DrawEffect
  <2>1. arena' \in ArenaType
    BY <2>0, UploadsTyped
  <2>2. Sent(constants[d], VsCopy(d).ref, PsCopy(d).ref) \in [Kinds -> ConstantType]
    BY UploadsTyped, SentType
  <2>3. constants' \in [Devices -> [Kinds -> ConstantType]]
    BY <1>5, <2>2, DrawEffect
  <2>4. commands' \subseteq CommandType
    <3>1. Command(d, v, n) \in CommandType
      BY CommandTyped
    <3>2. QED
      BY <2>0, <3>1 DEF CommandType
  <2>5. QED
    BY <1>5, <2>1, <2>3, <2>4, DrawEffect DEF CommandType
<1>6. CASE UNCHANGED vars
  BY <1>6 DEF vars, device, bridge
<1>7. QED
  BY <1>1, <1>2, <1>3, <1>4, <1>5, <1>6 DEF Next

\* The arena never grows beyond its slot and every reference stays typed, for
\* any number of devices and any game.
THEOREM TypeCorrect == Spec => []TypeOK
<1>1. Init => TypeOK
  <2> SUFFICES ASSUME Init
               PROVE  TypeOK
    OBVIOUS
  <2>1. arena \in ArenaType
    BY ArenaAssumption DEF Init, ArenaType
  <2>2. FreshConstants \in [Kinds -> ConstantType]
    BY NoRefType DEF FreshConstants, ConstantType
  <2>3. constants \in [Devices -> [Kinds -> ConstantType]]
    BY <2>2 DEF Init
  <2>4. /\ frameId \in [Devices -> 0..(FrameIds - 1)]
        /\ lastFrame \in 0..(FrameIds - 1)
    BY ArenaAssumption DEF Init
  <2>5. QED
    BY <2>1, <2>3, <2>4 DEF Init, TypeOK
<1>2. TypeOK /\ [Next]_vars => TypeOK'
  BY TypeStep
<1>3. QED
  BY <1>1, <1>2, PTL DEF Spec

-----------------------------------------------------------------------------
\* One device.

OneDevice == \A d, e \in Devices : d = e

PlacedIn(a, ref) ==
  ref.size > 0 => ref.slot = a.slot /\ ref.offset + ref.size <= a.next

LEMMA FollowKept ==
  ASSUME NEW a \in ArenaType, NEW b \in ArenaType, Extends(a, b),
         NEW ref \in RefType, PlacedIn(a, ref)
  PROVE  PlacedIn(b, ref) /\ Follow(b.mem, ref) = Follow(a.mem, ref)
<1>1. /\ ref.size \in Nat /\ ref.offset \in Nat
      /\ a.next \in 0..SlotBytes /\ b.next \in 0..SlotBytes
      /\ SlotBytes \in Nat
  BY ArenaAssumption DEF ArenaType, RefType
<1>2. PlacedIn(b, ref)
  BY <1>1 DEF Extends, PlacedIn
<1>3. ASSUME NEW i \in 0..(ref.size - 1)
      PROVE  b.mem[<<ref.slot, ref.offset + i>>] = a.mem[<<ref.slot, ref.offset + i>>]
  <2>1. /\ ref.offset + i \in 0..(SlotBytes - 1)
        /\ ref.offset + i < a.next
        /\ ref.slot = a.slot
    BY <1>1 DEF PlacedIn
  <2>2. QED
    BY <2>1 DEF Extends
<1>4. Follow(b.mem, ref) = Follow(a.mem, ref)
  BY <1>3 DEF Follow
<1>5. QED
  BY <1>2, <1>4

LEMMA NothingFollowed ==
  ASSUME NEW mem, NEW ref \in RefType, ref.size = 0, NEW v
  PROVE  Follow(mem, ref) = Block(v, 0)
<1>1. 0..(ref.size - 1) = {} /\ 0..(0 - 1) = {}
  OBVIOUS
<1>2. QED
  BY <1>1 DEF Follow, Block

\* A reference that leads to a block of constants has its size.
LEMMA BlockSize ==
  ASSUME NEW mem, NEW ref \in RefType, NEW v, ref.size > 0,
         Follow(mem, ref) = Block(v, ConstantBytes)
  PROVE  /\ ref.size = ConstantBytes
         /\ \A i \in 0..(ConstantBytes - 1) :
              mem[<<ref.slot, ref.offset + i>>] = v
<1>1. ref.size \in Nat /\ ConstantBytes \in Nat \ {0}
  BY ArenaAssumption DEF RefType
<1>2. 0..(ref.size - 1) = 0..(ConstantBytes - 1)
  <2>1. DOMAIN Follow(mem, ref) = 0..(ref.size - 1)
    BY DEF Follow
  <2>2. DOMAIN Block(v, ConstantBytes) = 0..(ConstantBytes - 1)
    BY DEF Block
  <2>3. QED
    BY <2>1, <2>2
<1>3. ref.size = ConstantBytes
  <2>1. ref.size - 1 \in 0..(ConstantBytes - 1)
    BY <1>1, <1>2
  <2>2. ConstantBytes - 1 \in 0..(ref.size - 1)
    BY <1>1, <1>2
  <2>3. QED
    BY <1>1, <2>1, <2>2
<1>4. ASSUME NEW i \in 0..(ConstantBytes - 1)
      PROVE  mem[<<ref.slot, ref.offset + i>>] = v
  <2>1. Follow(mem, ref)[i] = mem[<<ref.slot, ref.offset + i>>]
    BY <1>2 DEF Follow
  <2>2. Block(v, ConstantBytes)[i] = v
    BY DEF Block
  <2>3. QED
    BY <2>1, <2>2
<1>5. QED
  BY <1>3, <1>4

LEMMA CachedHolds ==
  ASSUME IInv, NEW d \in Devices, NEW kind \in Kinds
  PROVE  Cached(arena, frameId[d], constants[d][kind])
<1> DEFINE c == constants[d][kind]
<1>1. SUFFICES ASSUME ~c.dirty, c.ref.size > 0
               PROVE  arena.frame = frameId[d]
                        /\ Leads(arena, c.ref, c.value, ConstantBytes)
  BY DEF Cached
<1>2. /\ arena.frame = frameId[d]
      /\ Follow(arena.mem, c.ref) = Block(c.value, ConstantBytes)
  BY <1>1 DEF IInv, CachedConstantsAreCurrent
<1>3. c.ref.slot = arena.slot /\ c.ref.offset + c.ref.size <= arena.next
  BY <1>1 DEF IInv, PlacedInv, Placed
<1>4. c.ref \in RefType
  BY DEF IInv, TypeOK, ConstantType
<1> HIDE DEF c
<1>5. /\ c.ref.size = ConstantBytes
      /\ \A i \in 0..(ConstantBytes - 1) :
           arena.mem[<<c.ref.slot, c.ref.offset + i>>] = c.value
  BY <1>1, <1>2, <1>4, BlockSize
<1>6. QED
  BY <1>2, <1>3, <1>5 DEF Leads

\* The three uploads of a draw, one after another.
LEMMA DrawCopies ==
  ASSUME IInv, NEW d \in Devices, NEW v \in Buffers, NEW n \in Payloads
  PROVE  /\ Copied(arena, frameId[d], constants[d]["vs"].value, ConstantBytes,
                   VsCopy(d))
         /\ Copied(VsCopy(d).arena, frameId[d], constants[d]["ps"].value,
                   ConstantBytes, PsCopy(d))
         /\ Copied(PsCopy(d).arena, frameId[d], v, n, Other(d, v, n))
<1> DEFINE f == frameId[d]
           vs == constants[d]["vs"]
           ps == constants[d]["ps"]
           a1 == VsCopy(d).arena
<1>1. /\ f \in 0..(FrameIds - 1) /\ arena \in ArenaType
      /\ vs \in ConstantType /\ ps \in ConstantType
      /\ a1 \in ArenaType /\ PsCopy(d).arena \in ArenaType
  BY UploadsTyped DEF IInv, TypeOK, Kinds
<1>2. Cached(arena, f, vs) /\ Cached(arena, f, ps)
  BY CachedHolds DEF Kinds
<1>3. v \in AllValues /\ n \in Nat /\ ConstantBytes \in Nat
  BY ArenaAssumption DEF AllValues
<1>4. VsCopy(d) = ConstantRef(arena, f, vs) /\ PsCopy(d) = ConstantRef(a1, f, ps)
  BY DEF VsCopy, PsCopy
<1>5. Other(d, v, n) = UploadCopy(PsCopy(d).arena, f, v, n)
  BY DEF Other
<1>6. ps.ref \in RefType
  BY <1>1 DEF ConstantType
<1> HIDE DEF f, vs, ps, a1
<1>7. Copied(arena, f, vs.value, ConstantBytes, VsCopy(d))
  BY <1>1, <1>2, <1>4, ConstantsCopied
<1>8. Cached(a1, f, ps)
  <2>1. SUFFICES ASSUME ~ps.dirty, ps.ref.size > 0
                 PROVE  a1.frame = f /\ Leads(a1, ps.ref, ps.value, ConstantBytes)
    BY DEF Cached
  <2>2. arena.frame = f /\ Leads(arena, ps.ref, ps.value, ConstantBytes)
    BY <1>2, <2>1 DEF Cached
  <2>3. Extends(arena, a1)
    BY <1>7, <2>2 DEF Copied, a1
  <2>4. Leads(a1, ps.ref, ps.value, ConstantBytes)
    BY <1>1, <1>3, <1>6, <2>2, <2>3, LeadsOn
  <2>5. QED
    BY <2>2, <2>3, <2>4 DEF Extends
<1>9. Copied(a1, f, ps.value, ConstantBytes, PsCopy(d))
  BY <1>1, <1>4, <1>8, ConstantsCopied
<1>10. Copied(PsCopy(d).arena, f, v, n, Other(d, v, n))
  BY <1>1, <1>3, <1>5, UploadCopies
<1>11. QED
  BY <1>7, <1>9, <1>10 DEF f, vs, ps, a1

\* Together: nothing of the frame is lost, and every reference of the draw
\* leads to its data when all three are done.
LEMMA DrawLeads ==
  ASSUME IInv, NEW d \in Devices, NEW v \in Buffers, NEW n \in Payloads
  PROVE  LET a == Other(d, v, n).arena IN
         /\ arena.frame = frameId[d] => Extends(arena, a)
         /\ VsCopy(d).ref.size > 0 =>
              /\ a.frame = frameId[d]
              /\ Leads(a, VsCopy(d).ref, constants[d]["vs"].value, ConstantBytes)
         /\ PsCopy(d).ref.size > 0 =>
              /\ a.frame = frameId[d]
              /\ Leads(a, PsCopy(d).ref, constants[d]["ps"].value, ConstantBytes)
         /\ Other(d, v, n).ref.size > 0 =>
              Leads(a, Other(d, v, n).ref, v, Other(d, v, n).ref.size)
<1> DEFINE f == frameId[d]
           x == constants[d]["vs"].value
           y == constants[d]["ps"].value
           u1 == VsCopy(d)
           u2 == PsCopy(d)
           u3 == Other(d, v, n)
<1>1. /\ arena \in ArenaType /\ u1.arena \in ArenaType
      /\ u2.arena \in ArenaType /\ u3.arena \in ArenaType
      /\ u1.ref \in RefType /\ u2.ref \in RefType
  BY UploadsTyped DEF IInv, TypeOK
<1>2. /\ Copied(arena, f, x, ConstantBytes, u1)
      /\ Copied(u1.arena, f, y, ConstantBytes, u2)
      /\ Copied(u2.arena, f, v, n, u3)
  BY DrawCopies
<1>3. ConstantBytes \in Nat
  BY ArenaAssumption
<1> SUFFICES /\ arena.frame = f => Extends(arena, u3.arena)
             /\ u1.ref.size > 0 =>
                  u3.arena.frame = f /\ Leads(u3.arena, u1.ref, x, ConstantBytes)
             /\ u2.ref.size > 0 =>
                  u3.arena.frame = f /\ Leads(u3.arena, u2.ref, y, ConstantBytes)
             /\ u3.ref.size > 0 => Leads(u3.arena, u3.ref, v, u3.ref.size)
  OBVIOUS
<1> HIDE DEF f, x, y, u1, u2, u3
<1>4. u2.arena.frame = f => Extends(u2.arena, u3.arena) /\ u3.arena.frame = f
  BY <1>2 DEF Copied, Extends
<1>5. u1.arena.frame = f => Extends(u1.arena, u3.arena) /\ u3.arena.frame = f
  <2>1. u1.arena.frame = f => Extends(u1.arena, u2.arena) /\ u2.arena.frame = f
    BY <1>2 DEF Copied, Extends
  <2>2. QED
    BY <1>1, <1>4, <2>1, ExtendsTransitive
<1>6. arena.frame = f => Extends(arena, u3.arena)
  <2>1. arena.frame = f => Extends(arena, u1.arena) /\ u1.arena.frame = f
    BY <1>2 DEF Copied, Extends
  <2>2. QED
    BY <1>1, <1>5, <2>1, ExtendsTransitive
<1>7. u1.ref.size > 0 =>
        u3.arena.frame = f /\ Leads(u3.arena, u1.ref, x, ConstantBytes)
  <2>1. u1.ref.size > 0 =>
          u1.arena.frame = f /\ Leads(u1.arena, u1.ref, x, ConstantBytes)
    BY <1>2 DEF Copied
  <2>2. QED
    BY <1>1, <1>3, <1>5, <2>1, LeadsOn
<1>8. u2.ref.size > 0 =>
        u3.arena.frame = f /\ Leads(u3.arena, u2.ref, y, ConstantBytes)
  <2>1. u2.ref.size > 0 =>
          u2.arena.frame = f /\ Leads(u2.arena, u2.ref, y, ConstantBytes)
    BY <1>2 DEF Copied
  <2>2. QED
    BY <1>1, <1>3, <1>4, <2>1, LeadsOn
<1>9. u3.ref.size > 0 => Leads(u3.arena, u3.ref, v, u3.ref.size)
  BY <1>2 DEF Copied, Leads
<1>10. QED
  BY <1>6, <1>7, <1>8, <1>9

-----------------------------------------------------------------------------
\* Every action keeps the invariant.

LEMMA LeadsFollow ==
  ASSUME NEW a, NEW ref \in RefType, NEW v, NEW n \in Nat, Leads(a, ref, v, n)
  PROVE  PlacedIn(a, ref) /\ Follow(a.mem, ref) = Block(v, n)
<1>1. PlacedIn(a, ref)
  BY DEF PlacedIn, Leads
<1>2. QED
  BY <1>1, FollowBlock

\* The command of an accepted draw.
LEMMA CommandLeads ==
  ASSUME IInv, NEW d \in Devices, NEW v \in Buffers, NEW n \in Payloads,
         VsCopy(d).ref.size > 0, PsCopy(d).ref.size > 0
  PROVE  LET a == Other(d, v, n).arena
             c == Command(d, v, n)
         IN  /\ PlacedIn(a, c.refs.vs)
             /\ PlacedIn(a, c.refs.ps)
             /\ PlacedIn(a, c.refs.payload)
             /\ Followed(a.mem, c.refs) = c.content
<1> DEFINE a == Other(d, v, n).arena
           c == Command(d, v, n)
           vs == VsCopy(d).ref
           ps == PsCopy(d).ref
           other == Other(d, v, n).ref
           x == constants[d]["vs"].value
           y == constants[d]["ps"].value
<1>1. vs \in RefType /\ ps \in RefType /\ other \in RefType
  BY UploadsTyped DEF IInv
<1>2. c = [refs |-> [vs |-> vs, ps |-> ps, payload |-> other],
           content |-> Content(Block(x, ConstantBytes), Block(y, ConstantBytes),
                               Block(v, other.size))]
  BY DEF Command
<1>3. /\ Leads(a, vs, x, ConstantBytes)
      /\ Leads(a, ps, y, ConstantBytes)
      /\ other.size > 0 => Leads(a, other, v, other.size)
  BY DrawLeads
<1>4. ConstantBytes \in Nat /\ other.size \in Nat
  BY <1>1, ArenaAssumption DEF RefType
<1> HIDE DEF a, c, vs, ps, other, x, y
<1>5. PlacedIn(a, vs) /\ Follow(a.mem, vs) = Block(x, ConstantBytes)
  BY <1>1, <1>3, <1>4, LeadsFollow
<1>6. PlacedIn(a, ps) /\ Follow(a.mem, ps) = Block(y, ConstantBytes)
  BY <1>1, <1>3, <1>4, LeadsFollow
<1>7. PlacedIn(a, other) /\ Follow(a.mem, other) = Block(v, other.size)
  <2>1. CASE other.size > 0
    BY <1>1, <1>3, <1>4, <2>1, LeadsFollow
  <2>2. CASE other.size = 0
    BY <1>1, <2>2, NothingFollowed DEF PlacedIn
  <2>3. QED
    BY <1>4, <2>1, <2>2
<1>8. Followed(a.mem, c.refs) = c.content
  BY <1>2, <1>5, <1>6, <1>7 DEF Followed
<1>9. QED
  BY <1>2, <1>5, <1>6, <1>7, <1>8 DEF a, c

\* The commands there were before the draw.
LEMMA CommandsKept ==
  ASSUME IInv, NEW a \in ArenaType, Extends(arena, a), NEW d \in Devices,
         begun[d], NEW c \in commands
  PROVE  /\ PlacedIn(a, c.refs.vs)
         /\ PlacedIn(a, c.refs.ps)
         /\ PlacedIn(a, c.refs.payload)
         /\ Followed(a.mem, c.refs) = c.content
<1>1. /\ arena \in ArenaType
      /\ c.refs.vs \in RefType /\ c.refs.ps \in RefType
      /\ c.refs.payload \in RefType
  BY DEF IInv, TypeOK
<1>2. /\ PlacedIn(arena, c.refs.vs)
      /\ PlacedIn(arena, c.refs.ps)
      /\ PlacedIn(arena, c.refs.payload)
  BY DEF IInv, PlacedInv, Placed, PlacedIn
<1>3. /\ PlacedIn(a, c.refs.vs)
      /\ Follow(a.mem, c.refs.vs) = Follow(arena.mem, c.refs.vs)
  BY <1>1, <1>2, FollowKept
<1>4. /\ PlacedIn(a, c.refs.ps)
      /\ Follow(a.mem, c.refs.ps) = Follow(arena.mem, c.refs.ps)
  BY <1>1, <1>2, FollowKept
<1>5. /\ PlacedIn(a, c.refs.payload)
      /\ Follow(a.mem, c.refs.payload) = Follow(arena.mem, c.refs.payload)
  BY <1>1, <1>2, FollowKept
<1>6. Followed(arena.mem, c.refs) = c.content
  BY DEF IInv, CommandsKeepTheirData
<1>7. QED
  BY <1>3, <1>4, <1>5, <1>6 DEF Followed

DataInv == PlacedInv /\ FrameInv /\ CommandsKeepTheirData
             /\ CachedConstantsAreCurrent

LEMMA DrawStep ==
  ASSUME OneDevice, IInv, NEW d \in Devices, NEW v \in Buffers,
         NEW n \in Payloads, Draw(d, v, n)
  PROVE  DataInv'
<1> DEFINE a == Other(d, v, n).arena
           f == frameId[d]
           vs == VsCopy(d).ref
           ps == PsCopy(d).ref
           c == Command(d, v, n)
<1>1. /\ begun[d]
      /\ arena' = a
      /\ constants' = [constants EXCEPT ![d] = Sent(constants[d], vs, ps)]
      /\ commands' = IF vs.size > 0 /\ ps.size > 0
                       THEN commands \cup {c} ELSE commands
      /\ UNCHANGED <<frameId, begun, lastFrame>>
  BY DrawEffect
<1>2. \A e \in Devices : e = d
  BY DEF OneDevice
<1>3. /\ a \in ArenaType /\ vs \in RefType /\ ps \in RefType
      /\ constants \in [Devices -> [Kinds -> ConstantType]]
  BY UploadsTyped DEF IInv, TypeOK
<1>4. /\ arena.frame = f => Extends(arena, a)
      /\ vs.size > 0 => a.frame = f
                          /\ Leads(a, vs, constants[d]["vs"].value, ConstantBytes)
      /\ ps.size > 0 => a.frame = f
                          /\ Leads(a, ps, constants[d]["ps"].value, ConstantBytes)
  BY DrawLeads
<1>5. commands # {} => arena.frame = f /\ Extends(arena, a) /\ a.frame = f
  BY <1>1, <1>4 DEF IInv, FrameInv, Extends
<1>6. ConstantBytes \in Nat
  BY ArenaAssumption
<1>7. vs.size > 0 =>
        PlacedIn(a, vs) /\ Follow(a.mem, vs) = Block(constants[d]["vs"].value, ConstantBytes)
  <2> HIDE DEF a, f, vs, ps
  <2>1. /\ vs \in RefType
        /\ vs.size > 0 => Leads(a, vs, constants[d]["vs"].value, ConstantBytes)
    BY <1>3, <1>4
  <2>2. QED
    BY <1>6, <2>1, LeadsFollow, Zenon
<1>8. ps.size > 0 =>
        PlacedIn(a, ps) /\ Follow(a.mem, ps) = Block(constants[d]["ps"].value, ConstantBytes)
  <2> HIDE DEF a, f, vs, ps
  <2>1. /\ ps \in RefType
        /\ ps.size > 0 => Leads(a, ps, constants[d]["ps"].value, ConstantBytes)
    BY <1>3, <1>4
  <2>2. QED
    BY <1>6, <2>1, LeadsFollow, Zenon
<1>9. ASSUME NEW k \in commands'
      PROVE  /\ a.frame = f
             /\ PlacedIn(a, k.refs.vs)
             /\ PlacedIn(a, k.refs.ps)
             /\ PlacedIn(a, k.refs.payload)
             /\ Followed(a.mem, k.refs) = k.content
  <2>1. CASE k \in commands
    BY <1>1, <1>3, <1>5, <2>1, CommandsKept
  <2>2. CASE k = c /\ vs.size > 0 /\ ps.size > 0
    BY <1>4, <2>2, CommandLeads
  <2>3. QED
    BY <1>1, <1>9, <2>1, <2>2
<1>10. ASSUME NEW kind \in Kinds
       PROVE  LET k == constants'[d][kind] IN
              k.ref.size > 0 =>
                /\ a.frame = f
                /\ PlacedIn(a, k.ref)
                /\ Follow(a.mem, k.ref) = Block(k.value, ConstantBytes)
  <2>1. constants'[d] = Sent(constants[d], vs, ps)
    BY <1>1, <1>3
  <2>2. constants[d]["vs"] \in ConstantType /\ constants[d]["ps"] \in ConstantType
    BY <1>3 DEF Kinds
  <2> HIDE DEF a, f, vs, ps, c
  <2>3. CASE kind = "vs"
    <3>1. constants'[d][kind] = [constants[d]["vs"] EXCEPT !.ref = vs, !.dirty = FALSE]
      BY <2>1, <2>3 DEF Sent, Kinds
    <3>2. /\ constants'[d][kind].ref = vs
          /\ constants'[d][kind].value = constants[d]["vs"].value
      BY <2>2, <3>1 DEF ConstantType
    <3>3. QED
      BY <1>4, <1>7, <3>2
  <2>4. CASE kind = "ps"
    <3>1. constants'[d][kind] = [constants[d]["ps"] EXCEPT !.ref = ps, !.dirty = FALSE]
      BY <2>1, <2>4 DEF Sent, Kinds
    <3>2. /\ constants'[d][kind].ref = ps
          /\ constants'[d][kind].value = constants[d]["ps"].value
      BY <2>2, <3>1 DEF ConstantType
    <3>3. QED
      BY <1>4, <1>8, <3>2
  <2>5. QED
    BY <2>3, <2>4 DEF Kinds
<1> HIDE DEF a, f, vs, ps, c
<1>11. PlacedInv'
  <2>1. ASSUME NEW kind \in Kinds
        PROVE  Placed(constants[d][kind].ref)'
    BY <1>1, <1>10 DEF Placed, PlacedIn
  <2>2. QED
    BY <1>1, <1>2, <1>9, <2>1 DEF PlacedInv, Placed, PlacedIn
<1>12. FrameInv'
  <2>1. commands' # {} => a.frame = f
    BY <1>9
  <2>2. QED
    BY <1>1, <1>2, <2>1 DEF FrameInv, IInv, f
<1>13. CommandsKeepTheirData'
  BY <1>1, <1>9 DEF CommandsKeepTheirData
<1>14. CachedConstantsAreCurrent'
  BY <1>1, <1>2, <1>10 DEF CachedConstantsAreCurrent, f
<1>15. QED
  BY <1>11, <1>12, <1>13, <1>14 DEF DataInv

LEMMA BeginSceneStep ==
  ASSUME OneDevice, IInv, NEW d \in Devices, BeginScene(d)
  PROVE  DataInv'
<1>1. /\ begun' = [begun EXCEPT ![d] = TRUE]
      /\ commands' = IF frameId[d] # lastFrame THEN {} ELSE commands
      /\ lastFrame' = frameId[d]
      /\ UNCHANGED <<arena, frameId, constants>>
  BY DEF BeginScene
<1>2. begun'[d] /\ \A e \in Devices : e = d
  BY <1>1 DEF OneDevice, IInv, TypeOK
<1>3. commands' # {} => begun[d] /\ commands' = commands
  BY <1>1 DEF IInv, FrameInv
<1>4. PlacedInv'
  BY <1>1, <1>2, <1>3 DEF IInv, PlacedInv, Placed
<1>5. FrameInv'
  BY <1>1, <1>2, <1>3 DEF IInv, FrameInv
<1>6. CommandsKeepTheirData'
  BY <1>1, <1>2, <1>3 DEF IInv, CommandsKeepTheirData
<1>7. CachedConstantsAreCurrent'
  BY <1>1 DEF IInv, CachedConstantsAreCurrent
<1>8. QED
  BY <1>4, <1>5, <1>6, <1>7 DEF DataInv

LEMMA PresentStep ==
  ASSUME OneDevice, IInv, NEW d \in Devices, Present(d)
  PROVE  DataInv'
<1>1. /\ lastFrame' = frameId[d]
      /\ frameId' = [frameId EXCEPT ![d] = (frameId[d] + 1) % FrameIds]
      /\ constants' = [constants EXCEPT ![d] = Invalidated(constants[d])]
      /\ begun' = [begun EXCEPT ![d] = FALSE]
      /\ UNCHANGED <<arena, commands>>
  BY DEF Present
<1>2. ~begun'[d] /\ \A e \in Devices : e = d
  BY <1>1 DEF OneDevice, IInv, TypeOK
<1>3. frameId'[d] # frameId[d]
  <2>1. frameId[d] \in 0..(FrameIds - 1) /\ frameId'[d] = (frameId[d] + 1) % FrameIds
    BY <1>1 DEF IInv, TypeOK
  <2>2. CASE frameId[d] = FrameIds - 1
    BY <2>1, <2>2, ArenaAssumption
  <2>3. CASE frameId[d] < FrameIds - 1
    BY <2>1, <2>3, ArenaAssumption
  <2>4. QED
    BY <2>1, <2>2, <2>3, ArenaAssumption
<1>4. ASSUME NEW kind \in Kinds
      PROVE  constants'[d][kind].ref = NoRef /\ constants'[d][kind].dirty
  <2>1. constants[d][kind] \in ConstantType
    BY DEF IInv, TypeOK
  <2>2. constants'[d] = Invalidated(constants[d])
    BY <1>1 DEF IInv, TypeOK
  <2>3. constants'[d][kind] =
          [constants[d][kind] EXCEPT !.ref = NoRef, !.dirty = TRUE]
    BY <2>2 DEF Invalidated
  <2>4. QED
    BY <2>1, <2>3 DEF ConstantType
<1>5. PlacedInv'
  BY <1>2, <1>4 DEF PlacedInv
<1>6. FrameInv'
  BY <1>1, <1>2, <1>3 DEF FrameInv
<1>7. CommandsKeepTheirData'
  BY <1>2 DEF CommandsKeepTheirData
<1>8. CachedConstantsAreCurrent'
  BY <1>2, <1>4 DEF CachedConstantsAreCurrent
<1>9. QED
  BY <1>5, <1>6, <1>7, <1>8 DEF DataInv

LEMMA SetConstantsStep ==
  ASSUME OneDevice, IInv, NEW d \in Devices, NEW kind \in Kinds,
         NEW v \in Settings, SetConstants(d, kind, v)
  PROVE  DataInv'
<1>1. UNCHANGED <<arena, frameId, begun, commands, lastFrame>>
  BY DEF SetConstants, bridge
<1>2. ASSUME NEW e \in Devices, NEW k \in Kinds
      PROVE  constants'[e][k].dirty \/ constants'[e][k] = constants[e][k]
  <2>1. /\ constants \in [Devices -> [Kinds -> ConstantType]]
        /\ constants[d][kind] \in ConstantType
    BY DEF IInv, TypeOK
  <2>2. constants' =
          [constants EXCEPT ![d] = [constants[d] EXCEPT
             ![kind] = [constants[d][kind] EXCEPT !.value = v, !.dirty = TRUE]]]
    BY DEF SetConstants
  <2>3. CASE e = d /\ k = kind
    <3>1. constants'[e][k] =
            [constants[d][kind] EXCEPT !.value = v, !.dirty = TRUE]
      BY <2>1, <2>2, <2>3
    <3>2. QED
      BY <2>1, <3>1 DEF ConstantType
  <2>4. CASE ~(e = d /\ k = kind)
    BY <2>1, <2>2, <2>4
  <2>5. QED
    BY <2>3, <2>4
<1>3. PlacedInv'
  BY <1>1, <1>2 DEF IInv, PlacedInv, Placed
<1>4. FrameInv'
  BY <1>1 DEF IInv, FrameInv
<1>5. CommandsKeepTheirData'
  BY <1>1 DEF IInv, CommandsKeepTheirData
<1>6. CachedConstantsAreCurrent'
  BY <1>1, <1>2 DEF IInv, CachedConstantsAreCurrent
<1>7. QED
  BY <1>3, <1>4, <1>5, <1>6 DEF DataInv

\* What the arena, the devices and the bridge hold is all DataInv speaks of.
LEMMA DataUnchanged ==
  ASSUME DataInv, UNCHANGED <<arena, device, bridge>>
  PROVE  DataInv'
<1>1. UNCHANGED <<arena, frameId, constants, begun, commands, lastFrame>>
  BY DEF device, bridge
<1>2. PlacedInv'
  BY <1>1 DEF DataInv, PlacedInv, Placed
<1>3. FrameInv'
  BY <1>1 DEF DataInv, FrameInv
<1>4. CommandsKeepTheirData'
  BY <1>1 DEF DataInv, CommandsKeepTheirData
<1>5. CachedConstantsAreCurrent'
  BY <1>1 DEF DataInv, CachedConstantsAreCurrent
<1>6. QED
  BY <1>2, <1>3, <1>4, <1>5 DEF DataInv

LEMMA InvStep ==
  ASSUME OneDevice, IInv, [Next]_vars
  PROVE  IInv'
<1>1. TypeOK'
  BY TypeStep DEF IInv
<1>2. ASSUME NEW d \in Devices, BeginScene(d)
      PROVE  DataInv'
  BY <1>2, BeginSceneStep
<1>3. ASSUME NEW d \in Devices, Present(d)
      PROVE  DataInv'
  BY <1>3, PresentStep
<1>4. ASSUME NEW d \in Devices, DrawWithoutArena(d)
      PROVE  DataInv'
  <2>1. UNCHANGED <<arena, device, bridge>>
    BY <1>4 DEF DrawWithoutArena
  <2>2. DataInv
    BY DEF IInv, DataInv
  <2>3. QED
    BY <2>1, <2>2, DataUnchanged
<1>5. ASSUME NEW d \in Devices, NEW kind \in Kinds, NEW v \in Settings,
             SetConstants(d, kind, v)
      PROVE  DataInv'
  BY <1>5, SetConstantsStep
<1>6. ASSUME NEW d \in Devices, NEW v \in Buffers, NEW n \in Payloads,
             Draw(d, v, n)
      PROVE  DataInv'
  BY <1>6, DrawStep
<1>7. ASSUME UNCHANGED vars
      PROVE  DataInv'
  <2>1. UNCHANGED <<arena, device, bridge>>
    BY <1>7 DEF vars
  <2>2. DataInv
    BY DEF IInv, DataInv
  <2>3. QED
    BY <2>1, <2>2, DataUnchanged
<1>8. DataInv'
  BY <1>2, <1>3, <1>4, <1>5, <1>6, <1>7 DEF Next
<1>9. QED
  BY <1>1, <1>8 DEF IInv, DataInv

\* For one device: where references are placed, which frame they belong to,
\* and what they lead to.
THEOREM InvHolds ==
  ASSUME OneDevice
  PROVE  Spec => []IInv
<1>1. Init => DataInv
  <2> SUFFICES ASSUME Init
               PROVE  DataInv
    OBVIOUS
  <2>1. \A d \in Devices : ~begun[d] /\ frameId[d] = 1 /\ lastFrame = 0
    BY DEF Init
  <2>2. \A d \in Devices, kind \in Kinds : constants[d][kind].ref = NoRef
    BY DEF Init, FreshConstants
  <2>3. PlacedInv
    BY <2>1, <2>2, NoRefType DEF PlacedInv, Placed
  <2>4. FrameInv /\ CommandsKeepTheirData
    BY <2>1 DEF FrameInv, CommandsKeepTheirData
  <2>5. CachedConstantsAreCurrent
    BY <2>2, NoRefType DEF CachedConstantsAreCurrent
  <2>6. QED
    BY <2>3, <2>4, <2>5 DEF DataInv
<1>2. IInv /\ [Next]_vars => IInv'
  BY InvStep
<1>3. TypeOK /\ DataInv => IInv
  BY DEF IInv, DataInv
<1>4. Spec => Init /\ [][Next]_vars
  BY DEF Spec
<1>5. QED
  BY <1>1, <1>2, <1>3, <1>4, TypeCorrect, PTL

\* For one device every draw of a frame that is being built still leads to what
\* the game had set when it was called.
THEOREM DataKept ==
  ASSUME OneDevice
  PROVE  Spec => []CommandsKeepTheirData
<1>1. IInv => CommandsKeepTheirData
  BY DEF IInv
<1>2. QED
  BY <1>1, InvHolds, PTL

\* For one device a copy of constants is used again only while it is current.
THEOREM CacheIsCurrent ==
  ASSUME OneDevice
  PROVE  Spec => []CachedConstantsAreCurrent
<1>1. IInv => CachedConstantsAreCurrent
  BY DEF IInv
<1>2. QED
  BY <1>1, InvHolds, PTL

-----------------------------------------------------------------------------
\* The refinement.

Drawn == IF \E d \in Devices : begun[d]
           THEN {c.content : c \in commands} ELSE {}

LEMMA ImmediateStep ==
  ASSUME OneDevice, IInv, IInv', [Next]_vars
  PROVE  [Immediate!Next]_(Immediate!immediateVars)
<1> DEFINE Goal == [Immediate!Next]_(Immediate!immediateVars)
<1>1. ASSUME Drawn' = Drawn, screen' = screen
      PROVE  Goal
  BY <1>1 DEF Drawn, Immediate!immediateVars
<1>2. ASSUME NEW d \in Devices, BeginScene(d)
      PROVE  Goal
  <2>1. /\ begun' = [begun EXCEPT ![d] = TRUE]
        /\ commands' = IF frameId[d] # lastFrame THEN {} ELSE commands
        /\ screen' = screen
    BY <1>2 DEF BeginScene
  <2>2. begun'[d] /\ \A e \in Devices : e = d
    BY <2>1 DEF OneDevice, IInv, TypeOK
  <2>3. CASE begun[d]
    <3>1. frameId[d] = lastFrame
      BY <2>3 DEF IInv, FrameInv
    <3>2. QED
      BY <1>1, <2>1, <2>2, <2>3, <3>1 DEF Drawn
  <2>4. CASE ~begun[d]
    <3>1. commands' = {}
      BY <2>1, <2>4 DEF IInv, FrameInv
    <3>2. Drawn = {} /\ Drawn' = {}
      BY <2>2, <2>4, <3>1 DEF Drawn
    <3>3. QED
      BY <1>1, <2>1, <3>2
  <2>5. QED
    BY <2>3, <2>4
<1>3. ASSUME NEW d \in Devices, Present(d)
      PROVE  Goal
  <2>1. /\ begun[d]
        /\ screen' = {Followed(arena.mem, c.refs) : c \in commands}
        /\ begun' = [begun EXCEPT ![d] = FALSE]
    BY <1>3 DEF Present, MayDraw
  <2>2. \A e \in Devices : ~begun'[e]
    BY <2>1 DEF OneDevice, IInv, TypeOK
  <2>3. \A c \in commands : Followed(arena.mem, c.refs) = c.content
    BY <2>1 DEF IInv, CommandsKeepTheirData
  <2>4. screen' = {c.content : c \in commands}
    BY <2>1, <2>3
  <2>5. screen' = Drawn /\ Drawn' = {}
    <3>1. Drawn = {c.content : c \in commands}
      BY <2>1 DEF Drawn
    <3>2. Drawn' = {}
      BY <2>2 DEF Drawn
    <3>3. QED
      BY <2>4, <3>1, <3>2
  <2>6. Immediate!Present
    BY <2>5 DEF Immediate!Present, Drawn
  <2>7. QED
    BY <2>6 DEF Immediate!Next
<1>4. ASSUME NEW d \in Devices, NEW v \in Buffers, NEW n \in Payloads,
             Draw(d, v, n)
      PROVE  Goal
  <2> DEFINE c == Command(d, v, n)
  <2>1. /\ begun[d] /\ begun' = begun /\ screen' = screen
        /\ commands' = commands \/ commands' = commands \cup {c}
    BY <1>4, DrawEffect DEF Draw
  <2>2. c \in CommandType
    BY CommandTyped DEF IInv
  <2>3. c.content \in Contents
    BY <2>2 DEF CommandType
  <2> HIDE DEF c
  <2>4. CASE commands' = commands
    BY <1>1, <2>1, <2>4 DEF Drawn
  <2>5. CASE commands' = commands \cup {c}
    <3>1. Drawn = {k.content : k \in commands}
      BY <2>1 DEF Drawn
    <3>2. Drawn' = {k.content : k \in commands \cup {c}}
      BY <2>1, <2>5 DEF Drawn
    <3>3. Drawn' = Drawn \cup {c.content}
      BY <3>1, <3>2
    <3>4. \E k \in Contents : screen' = screen /\ Drawn' = Drawn \cup {k}
      BY <2>1, <2>3, <3>3
    <3>5. Immediate!Next
      BY <3>4 DEF Immediate!Next, Immediate!Draw, Drawn
    <3>6. QED
      BY <3>5
  <2>6. QED
    BY <2>1, <2>4, <2>5
<1>5. ASSUME NEW d \in Devices, DrawWithoutArena(d)
      PROVE  Goal
  BY <1>1, <1>5 DEF DrawWithoutArena, device, bridge, Drawn
<1>6. ASSUME NEW d \in Devices, NEW kind \in Kinds, NEW v \in Settings,
             SetConstants(d, kind, v)
      PROVE  Goal
  BY <1>1, <1>6 DEF SetConstants, bridge, Drawn
<1>7. ASSUME UNCHANGED vars
      PROVE  Goal
  BY <1>1, <1>7 DEF vars, device, bridge, Drawn
<1> HIDE DEF Goal
<1>8. Goal
  BY <1>2, <1>3, <1>4, <1>5, <1>6, <1>7 DEF Next
<1>9. QED
  BY <1>8 DEF Goal

\* For one device every Present shows draws of its own frame only, each with
\* the data the game had set when it was called: the copied, cached, invalidated
\* and recycled references implement ImmediateDraws.
THEOREM ImmediateRefined ==
  ASSUME OneDevice
  PROVE  Spec => ImplementsImmediate
<1>1. Init => Immediate!Init
  BY DEF Init, Immediate!Init
<1>2. IInv /\ IInv' /\ [Next]_vars
        => [Immediate!Next]_(Immediate!immediateVars)
  BY ImmediateStep
<1>3. QED
  BY <1>1, <1>2, InvHolds, PTL DEF Spec, ImplementsImmediate, Immediate!Spec
=============================================================================
