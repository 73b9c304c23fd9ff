-------------------------- MODULE FrameFile_proofs --------------------------
(***************************************************************************)
(* The shared frame file: that its frames are shown whole (FrameIpc), and  *)
(* that they are laid out so that the viewer takes what was packed         *)
(* (BulkPack).  The two share nothing but the file; the second part has    *)
(* its own specification, PackSpec.                                        *)
(***************************************************************************)
EXTENDS FrameIpc_inv, BulkPack, SequenceTheorems, TLAPS

-----------------------------------------------------------------------------
(* FrameIpc for every number of words, frames and sessions: the types, what a
   snapshot that is accepted consists of, and that the protocol implements
   FrameChannel.  All but the types need a file that no new process maps during
   one poll, and fewer than 2^32 presents.  Builds with late loads are included:
   what their snapshots may mix is part of the statements. *)

\* The frame that a header is of.
LEMMA FrameOfType ==
  ASSUME NEW S, NEW s \in [HeaderWords -> S]
  PROVE  FrameOf(s) \in S
  BY ConstantsAssumption DEF FrameOf

LEMMA FrameOfWhole ==
  ASSUME NEW s, NEW f, \A w \in HeaderWords : s[w] = f
  PROVE  FrameOf(s) = f
  BY ConstantsAssumption DEF FrameOf

\* Every value of every variable stays in its range, in every build.
THEOREM TypeCorrect == Spec => []TypeOK
<1>1. Init => TypeOK
  BY ConstantsAssumption DEF Init, TypeOK, Zeroed
<1>2. TypeOK /\ [Next]_vars => TypeOK'
  <2> SUFFICES ASSUME TypeOK, [Next]_vars
               PROVE  TypeOK'
    OBVIOUS
  <2> USE ConstantsAssumption DEF TypeOK, memory, writer, viewer, Zeroed
  <2>1. CASE OpenMapping
    BY <2>1 DEF OpenMapping, Words
  <2>2. CASE FinishOpen
    BY <2>2 DEF FinishOpen
  <2>3. CASE BeginPresent
    BY <2>3 DEF BeginPresent
  <2>4. CASE Publish
    BY <2>4 DEF Publish, NextSequence
  <2>5. CASE CloseMapping
    BY <2>5 DEF CloseMapping
  <2>6. ASSUME NEW w \in Words, ClearWord(w)
        PROVE  TypeOK'
    BY <2>6 DEF ClearWord
  <2>7. ASSUME NEW w \in Words, WriteWord(w)
        PROVE  TypeOK'
    BY <2>7 DEF WriteWord
  <2>8. CASE PollStart
    BY <2>8 DEF PollStart, Words
  <2>9. CASE RejectHeader
    BY <2>9 DEF RejectHeader
  <2>10. CASE AcceptHeader
    BY <2>10 DEF AcceptHeader
  <2>11. CASE RecheckFails
    BY <2>11 DEF RecheckFails
  <2>12. CASE RecheckHolds
    BY <2>12, FrameOfType DEF RecheckHolds
  <2>13. CASE Render
    BY <2>13 DEF Render
  <2>14. ASSUME NEW w \in Words, CopyHeaderWord(w)
         PROVE  TypeOK'
    BY <2>14 DEF CopyHeaderWord
  <2>15. ASSUME NEW w \in Words, CopyWord(w)
         PROVE  TypeOK'
    BY <2>15 DEF CopyWord
  <2>16. CASE PollNothing \/ UNCHANGED vars
    BY <2>16 DEF PollNothing, vars
  <2>17. CASE RefuseSnapshot
    BY <2>17 DEF RefuseSnapshot
  <2>18. CASE RenderNothing
    BY <2>18 DEF RenderNothing
  <2>19. QED
    BY <2>1, <2>2, <2>3, <2>4, <2>5, <2>6, <2>7, <2>8, <2>9, <2>10, <2>11,
       <2>12, <2>13, <2>14, <2>15, <2>16, <2>17, <2>18
       DEF Next, WriterNext, ViewerNext
<1>3. QED
  BY <1>1, <1>2, PTL DEF Spec

-----------------------------------------------------------------------------
\* The use of the file that the rest is about.
PlainUse == ~RestartDuringPoll /\ MaxFrames <= SeqMax

\* The writer's half of the invariant does not depend on the viewer.
LEMMA WriterInductive ==
  ASSUME PlainUse, TypeOK, WriterInv, [Next]_vars
  PROVE  WriterInv'
<1> USE ConstantsAssumption DEF PlainUse, TypeOK, WriterInv, memory, writer, viewer
<1>1. CASE OpenMapping
  BY <1>1 DEF OpenMapping
<1>2. CASE FinishOpen
  BY <1>2 DEF FinishOpen
<1>3. CASE BeginPresent
  BY <1>3 DEF BeginPresent
<1>4. CASE Publish
  BY <1>4 DEF Publish, NextSequence
<1>5. CASE CloseMapping
  BY <1>5 DEF CloseMapping
<1>6. ASSUME NEW w \in Words, ClearWord(w)
      PROVE  WriterInv'
  BY <1>6 DEF ClearWord
<1>7. ASSUME NEW w \in Words, WriteWord(w)
      PROVE  WriterInv'
  BY <1>7 DEF WriteWord
<1>8. CASE ViewerNext \/ PollNothing \/ UNCHANGED vars
  <2>1. UNCHANGED <<memory, writer>>
    BY <1>8 DEF ViewerNext, PollStart, RejectHeader, RefuseSnapshot, AcceptHeader,
         RecheckFails, RecheckHolds, Render, RenderNothing, CopyHeaderWord, CopyWord,
         PollNothing, vars
  <2>2. QED
    BY <2>1
<1>9. QED
  BY <1>1, <1>2, <1>3, <1>4, <1>5, <1>6, <1>7, <1>8 DEF Next, WriterNext

\* A poll in progress is undisturbed: the number it started from is not
\* issued a second time before it ends.
LEMMA PollInductive ==
  ASSUME PlainUse, TypeOK, WriterInv, PollInv, [Next]_vars
  PROVE  PollInv'
<1> USE ConstantsAssumption
    DEF PlainUse, TypeOK, WriterInv, PollInv, SnapshotIsTheFrameTaken, memory, writer, viewer
<1>1. CASE OpenMapping
  BY <1>1 DEF OpenMapping
<1>2. CASE FinishOpen
  BY <1>2 DEF FinishOpen
<1>3. CASE BeginPresent
  BY <1>3 DEF BeginPresent
<1>4. CASE Publish
  BY <1>4 DEF Publish, NextSequence
<1>5. CASE CloseMapping
  BY <1>5 DEF CloseMapping
<1>6. ASSUME NEW w \in Words, ClearWord(w)
      PROVE  PollInv'
  BY <1>6 DEF ClearWord
<1>7. ASSUME NEW w \in Words, WriteWord(w)
      PROVE  PollInv'
  BY <1>7 DEF WriteWord
<1>8. CASE PollStart
  BY <1>8 DEF PollStart
<1>9. CASE RejectHeader \/ RefuseSnapshot
  BY <1>9 DEF RejectHeader, RefuseSnapshot
<1>10. CASE AcceptHeader
  BY <1>10 DEF AcceptHeader
<1>11. CASE RecheckFails
  BY <1>11 DEF RecheckFails
<1>12. CASE RecheckHolds
  <2>1. /\ shSeq = rseq /\ rseq # 0
        /\ \A w \in HeaderWords : hdrCopy[w] = frame
        /\ \A w \in Words \ todo : snap[w] = frame
        /\ \A w \in Words : mem[w] = frame
    BY <1>12 DEF RecheckHolds
  <2>2. FrameOf(hdrCopy) = frame
    BY <2>1, FrameOfWhole
  <2>3. frame > 0
    BY <2>1
  <2>4. QED
    BY <1>12, <2>1, <2>2, <2>3 DEF RecheckHolds
<1>13. CASE Render \/ RenderNothing
  BY <1>13 DEF Render, RenderNothing
<1>14. ASSUME NEW w \in Words, CopyHeaderWord(w)
       PROVE  PollInv'
  BY <1>14 DEF CopyHeaderWord, Words
<1>15. ASSUME NEW w \in Words, CopyWord(w)
       PROVE  PollInv'
  <2>1. CASE rpc = "snapshot"
    BY <1>15, <2>1 DEF CopyWord, Words
  <2>2. CASE rpc = "accepted"
    BY <1>15, <2>2 DEF CopyWord, Words
  <2>3. QED
    BY <1>15, <2>1, <2>2 DEF CopyWord
<1>16. CASE PollNothing \/ UNCHANGED vars
  BY <1>16 DEF PollNothing, vars
<1>17. QED
  BY <1>1, <1>2, <1>3, <1>4, <1>5, <1>6, <1>7, <1>8, <1>9, <1>10, <1>11,
     <1>12, <1>13, <1>14, <1>15, <1>16 DEF Next, WriterNext, ViewerNext

\* A frame is taken only in RecheckHolds, and it is the one in the file.
LEMMA TakenSteps ==
  ASSUME TypeOK, WriterInv, PollInv, [Next]_vars
  PROVE  /\ RecheckHolds => taken' = frame /\ shSeq = rseq /\ shSeq # 0
         /\ ~RecheckHolds => taken' = taken
<1>1. ASSUME RecheckHolds
      PROVE  taken' = frame /\ shSeq = rseq /\ shSeq # 0
  <2>1. \A w \in HeaderWords : hdrCopy[w] = frame
    BY <1>1 DEF RecheckHolds, PollInv
  <2>2. QED
    BY <1>1, <2>1, FrameOfWhole DEF RecheckHolds, PollInv
<1>2. ASSUME ~RecheckHolds
      PROVE  taken' = taken
  BY <1>2 DEF Next, WriterNext, ViewerNext, OpenMapping, FinishOpen, BeginPresent,
       Publish, CloseMapping, ClearWord, WriteWord, PollStart, RejectHeader,
       RefuseSnapshot, AcceptHeader, RecheckFails, Render, RenderNothing,
       CopyHeaderWord, CopyWord, PollNothing, vars, viewer
<1>3. QED
  BY <1>1, <1>2

LEMMA TakenInductive ==
  ASSUME PlainUse, TypeOK, WriterInv, PollInv, TakenInv, [Next]_vars
  PROVE  TakenInv'
<1> USE ConstantsAssumption DEF TypeOK, memory, writer, viewer
<1>1. ASSUME ~LateLoads
      PROVE  late' = {} /\ NoTornFrame'
  <2>1. late = {} /\ NoTornFrame
    BY <1>1 DEF TakenInv
  <2>2. CASE RecheckHolds
    BY <1>1, <2>1, <2>2 DEF RecheckHolds, CopyDone, NoTornFrame
  <2>3. CASE Render
    <3>1. \A w \in Words : snap[w] = taken
      BY <2>1, <2>3 DEF Render, PollInv, SnapshotIsTheFrameTaken
    <3>2. QED
      BY <2>1, <2>3, <3>1 DEF Render, NoTornFrame
  <2>4. CASE UNCHANGED shown /\ late' \in {late, {}}
    BY <2>1, <2>4 DEF NoTornFrame
  <2>5. QED
    BY <2>2, <2>3, <2>4 DEF Next, WriterNext, ViewerNext, OpenMapping, FinishOpen,
         BeginPresent, Publish, CloseMapping, ClearWord, WriteWord, PollStart,
         RejectHeader, RefuseSnapshot, AcceptHeader, RecheckFails, RenderNothing,
         CopyHeaderWord, CopyWord, PollNothing, vars
<1>2. /\ taken <= frame
      /\ wpc = "writing" => taken < frame
      /\ shSeq # 0 /\ taken = frame => lastSeq = shSeq
  BY DEF TakenInv
<1>3. CASE RecheckHolds
  <2>1. taken' = frame /\ shSeq = rseq /\ shSeq # 0
    BY <1>3, TakenSteps
  <2>2. QED
    BY <1>1, <1>3, <2>1 DEF RecheckHolds, TakenInv, WriterInv
<1>4. CASE ~RecheckHolds
  <2>1. taken' = taken
    BY <1>4, TakenSteps
  <2>2. CASE BeginPresent
    BY <1>1, <1>2, <2>1, <2>2 DEF BeginPresent, TakenInv
  <2>3. CASE Publish
    BY <1>1, <1>2, <2>1, <2>3 DEF Publish, TakenInv
  <2>4. CASE OpenMapping
    BY <1>1, <1>2, <2>1, <2>4 DEF OpenMapping, TakenInv
  <2>5. CASE /\ UNCHANGED <<shSeq, frame, lastSeq>>
             /\ wpc' = "writing" => wpc = "writing"
    BY <1>1, <1>2, <2>1, <2>5 DEF TakenInv
  <2>6. QED
    BY <1>4, <2>2, <2>3, <2>4, <2>5 DEF Next, WriterNext, ViewerNext, FinishOpen,
         CloseMapping, ClearWord, WriteWord, PollStart, RejectHeader, RefuseSnapshot,
         AcceptHeader, RecheckFails, Render, RenderNothing, CopyHeaderWord, CopyWord,
         PollNothing, vars
<1>5. QED
  BY <1>3, <1>4

LEMMA InvInitially == Init => IInv
BY ConstantsAssumption
   DEF Init, IInv, TypeOK, WriterInv, PollInv, TakenInv, NoTornFrame, Zeroed

\* The invariant holds in every reachable state.
THEOREM InvHolds ==
  ASSUME PlainUse
  PROVE  Spec => []IInv
<1>1. IInv /\ [Next]_vars /\ TypeOK' => IInv'
  BY WriterInductive, PollInductive, TakenInductive DEF IInv
<1>2. QED
  BY <1>1, InvInitially, TypeCorrect, PTL DEF Spec

\* A snapshot that is accepted is, word by word, the frame whose header was
\* checked, but for words that a build loads after the re-check; those are never
\* older.  A build that loads none so late draws no frame that mixes two presents.
THEOREM NeverTorn ==
  ASSUME PlainUse
  PROVE  Spec => [](SnapshotIsTheFrameTaken /\ (LateLoads \/ NoTornFrame))
<1>1. IInv => SnapshotIsTheFrameTaken /\ (LateLoads \/ NoTornFrame)
  BY DEF IInv, PollInv, TakenInv, SnapshotIsTheFrameTaken
<1>2. QED
  BY <1>1, InvHolds, PTL

\* The header that is rendered from is the header that was validated, unless a
\* word of it was loaded after the re-check.
THEOREM HeaderValidated ==
  ASSUME PlainUse
  PROVE  Spec => [](late \cap HeaderWords = {} => ValidatedHeaderIsRendered)
<1>1. IInv => (late \cap HeaderWords = {} => ValidatedHeaderIsRendered)
  BY DEF IInv, PollInv, SnapshotIsTheFrameTaken, ValidatedHeaderIsRendered, Words
<1>2. QED
  BY <1>1, InvHolds, PTL

-----------------------------------------------------------------------------
\* The picture that Render makes of a snapshot.
LEMMA PictureOfTheFrame ==
  ASSUME IInv, Render
  PROVE  /\ {shown'[w] : w \in Words} \in (SUBSET (taken..frame)) \ {{}}
         /\ LateLoads \/ {shown'[w] : w \in Words} = {taken}
<1> USE ConstantsAssumption DEF IInv, TypeOK
<1>1. /\ shown' = snap
      /\ \A w \in Words : snap[w] >= taken /\ snap[w] <= frame /\ snap[w] \in Nat
      /\ taken \in Nat /\ frame \in Nat
  BY DEF Render, PollInv, SnapshotIsTheFrameTaken
<1>2. PICK v \in Words : TRUE
  BY DEF Words
<1>3. {shown'[w] : w \in Words} \in (SUBSET (taken..frame)) \ {{}}
  <2>1. \A w \in Words : shown'[w] \in taken..frame
    BY <1>1
  <2>2. shown'[v] \in {shown'[w] : w \in Words}
    BY <1>2
  <2>3. QED
    BY <2>1, <2>2
<1>4. ASSUME ~LateLoads PROVE {shown'[w] : w \in Words} = {taken}
  <2>1. \A w \in Words : snap[w] = taken
    BY <1>4 DEF Render, PollInv, TakenInv, SnapshotIsTheFrameTaken
  <2>2. QED
    BY <1>1, <1>2, <2>1
<1>5. QED
  BY <1>3, <1>4

\* One step of the protocol is a step of the abstract channel or a stutter.
LEMMA StepRefines ==
  ASSUME PlainUse, IInv, IInv', [Next]_vars
  PROVE  [Channel!Next]_(Channel!channelVars)
<1> USE ConstantsAssumption DEF IInv, TypeOK, memory, writer, viewer,
        Channel!channelVars, OfferedFrame
<1>1. CASE RecheckHolds
  <2>1. taken' = frame /\ shSeq = rseq /\ shSeq # 0
    BY <1>1, TakenSteps
  <2>2. rseq # lastSeq
    BY <1>1 DEF RecheckHolds, PollInv
  <2>3. frame > taken
    BY <2>1, <2>2 DEF TakenInv
  <2>4. Channel!Take
    BY <1>1, <2>1, <2>3 DEF RecheckHolds, Channel!Take
  <2>5. QED
    BY <2>4 DEF Channel!Next
<1>2. CASE ~RecheckHolds
  <2>1. taken' = taken
    BY <1>2, TakenSteps
  <2>2. CASE BeginPresent
    BY <2>1, <2>2 DEF BeginPresent, Channel!Next, Channel!Begin
  <2>3. CASE Publish
    <3>1. shSeq = 0 /\ frame > 0
      BY <2>3 DEF Publish, WriterInv
    <3>2. shSeq' # 0
      BY <2>3, <3>1 DEF Publish, NextSequence, WriterInv, PlainUse
    <3>3. Channel!Offer
      BY <2>1, <2>3, <3>1, <3>2 DEF Publish, Channel!Offer
    <3>4. QED
      BY <3>3 DEF Channel!Next
  <2>4. CASE OpenMapping
    BY <2>1, <2>4 DEF OpenMapping, Channel!Next, Channel!Withdraw
  <2>5. CASE Render
    <3>1. Channel!Show
      BY <2>1, <2>5, PictureOfTheFrame DEF Render, Channel!Show
    <3>2. QED
      BY <3>1 DEF Channel!Next
  <2>6. CASE RenderNothing
    BY <2>1, <2>6 DEF RenderNothing, Channel!Next, Channel!Lose
  <2>7. CASE UNCHANGED <<shSeq, frame, shown>> /\ (rpc' = "accepted" <=> rpc = "accepted")
    BY <2>1, <2>7
  <2>8. QED
    BY <1>2, <2>2, <2>3, <2>4, <2>5, <2>6, <2>7 DEF Next, WriterNext, ViewerNext,
         FinishOpen, CloseMapping, ClearWord, WriteWord, PollStart, RejectHeader,
         RefuseSnapshot, AcceptHeader, RecheckFails, CopyHeaderWord, CopyWord,
         PollNothing, vars
<1>3. QED
  BY <1>1, <1>2

\* The sequence-word protocol implements the channel in every build: each frame
\* is taken at most once and never after a newer one, and what is drawn is that
\* frame, with parts of newer ones only where loads may be late.
THEOREM ChannelRefined ==
  ASSUME PlainUse
  PROVE  Spec => ImplementsChannel
<1>1. Init => Channel!Init
  <2> SUFFICES ASSUME Init PROVE Channel!Init
    OBVIOUS
  <2>1. {shown[w] : w \in Words} = {0}
    BY ConstantsAssumption DEF Init, Zeroed, Words
  <2>2. QED
    BY <2>1 DEF Init, Channel!Init, OfferedFrame
<1>2. IInv /\ IInv' /\ [Next]_vars => [Channel!Next]_(Channel!channelVars)
  BY StepRefines
<1>3. QED
  BY <1>1, <1>2, InvHolds, PTL DEF Spec, ImplementsChannel, Channel!Spec

-----------------------------------------------------------------------------
(* BulkPack: the layout of a frame is right for every file, table and data size.
   The invariant follows the packer: everything packed ends at or before `used',
   `used' stays on a 16-byte line inside the file, and the entries passed so far
   name exactly the data that is whole in the region. *)

\* Rounding up reaches the next multiple of 16.
LEMMA RoundUpLemma ==
    ASSUME NEW n \in Nat
    PROVE  /\ RoundUp(n) \in Nat
           /\ n =< RoundUp(n) /\ RoundUp(n) =< n + 15
           /\ RoundUp(n) % 16 = 0
BY SMT DEF RoundUp

\* What fits unrounded between two 16-byte lines fits rounded.
LEMMA RoundedFits ==
    ASSUME NEW a \in Nat, NEW b \in Nat, NEW f \in Nat, NEW n \in Nat,
           a % 16 = 0, b % 16 = 0, f % 16 = 0, a + b + n =< f
    PROVE  a + b + RoundUp(n) =< f
BY SMT DEF RoundUp

\* Lines of the region are lines of the file.
LEMMA LinesAdd ==
    ASSUME NEW a \in Nat, NEW b \in Nat, a % 16 = 0, b % 16 = 0
    PROVE  (a + b) % 16 = 0
BY SMT

\* The table of any frame the file can hold ends in it.
LEMMA BulkOffsetLemma ==
    ASSUME NEW n \in 0..MaxDraws
    PROVE  /\ n * DrawSize \in Nat
           /\ BulkOffset(n) \in 0..FileSize /\ BulkOffset(n) % 16 = 0
           /\ BulkOffset(n) >= HeaderSize + n * DrawSize
<1>1. /\ n * DrawSize \in Nat /\ MaxDraws * DrawSize \in Nat
      /\ n * DrawSize =< MaxDraws * DrawSize
  <2>1. PICK k \in Nat : MaxDraws = n + k
    <3>1. MaxDraws - n \in Nat /\ MaxDraws = n + (MaxDraws - n)
      BY FileAssumption
    <3> QED BY <3>1
  <2>2. n \in Nat /\ DrawSize \in Nat
    BY FileAssumption
  <2>3. k * DrawSize \in Nat /\ n * DrawSize \in Nat
    BY <2>2
  <2>4. (n + k) * DrawSize = n * DrawSize + k * DrawSize
    BY <2>2
  <2> QED BY <2>1, <2>3, <2>4
<1> DEFINE t == n * DrawSize
           m == MaxDraws * DrawSize
<1>2. HeaderSize \in Nat /\ FileSize \in Nat /\ HeaderSize + m + 15 =< FileSize
  BY FileAssumption
<1>3. t \in Nat /\ m \in Nat /\ t =< m
  BY <1>1
<1> HIDE DEF t, m
<1>4. HeaderSize + t \in Nat
  BY <1>2, <1>3
<1>5. /\ RoundUp(HeaderSize + t) \in Nat
      /\ HeaderSize + t =< RoundUp(HeaderSize + t)
      /\ RoundUp(HeaderSize + t) =< HeaderSize + t + 15
      /\ RoundUp(HeaderSize + t) % 16 = 0
  BY <1>4, RoundUpLemma
<1>6. RoundUp(HeaderSize + t) \in 0..FileSize
  BY <1>2, <1>3, <1>5
<1> QED BY <1>1, <1>5, <1>6 DEF BulkOffset, t

\* Data is never empty, and where a piece of it can be.
LEMMA DataLemma == \A s \in DataSizes : s \in Nat /\ s > 0
<1>1. DataSizes \subseteq Nat \ {0}
  BY DataAssumption
<1> QED BY <1>1

LEMMA PieceLemma ==
    ASSUME NEW p \in Piece
    PROVE  /\ p.draw \in 1..MaxDraws /\ p.draw \in Draws /\ p.item \in DOMAIN Items
           /\ p.from \in Nat /\ p.size \in Nat /\ p.size > 0
<1>1. /\ p.draw \in Draws /\ p.item \in DOMAIN Items
      /\ p.from \in 0..FileSize /\ p.size \in DataSizes
  BY DEF Piece
<1>2. p.draw \in 1..MaxDraws
  BY <1>1 DEF Draws
<1>3. p.from \in Nat
  BY <1>1, FileAssumption
<1> QED BY <1>1, <1>2, <1>3, DataLemma

\* The entries of the table are numbered by the items.
LEMMA ItemsLemma == Len(Items) \in Nat /\ DOMAIN Items = 1..Len(Items)
<1> DEFINE first == <<"vb", "ib", "decl", "vs_constants", "ps_constants">>
           textures == [s \in 1..Stages |-> "tex"]
           last == <<"vs_bytecode", "ps_bytecode">>
           names == {"vb", "ib", "decl", "vs_constants", "ps_constants",
                     "tex", "vs_bytecode", "ps_bytecode"}
<1>1. first \in Seq(names)
  OBVIOUS
<1>2. last \in Seq(names)
  OBVIOUS
<1>3. textures \in Seq(names)
  <2>1. Stages \in Nat /\ textures \in [1..Stages -> names]
    BY FileAssumption
  <2> QED BY <2>1
<1> HIDE DEF first, textures, last, names
<1>4. first \o textures \in Seq(names)
  BY <1>1, <1>3, ConcatProperties
<1>5. (first \o textures) \o last \in Seq(names)
  BY <1>2, <1>4, ConcatProperties
<1>6. Items = (first \o textures) \o last
  BY DEF Items, first, textures, last
<1>7. Items \in Seq(names)
  BY <1>5, <1>6
<1> QED BY <1>7, LenProperties

-----------------------------------------------------------------------------
(* The invariant. *)

\* The packer stays between 16-byte lines of the file.
Space ==
    /\ offset = BulkOffset(count)
    /\ used % 16 = 0
    /\ offset + used =< FileSize

\* What is packed begins on a line and ends before the free space.
Behind == \A p \in held : p.from % 16 = 0 /\ p.from + p.size =< used

\* The items the packer has dealt with once it is at item `it' of draw `dr'.
Passed(d, i, dr, it) == d < dr \/ (d = dr /\ i < it)

\* The entries of the draws name what is held ...
Named == \A p \in held : /\ p.draw =< count /\ Passed(p.draw, p.item, draw, item)
                         /\ table[p.draw][p.item] = [offset |-> p.from, size |-> p.size]

\* ... and nothing else, ...
OnlyHeld ==
    \A d \in 1..count, i \in DOMAIN Items :
        Passed(d, i, draw, item) /\ table[d][i].size # 0
            => [draw |-> d, item |-> i, from |-> table[d][i].offset,
                size |-> table[d][i].size] \in held

\* ... and the rest of the entry being filled is empty.
Cleared == draw =< count /\ item > 0 =>
               \A i \in DOMAIN Items : i >= item => table[draw][i] = NoRange

\* The packer has passed all draws when the frame is published, and the header
\* says what it did.
Progress == draw =< count + 1 /\ (draw = count + 1 => item = 0)
Announced == phase = "published" =>
                 /\ draw = count + 1
                 /\ header = [draw_count |-> count, bulk_data_offset |-> offset,
                              bulk_data_used |-> used]

PackInv == /\ PackTypeOK /\ Space /\ Behind /\ Named /\ OnlyHeld /\ Cleared
        /\ Progress /\ Announced

LEMMA InitIInv == PackInit => PackInv
<1> SUFFICES ASSUME PackInit PROVE PackInv
  OBVIOUS
<1>1. 0 \in 0..MaxDraws /\ MaxDraws \in Nat /\ FileSize \in Nat
  BY FileAssumption
<1>2. BulkOffset(0) \in 0..FileSize
  BY <1>1, BulkOffsetLemma
<1>3. PackTypeOK
  <2>1. NoRanges \in [DOMAIN Items -> [offset: 0..FileSize, size: DataSizes \cup {0}]]
    BY <1>1 DEF NoRanges, NoRange
  <2>2. table \in [Draws -> [DOMAIN Items -> [offset: 0..FileSize,
                                              size: DataSizes \cup {0}]]]
    BY <2>1 DEF PackInit
  <2>3. header \in Header
    BY <1>1, <1>2 DEF PackInit, Header
  <2>4. draw \in 1..(MaxDraws + 1) /\ item \in 0..(Len(Items) + 1) /\ used \in 0..FileSize
    BY <1>1, ItemsLemma DEF PackInit
  <2> QED BY <1>1, <1>2, <2>2, <2>3, <2>4 DEF PackTypeOK, PackInit
<1>4. Space
  BY <1>1, <1>2 DEF Space, PackInit
<1>5. Behind /\ Named
  BY DEF Behind, Named, PackInit
<1>6. OnlyHeld /\ Cleared
  BY DEF OnlyHeld, Cleared, PackInit
<1>7. Progress /\ Announced
  BY DEF Progress, Announced, PackInit
<1> QED BY <1>3, <1>4, <1>5, <1>6, <1>7 DEF PackInv

LEMMA BeginFrameIInv ==
    ASSUME PackInv, NEW stored \in 0..(MaxDraws + 1), BeginFrame(stored)
    PROVE  PackInv'
<1>1. MaxDraws \in Nat /\ FileSize \in Nat /\ PackTypeOK
  BY FileAssumption DEF PackInv
<1>2. count' \in 0..MaxDraws
  BY <1>1 DEF BeginFrame, Capped
<1>3. offset' = BulkOffset(count') /\ offset' \in 0..FileSize
  BY <1>2, BulkOffsetLemma DEF BeginFrame
<1>4. PackTypeOK'
  BY <1>1, <1>2, <1>3, ItemsLemma DEF PackTypeOK, BeginFrame
<1>5. Space'
  BY <1>1, <1>3 DEF Space, BeginFrame
<1>6. Behind' /\ Named'
  BY DEF Behind, Named, BeginFrame
<1>7. OnlyHeld'
  <2> SUFFICES ASSUME NEW d \in 1..count', NEW i \in DOMAIN Items,
                      d < draw' \/ (d = draw' /\ i < item')
               PROVE  FALSE
    BY DEF OnlyHeld, Passed
  <2> QED BY <1>2, ItemsLemma DEF BeginFrame
<1>8. Cleared' /\ Progress' /\ Announced'
  BY <1>2 DEF Cleared, Progress, Announced, BeginFrame
<1> QED BY <1>4, <1>5, <1>6, <1>7, <1>8 DEF PackInv

LEMMA ClearDrawIInv == ASSUME PackInv, ClearDraw PROVE PackInv'
<1>1. /\ MaxDraws \in Nat /\ FileSize \in Nat /\ PackTypeOK
      /\ draw \in 1..count /\ count \in 0..MaxDraws /\ item = 0
  BY FileAssumption DEF PackInv, PackTypeOK, ClearDraw
<1>2. NoRanges \in [DOMAIN Items -> [offset: 0..FileSize, size: DataSizes \cup {0}]]
  BY <1>1 DEF NoRanges, NoRange
<1>3. /\ draw \in DOMAIN table
      /\ table' = [table EXCEPT ![draw] = NoRanges]
  BY <1>1 DEF ClearDraw, ClearedEntry, PackTypeOK, Draws
<1>4. PackTypeOK'
  <2>1. table' \in [Draws -> [DOMAIN Items -> [offset: 0..FileSize,
                                               size: DataSizes \cup {0}]]]
    BY <1>1, <1>2, <1>3 DEF PackTypeOK
  <2>2. item' \in 0..(Len(Items) + 1)
    BY ItemsLemma DEF ClearDraw
  <2> QED BY <1>1, <2>1, <2>2 DEF PackTypeOK, ClearDraw
<1>5. Space' /\ Behind'
  BY DEF PackInv, Space, Behind, ClearDraw
<1>6. \A d \in 1..count, i \in DOMAIN Items :
          Passed(d, i, draw', item') <=> Passed(d, i, draw, item) /\ d # draw
  BY <1>1, ItemsLemma DEF Passed, ClearDraw
<1>7. \A d \in 1..count : d # draw => table'[d] = table[d]
  BY <1>1, <1>3 DEF PackTypeOK, Draws
<1>8. Named'
  <2> SUFFICES ASSUME NEW p \in held'
               PROVE  /\ p.draw =< count' /\ Passed(p.draw, p.item, draw', item')
                      /\ table'[p.draw][p.item] = [offset |-> p.from, size |-> p.size]
    BY DEF Named, Passed
  <2>1. p \in held /\ p \in Piece /\ count' = count
    BY <1>1 DEF PackTypeOK, ClearDraw
  <2>2. p.draw \in 1..MaxDraws /\ p.item \in DOMAIN Items
    BY <2>1, PieceLemma
  <2>3. /\ p.draw =< count /\ Passed(p.draw, p.item, draw, item)
        /\ table[p.draw][p.item] = [offset |-> p.from, size |-> p.size]
    BY <2>1 DEF PackInv, Named
  <2>4. p.draw \in 1..count
    BY <1>1, <2>2, <2>3
  <2>5. p.draw # draw
    BY <1>1, <2>2, <2>3, ItemsLemma DEF Passed
  <2> QED BY <2>1, <2>2, <2>3, <2>4, <2>5, <1>6, <1>7
<1>9. OnlyHeld'
  <2> SUFFICES ASSUME NEW d \in 1..count, NEW i \in DOMAIN Items,
                      Passed(d, i, draw', item'), table'[d][i].size # 0
               PROVE  [draw |-> d, item |-> i, from |-> table'[d][i].offset,
                       size |-> table'[d][i].size] \in held
    BY DEF OnlyHeld, ClearDraw
  <2>1. Passed(d, i, draw, item) /\ table'[d] = table[d]
    BY <1>6, <1>7
  <2> QED BY <2>1 DEF PackInv, OnlyHeld
<1>10. Cleared'
  <2>1. table'[draw] = NoRanges
    BY <1>3
  <2> QED BY <2>1 DEF Cleared, ClearDraw, NoRanges
<1>11. Progress' /\ Announced'
  BY <1>1 DEF PackInv, Progress, Announced, ClearDraw
<1> QED BY <1>4, <1>5, <1>8, <1>9, <1>10, <1>11 DEF PackInv

\* The facts about the draw and the item at hand that every step of the inner
\* loop rests on.
LEMMA AtItemFacts ==
    ASSUME PackInv, AtItem
    PROVE  /\ draw \in 1..count /\ count \in 0..MaxDraws /\ draw \in Draws
           /\ item \in DOMAIN Items /\ item \in Nat /\ item > 0
           /\ item + 1 \in 0..(Len(Items) + 1)
           /\ table[draw] \in [DOMAIN Items -> [offset: 0..FileSize,
                                                size: DataSizes \cup {0}]]
           /\ table[draw][item] = NoRange
           /\ offset \in 0..FileSize /\ used \in 0..FileSize /\ FileSize \in Nat
<1>1. PackTypeOK /\ Cleared /\ MaxDraws \in Nat /\ FileSize \in Nat
  BY FileAssumption DEF PackInv
<1>2. draw \in 1..count /\ count \in 0..MaxDraws /\ draw \in Draws
  BY <1>1 DEF AtItem, PackTypeOK, Draws
<1>3. item \in DOMAIN Items /\ item \in Nat /\ item > 0 /\ item + 1 \in 0..(Len(Items) + 1)
  BY ItemsLemma DEF AtItem
<1>4. table[draw] \in [DOMAIN Items -> [offset: 0..FileSize, size: DataSizes \cup {0}]]
  BY <1>1, <1>2 DEF PackTypeOK
<1>5. table[draw][item] = NoRange
  BY <1>1, <1>2, <1>3 DEF Cleared
<1> QED BY <1>1, <1>2, <1>3, <1>4, <1>5 DEF PackTypeOK

\* Advancing over one item passes that item and no other.
LEMMA PassedStep ==
    ASSUME PackInv, AtItem, draw' = draw, item' = item + 1,
           NEW d \in 1..MaxDraws, NEW i \in DOMAIN Items
    PROVE  Passed(d, i, draw', item') <=> Passed(d, i, draw, item) \/ (d = draw /\ i = item)
BY AtItemFacts, ItemsLemma, SMTT(60) DEF Passed

\* An item passed without being packed, for want of data or of room.
LEMMA PassOverIInv ==
    ASSUME PackInv, AtItem, item' = item + 1,
           UNCHANGED <<phase, count, offset, used, draw, table, header, held>>
    PROVE  PackInv'
<1>1. PackTypeOK'
  BY AtItemFacts DEF PackInv, PackTypeOK
<1>2. Space' /\ Behind'
  BY DEF PackInv, Space, Behind
<1>3. Named'
  <2> SUFFICES ASSUME NEW p \in held'
               PROVE  /\ p.draw =< count' /\ Passed(p.draw, p.item, draw', item')
                      /\ table'[p.draw][p.item] = [offset |-> p.from, size |-> p.size]
    BY DEF Named, Passed
  <2>1. p \in held /\ p \in Piece /\ count' = count /\ table' = table
    BY DEF PackInv, PackTypeOK
  <2>2. p.draw \in 1..MaxDraws /\ p.item \in DOMAIN Items
    BY <2>1, PieceLemma
  <2>3. /\ p.draw =< count /\ Passed(p.draw, p.item, draw, item)
        /\ table[p.draw][p.item] = [offset |-> p.from, size |-> p.size]
    BY <2>1 DEF PackInv, Named
  <2> QED BY <2>1, <2>2, <2>3, PassedStep
<1>4. OnlyHeld'
  <2> SUFFICES ASSUME NEW d \in 1..count, NEW i \in DOMAIN Items,
                      Passed(d, i, draw', item'), table[d][i].size # 0
               PROVE  [draw |-> d, item |-> i, from |-> table[d][i].offset,
                       size |-> table[d][i].size] \in held
    BY DEF OnlyHeld
  <2>1. d \in 1..MaxDraws
    BY AtItemFacts, FileAssumption, SMTT(60)
  <2>2. ~(d = draw /\ i = item)
    BY AtItemFacts DEF NoRange
  <2>3. Passed(d, i, draw, item)
    BY <2>1, <2>2, PassedStep
  <2> QED BY <2>3 DEF PackInv, OnlyHeld
<1>5. Cleared'
  BY AtItemFacts, ItemsLemma, SMTT(60) DEF PackInv, Cleared
<1>6. Progress' /\ Announced'
  BY AtItemFacts DEF PackInv, Progress, Announced, AtItem
<1> QED BY <1>1, <1>2, <1>3, <1>4, <1>5, <1>6 DEF PackInv

LEMMA NoDataIInv == ASSUME PackInv, NoData PROVE PackInv'
BY PassOverIInv DEF NoData

LEMMA LeaveOutIInv ==
    ASSUME PackInv, NEW size \in DataSizes, LeaveOut(size) PROVE PackInv'
BY PassOverIInv DEF LeaveOut

LEMMA PackIInv ==
    ASSUME PackInv, NEW size \in DataSizes, Pack(size) PROVE PackInv'
<1> DEFINE new == [draw |-> draw, item |-> item, from |-> used, size |-> size]
<1>1. AtItem /\ PackTypeOK /\ Space /\ Behind
  BY DEF PackInv, Pack
<1>2. size \in Nat /\ size > 0 /\ offset + used + size =< FileSize
  BY AtItemFacts, DataLemma DEF Pack, Fits
<1>3. /\ RoundUp(size) \in Nat /\ size =< RoundUp(size) /\ RoundUp(size) % 16 = 0
  BY <1>2, RoundUpLemma
<1>4. /\ offset \in 0..FileSize /\ offset % 16 = 0 /\ used % 16 = 0 /\ FileSize % 16 = 0
      /\ used \in Nat /\ FileSize \in Nat /\ draw \in 1..count /\ count \in 0..MaxDraws
  BY <1>1, AtItemFacts, BulkOffsetLemma, FileAssumption DEF Space
<1>5. offset + used + RoundUp(size) =< FileSize
  <2>1. offset \in Nat
    BY <1>4
  <2> QED BY <2>1, <1>2, <1>4, RoundedFits
<1>6. used' = used + RoundUp(size) /\ used' % 16 = 0 /\ used' \in 0..FileSize
  BY <1>3, <1>4, <1>5 DEF Pack
<1>7. new \in Piece
  BY <1>1, AtItemFacts DEF Piece
<1>8. held' = held \cup {new}
  <2> SUFFICES ASSUME NEW q \in held PROVE Apart(new, q)
    BY DEF Pack, Written
  <2>1. q.from + q.size =< used
    BY <1>1 DEF Behind
  <2> QED BY <2>1 DEF Apart
<1>9. /\ table'[draw][item] = [offset |-> used, size |-> size]
      /\ \A d \in Draws, i \in DOMAIN Items :
            ~(d = draw /\ i = item) => table'[d][i] = table[d][i]
  BY <1>1, AtItemFacts DEF PackTypeOK, Pack
<1>10. PackTypeOK'
  <2>1. table' \in [Draws -> [DOMAIN Items -> [offset: 0..FileSize,
                                               size: DataSizes \cup {0}]]]
    <3>1. [offset |-> used, size |-> size] \in [offset: 0..FileSize, size: DataSizes \cup {0}]
      BY AtItemFacts, <1>1
    <3>2. [table[draw] EXCEPT ![item] = [offset |-> used, size |-> size]]
              \in [DOMAIN Items -> [offset: 0..FileSize, size: DataSizes \cup {0}]]
      BY <3>1, <1>1, AtItemFacts
    <3>3. table' = [table EXCEPT ![draw] =
                       [table[draw] EXCEPT ![item] = [offset |-> used, size |-> size]]]
      BY DEF Pack
    <3> QED BY <3>2, <3>3, <1>1, AtItemFacts DEF PackTypeOK
  <2>2. held' \subseteq Piece
    BY <1>1, <1>7, <1>8 DEF PackTypeOK
  <2>3. item' \in 0..(Len(Items) + 1)
    BY <1>1, AtItemFacts DEF Pack
  <2> QED BY <1>1, <1>6, <2>1, <2>2, <2>3 DEF PackTypeOK, Pack
<1>11. Space'
  <2>1. offset' = offset /\ count' = count
    BY DEF Pack
  <2>2. offset + used' =< FileSize
    BY <1>5, <1>6, <1>3, <1>4
  <2>3. offset = BulkOffset(count)
    BY <1>1 DEF Space
  <2> QED BY <2>1, <2>2, <2>3, <1>6 DEF Space
<1>12. Behind'
  <2> SUFFICES ASSUME NEW p \in held'
               PROVE  p.from % 16 = 0 /\ p.from + p.size =< used'
    BY DEF Behind
  <2>1. CASE p = new
    BY <2>1, <1>2, <1>3, <1>4, <1>6
  <2>2. CASE p \in held
    <3>1. p \in Piece
      BY <2>2, <1>1 DEF PackTypeOK
    <3>2. p.from \in Nat /\ p.size \in Nat
      BY <3>1, PieceLemma
    <3>3. p.from % 16 = 0 /\ p.from + p.size =< used
      BY <2>2, <1>1 DEF Behind
    <3> QED BY <3>2, <3>3, <1>3, <1>4, <1>6
  <2> QED BY <2>1, <2>2, <1>8
<1>13. draw' = draw /\ item' = item + 1 /\ count' = count
  BY DEF Pack
<1>14. Named'
  <2> SUFFICES ASSUME NEW p \in held'
               PROVE  /\ p.draw =< count' /\ Passed(p.draw, p.item, draw', item')
                      /\ table'[p.draw][p.item] = [offset |-> p.from, size |-> p.size]
    BY DEF Named, Passed
  <2>1. CASE p = new
    <3>1. draw \in 1..MaxDraws /\ draw =< count /\ item \in DOMAIN Items
      BY <1>4, <1>1, AtItemFacts, FileAssumption, SMTT(60)
    <3>2. Passed(p.draw, p.item, draw', item')
      BY <2>1, <3>1, <1>1, <1>13, PassedStep
    <3> QED BY <2>1, <3>1, <3>2, <1>9, <1>13
  <2>2. CASE p \in held
    <3>1. p \in Piece
      BY <2>2, <1>1 DEF PackTypeOK
    <3>2. p.draw \in 1..MaxDraws /\ p.draw \in Draws /\ p.item \in DOMAIN Items
          /\ p.size \in Nat /\ p.size > 0
      BY <3>1, PieceLemma
    <3>3. /\ p.draw =< count /\ Passed(p.draw, p.item, draw, item)
          /\ table[p.draw][p.item] = [offset |-> p.from, size |-> p.size]
      BY <2>2 DEF PackInv, Named
    <3>4. ~(p.draw = draw /\ p.item = item)
      BY <3>2, <3>3, <1>1, AtItemFacts, SMTT(60) DEF NoRange
    <3>5. table'[p.draw][p.item] = table[p.draw][p.item]
      BY <3>2, <3>4, <1>9
    <3> QED BY <3>2, <3>3, <3>5, <1>1, <1>13, PassedStep
  <2> QED BY <2>1, <2>2, <1>8
<1>15. OnlyHeld'
  <2> SUFFICES ASSUME NEW d \in 1..count, NEW i \in DOMAIN Items,
                      Passed(d, i, draw', item'), table'[d][i].size # 0
               PROVE  [draw |-> d, item |-> i, from |-> table'[d][i].offset,
                       size |-> table'[d][i].size] \in held'
    BY <1>13 DEF OnlyHeld
  <2>1. CASE d = draw /\ i = item
    BY <2>1, <1>8, <1>9
  <2>2. CASE ~(d = draw /\ i = item)
    <3>1. d \in 1..MaxDraws /\ d \in Draws
      BY <1>4, FileAssumption DEF Draws
    <3>2. table'[d][i] = table[d][i]
      BY <2>2, <3>1, <1>9
    <3>3. Passed(d, i, draw, item)
      BY <2>2, <3>1, <1>1, <1>13, PassedStep
    <3> QED BY <3>2, <3>3, <1>8 DEF PackInv, OnlyHeld
  <2> QED BY <2>1, <2>2
<1>16. Cleared'
  <2> SUFFICES ASSUME NEW i \in DOMAIN Items, i >= item + 1
               PROVE  table'[draw][i] = NoRange
    BY <1>13 DEF Cleared
  <2>1. i # item /\ i >= item /\ i \in Nat
    BY <1>1, AtItemFacts, ItemsLemma, SMTT(60)
  <2>2. table'[draw][i] = table[draw][i]
    BY <2>1, <1>1, <1>9, AtItemFacts
  <2>3. table[draw][i] = NoRange
    BY <2>1, <1>1, AtItemFacts DEF PackInv, Cleared
  <2> QED BY <2>2, <2>3
<1>17. Progress' /\ Announced'
  BY <1>1, AtItemFacts DEF PackInv, Progress, Announced, AtItem, Pack
<1> QED BY <1>10, <1>11, <1>12, <1>14, <1>15, <1>16, <1>17 DEF PackInv

LEMMA NextDrawIInv == ASSUME PackInv, NextDraw PROVE PackInv'
<1>1. /\ PackTypeOK /\ draw \in 1..count /\ count \in 0..MaxDraws /\ MaxDraws \in Nat
      /\ item = Len(Items) + 1
  BY FileAssumption DEF PackInv, PackTypeOK, NextDraw
<1>2. PackTypeOK'
  BY <1>1, ItemsLemma DEF PackTypeOK, NextDraw
<1>3. Space' /\ Behind' /\ Cleared'
  BY DEF PackInv, Space, Behind, Cleared, NextDraw
<1>4. \A d \in 1..MaxDraws, i \in DOMAIN Items : Passed(d, i, draw', item') <=> Passed(d, i, draw, item)
  BY <1>1, ItemsLemma DEF Passed, NextDraw
<1>5. Named'
  <2> SUFFICES ASSUME NEW p \in held'
               PROVE  /\ p.draw =< count' /\ Passed(p.draw, p.item, draw', item')
                      /\ table'[p.draw][p.item] = [offset |-> p.from, size |-> p.size]
    BY DEF Named, Passed
  <2>1. p \in held /\ p \in Piece /\ count' = count /\ table' = table
    BY <1>1 DEF PackTypeOK, NextDraw
  <2>2. p.draw \in 1..MaxDraws /\ p.item \in DOMAIN Items
    BY <2>1, PieceLemma
  <2>3. /\ p.draw =< count /\ Passed(p.draw, p.item, draw, item)
        /\ table[p.draw][p.item] = [offset |-> p.from, size |-> p.size]
    BY <2>1 DEF PackInv, Named
  <2> QED BY <2>1, <2>2, <2>3, <1>4
<1>6. OnlyHeld'
  <2> SUFFICES ASSUME NEW d \in 1..count, NEW i \in DOMAIN Items,
                      Passed(d, i, draw', item'), table[d][i].size # 0
               PROVE  [draw |-> d, item |-> i, from |-> table[d][i].offset,
                       size |-> table[d][i].size] \in held
    BY DEF OnlyHeld, NextDraw
  <2>1. d \in 1..MaxDraws
    BY <1>1
  <2> QED BY <2>1, <1>4 DEF PackInv, OnlyHeld
<1>7. Progress' /\ Announced'
  BY <1>1 DEF PackInv, Progress, Announced, NextDraw
<1> QED BY <1>2, <1>3, <1>5, <1>6, <1>7 DEF PackInv

LEMMA PublishIInv == ASSUME PackInv, PublishHeader PROVE PackInv'
<1>1. PackTypeOK'
  BY DEF PackInv, PackTypeOK, Header, PublishHeader
<1>2. /\ Space' /\ Behind' /\ Cleared' /\ Named' /\ OnlyHeld'
  BY DEF PackInv, Space, Behind, Cleared, Named, OnlyHeld, Passed, PublishHeader
<1>3. Progress' /\ Announced'
  BY DEF PackInv, Progress, Announced, PublishHeader
<1> QED BY <1>1, <1>2, <1>3 DEF PackInv

LEMMA NextIInv == PackInv /\ [PackNext]_packVars => PackInv'
<1> SUFFICES ASSUME PackInv, [PackNext]_packVars PROVE PackInv'
  OBVIOUS
<1>1. CASE \E stored \in 0..(MaxDraws + 1) : BeginFrame(stored)
  BY <1>1, BeginFrameIInv
<1>2. CASE ClearDraw
  BY <1>2, ClearDrawIInv
<1>3. CASE NoData
  BY <1>3, NoDataIInv
<1>4. CASE \E size \in DataSizes : Pack(size)
  BY <1>4, PackIInv
<1>5. CASE \E size \in DataSizes : LeaveOut(size)
  BY <1>5, LeaveOutIInv
<1>6. CASE NextDraw
  BY <1>6, NextDrawIInv
<1>7. CASE PublishHeader
  BY <1>7, PublishIInv
<1>8. CASE UNCHANGED packVars
  BY <1>8 DEF PackInv, PackTypeOK, Space, Behind, Named, OnlyHeld, Cleared, Progress, Announced,
              Passed, packVars
<1> QED BY <1>1, <1>2, <1>3, <1>4, <1>5, <1>6, <1>7, <1>8 DEF PackNext

LEMMA Inductive == PackSpec => []PackInv
<1>1. PackInit => PackInv
  BY InitIInv
<1>2. PackInv /\ [PackNext]_packVars => PackInv'
  BY NextIInv
<1> QED BY <1>1, <1>2, PTL DEF PackSpec

-----------------------------------------------------------------------------
(* What the invariant says of a frame. *)

\* The header a present leaves behind passes the viewer's layout checks.
LEMMA AcceptedLemma == PackInv => FrameAccepted
<1> SUFFICES ASSUME PackInv, phase = "published" PROVE HeaderOK
  BY DEF FrameAccepted
<1>1. /\ header.draw_count = count /\ header.bulk_data_offset = offset
      /\ header.bulk_data_used = used
  BY DEF PackInv, Announced
<1>2. /\ count \in 0..MaxDraws /\ offset \in 0..FileSize /\ used \in 0..FileSize
      /\ offset = BulkOffset(count) /\ offset + used =< FileSize
      /\ MaxDraws \in Nat /\ FileSize \in Nat
  BY FileAssumption DEF PackInv, PackTypeOK, Space
<1>3. offset >= HeaderSize + count * DrawSize
  BY <1>2, BulkOffsetLemma
<1> QED BY <1>1, <1>2, <1>3 DEF HeaderOK

\* A piece in the table is a piece in the file, and is accepted.
LEMMA TakesLemma == PackInv => TakesWhatIsThere
<1> SUFFICES ASSUME PackInv, phase = "published" PROVE Taken = held
  BY DEF TakesWhatIsThere
<1>1. /\ header.draw_count = count /\ header.bulk_data_offset = offset
      /\ header.bulk_data_used = used /\ draw = count + 1
  BY DEF PackInv, Announced
<1>2. /\ count \in 0..MaxDraws /\ offset \in 0..FileSize /\ used \in 0..FileSize
      /\ offset + used =< FileSize /\ FileSize \in Nat
  BY FileAssumption DEF PackInv, PackTypeOK, Space
<1>3. ASSUME NEW t \in Taken PROVE t \in held
  <2>1. PICK d \in 1..count, i \in DOMAIN Items :
            t = [draw |-> d, item |-> i, from |-> table[d][i].offset,
                 size |-> table[d][i].size]
    BY <1>1, <1>3 DEF Taken
  <2>2. RangeValid([offset |-> t.from, size |-> t.size])
    BY <1>3 DEF Taken
  <2>3. table[d][i].size # 0
    BY <2>1, <2>2 DEF RangeValid
  <2>4. Passed(d, i, draw, item)
    BY <1>1, <1>2 DEF Passed
  <2> QED BY <2>1, <2>3, <2>4 DEF PackInv, OnlyHeld
<1>4. ASSUME NEW p \in held PROVE p \in Taken
  <2>1. p \in Piece /\ p \in [draw: Draws, item: DOMAIN Items, from: 0..FileSize, size: DataSizes]
    BY <1>4 DEF PackInv, PackTypeOK, Piece
  <2>2. /\ p.draw \in 1..MaxDraws /\ p.item \in DOMAIN Items
        /\ p.from \in Nat /\ p.size \in Nat /\ p.size > 0
    BY <2>1, PieceLemma
  <2>3. /\ p.draw =< count
        /\ table[p.draw][p.item] = [offset |-> p.from, size |-> p.size]
        /\ p.from + p.size =< used
    BY <1>4 DEF PackInv, Named, Behind
  <2>4. p.draw \in 1..header.draw_count
    BY <1>1, <1>2, <2>2, <2>3
  <2>5. p = [draw |-> p.draw, item |-> p.item, from |-> table[p.draw][p.item].offset,
             size |-> table[p.draw][p.item].size]
    BY <2>1, <2>3
  <2>6. RangeValid([offset |-> p.from, size |-> p.size])
    BY <1>1, <1>2, <2>2, <2>3 DEF RangeValid
  <2> QED BY <2>2, <2>4, <2>5, <2>6 DEF Taken
<1> QED BY <1>3, <1>4

\* Where the pieces are, from where the packer is.
LEMMA InPlaceLemma == PackInv => InPlace
<1> SUFFICES ASSUME PackInv, NEW p \in held
             PROVE  /\ (offset + p.from) % 16 = 0
                    /\ offset + p.from >= HeaderSize + count * DrawSize
                    /\ offset + p.from + p.size =< FileSize
  BY DEF InPlace
<1>1. /\ count \in 0..MaxDraws /\ offset = BulkOffset(count) /\ offset + used =< FileSize
      /\ offset \in 0..FileSize /\ used \in 0..FileSize /\ FileSize \in Nat /\ HeaderSize \in Nat
  BY FileAssumption DEF PackInv, PackTypeOK, Space
<1>2. /\ offset % 16 = 0 /\ offset >= HeaderSize + count * DrawSize /\ count * DrawSize \in Nat
  BY <1>1, BulkOffsetLemma
<1>3. p.from \in Nat /\ p.size \in Nat
  BY PieceLemma DEF PackInv, PackTypeOK
<1>4. p.from % 16 = 0 /\ p.from + p.size =< used
  BY DEF PackInv, Behind
<1>5. (offset + p.from) % 16 = 0
  <2>1. offset \in Nat
    BY <1>1
  <2> QED BY <2>1, <1>2, <1>3, <1>4, LinesAdd
<1> DEFINE t == count * DrawSize
<1> HIDE DEF t
<1>6. offset + p.from >= HeaderSize + t
  BY <1>1, <1>2, <1>3 DEF t
<1>7. offset + p.from + p.size =< FileSize
  BY <1>1, <1>3, <1>4
<1> QED BY <1>5, <1>6, <1>7 DEF t

\* The packer's counters, table and header keep their types: in particular the
\* recorded commands beyond the table are never counted.
THEOREM PackTypeCorrect == PackSpec => []PackTypeOK
<1>1. PackInv => PackTypeOK
  BY DEF PackInv
<1> QED BY <1>1, Inductive, PTL

\* No frame is rejected by the viewer for its layout.
THEOREM FramesAreAccepted == PackSpec => []FrameAccepted
BY Inductive, AcceptedLemma, PTL

\* The viewer uses the data of the frame, all that was packed and nothing else.
THEOREM ViewerTakesWhatIsThere == PackSpec => []TakesWhatIsThere
BY Inductive, TakesLemma, PTL

\* Packed data lies in the file, behind the table, on 16-byte lines.
THEOREM DataIsInPlace == PackSpec => []InPlace
BY Inductive, InPlaceLemma, PTL
=============================================================================
