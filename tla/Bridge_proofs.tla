--------------------------- MODULE Bridge_proofs ---------------------------
(***************************************************************************)
(* What the backend bridge records and presents: under every client that   *)
(* its interface admits (BackendBridge, whose specification is ClientSpec),*)
(* and under the device (DeviceFrames, whose specification is Spec).       *)
(***************************************************************************)
EXTENDS BackendBridge, DeviceFrames, SequenceTheorems, TLAPS

-----------------------------------------------------------------------------
(* BackendBridge for every client: any numbers of packets and frames, any
   capacities, batches of any length.  One fact carries the proofs: what a packet
   may do to the recorded commands is nothing, to add one with its own number, or
   to take all away. *)

ClientPacket ==
  [type : PacketTypes, seq : Nat, frame : Nat, valid : BOOLEAN]

LEMMA PacketsTyped ==
  ASSUME NEW p \in Packets
  PROVE  p \in ClientPacket
<1>1. Numbers \subseteq Nat /\ Frames \subseteq Nat /\ NoFrame \in Nat
  BY ClientAssumption DEF NoFrame
<1>2. /\ p.type \in PacketTypes
      /\ p.seq \in Numbers
      /\ p.frame \in Frames \cup {NoFrame}
      /\ p.valid \in BOOLEAN
      /\ p = [type |-> p.type, seq |-> p.seq, frame |-> p.frame, valid |-> p.valid]
  BY DEF Packets, PacketTypes
<1>3. QED
  BY <1>1, <1>2 DEF ClientPacket

-----------------------------------------------------------------------------
\* What the calls do to the recorded commands.

LEMMA ClientFreshReplay == FreshReplay \in ClientReplayType
BY DEF FreshReplay, ClientReplayType, NoClear, NoFrame

\* An update of one or two counters and of the list.
LEMMA ClientReplayUpdate ==
  ASSUME NEW r \in ClientReplayType, NEW k \in Nat, NEW j \in Nat,
         NEW s \in Seq(Nat \ {0})
  PROVE  /\ [r EXCEPT !.total = k, !.stored = s] \in ClientReplayType
         /\ [r EXCEPT !.total = k, !.dropped = j] \in ClientReplayType
<1>1. [r EXCEPT !.total = k, !.stored = s] \in ClientReplayType
  BY DEF ClientReplayType
<1>2. [r EXCEPT !.total = k, !.dropped = j] \in ClientReplayType
  BY DEF ClientReplayType
<1>3. QED
  BY <1>1, <1>2

LEMMA DrawCountUpdate ==
  ASSUME NEW r \in ClientReplayType, NEW k \in Nat
  PROVE  [r EXCEPT !.drawCount = k] \in ClientReplayType
BY DEF ClientReplayType

LEMMA RecordEffect ==
  ASSUME NEW r \in ClientReplayType, NEW c \in Nat \ {0}
  PROVE  /\ Record(r, c) \in ClientReplayType
         /\ \/ Record(r, c).stored = r.stored
            \/ /\ Len(r.stored) < MaxStored
               /\ Record(r, c).stored = Append(r.stored, c)
         /\ Record(r, c).clear = r.clear
<1>1. /\ Append(r.stored, c) \in Seq(Nat \ {0})
      /\ r.total + 1 \in Nat
      /\ r.dropped + 1 \in Nat
  BY DEF ClientReplayType
<1>2. CASE Len(r.stored) < MaxStored
  BY <1>1, <1>2, ClientReplayUpdate DEF Record, ClientReplayType
<1>3. CASE ~(Len(r.stored) < MaxStored)
  BY <1>1, <1>3, ClientReplayUpdate DEF Record, ClientReplayType
<1>4. QED
  BY <1>2, <1>3

LEMMA RecordDrawEffect ==
  ASSUME NEW r \in ClientReplayType, NEW c \in Nat \ {0}
  PROVE  /\ RecordDraw(r, c) \in ClientReplayType
         /\ RecordDraw(r, c).stored = Record(r, c).stored
         /\ RecordDraw(r, c).clear = r.clear
<1>1. Record(r, c) \in ClientReplayType /\ Record(r, c).clear = r.clear
  BY RecordEffect
<1> DEFINE s == Record(r, c)
<1>2. RecordDraw(r, c) = [s EXCEPT !.drawCount = s.drawCount + 1]
  BY DEF RecordDraw
<1>3. s \in ClientReplayType
  BY <1>1
<1> HIDE DEF s
<1>4. s.drawCount + 1 \in Nat
  BY <1>3 DEF ClientReplayType
<1>5. RecordDraw(r, c) \in ClientReplayType
  BY <1>2, <1>3, <1>4, DrawCountUpdate
<1>6. /\ RecordDraw(r, c).stored = s.stored
      /\ RecordDraw(r, c).clear = s.clear
  BY <1>2, <1>3 DEF ClientReplayType
<1>7. QED
  BY <1>1, <1>5, <1>6 DEF s

\* The state q of the replay after a packet with number n, from r.
Effect(r, q, n) ==
  /\ q \in ClientReplayType
  /\ \/ q.stored = r.stored
     \/ Len(r.stored) < MaxStored /\ q.stored = Append(r.stored, n)
     \/ q.stored = <<>>
  /\ q.clear \in {r.clear, n, NoClear}

LEMMA TakeEffect ==
  ASSUME NEW b \in ClientBridgeType, NEW p \in ClientPacket, p.seq # 0
  PROVE  /\ Take(b, p) \in ClientBridgeType
         /\ Take(b, p).lastSeq = b.lastSeq
         /\ Effect(b.replay, Take(b, p).replay, p.seq)
<1>1. p.seq \in Nat \ {0} /\ p.frame \in Nat /\ b.replay \in ClientReplayType
  BY DEF ClientPacket, ClientBridgeType
<1>2. CASE p.type = "begin_frame"
  BY <1>1, <1>2, ClientFreshReplay
  DEF Take, BeginFrame, ClientBridgeType, Effect, FreshReplay, NoClear
<1>3. CASE p.type = "draw"
  <2>1. Take(b, p) = [b EXCEPT !.replay = RecordDraw(b.replay, p.seq)]
    BY <1>3 DEF Take
  <2>2. Effect(b.replay, RecordDraw(b.replay, p.seq), p.seq)
    BY <1>1, RecordEffect, RecordDrawEffect, ZenonT(60) DEF Effect
  <2>3. QED
    BY <2>1, <2>2 DEF ClientBridgeType, Effect
<1>4. CASE p.type = "stretch_rect"
  <2>1. Take(b, p) = [b EXCEPT !.replay = Record(b.replay, p.seq)]
    BY <1>4 DEF Take
  <2>2. Effect(b.replay, Record(b.replay, p.seq), p.seq)
    BY <1>1, RecordEffect DEF Effect
  <2>3. QED
    BY <2>1, <2>2 DEF ClientBridgeType, Effect
<1>5. CASE p.type = "clear"
  <2>1. Take(b, p) = [b EXCEPT !.replay = [b.replay EXCEPT !.clear = p.seq]]
    BY <1>5 DEF Take
  <2>2. Effect(b.replay, [b.replay EXCEPT !.clear = p.seq], p.seq)
    BY <1>1 DEF Effect, ClientReplayType
  <2>3. QED
    BY <2>1, <2>2 DEF ClientBridgeType, Effect
<1>6. CASE p.type = "present"
  <2>1. Take(b, p) =
          [b EXCEPT !.replay = [b.replay EXCEPT !.presentFrame = p.frame]]
    BY <1>6 DEF Take
  <2>2. Effect(b.replay, [b.replay EXCEPT !.presentFrame = p.frame], p.seq)
    BY <1>1 DEF Effect, ClientReplayType
  <2>3. QED
    BY <2>1, <2>2 DEF ClientBridgeType, Effect
<1>7. CASE p.type \in {"malformed", "init", "shutdown"}
  BY <1>1, <1>7 DEF Take, Effect
<1>8. QED
  BY <1>2, <1>3, <1>4, <1>5, <1>6, <1>7 DEF ClientPacket, PacketTypes

\* A packet that does not take a number does nothing.
LEMMA SubmitEffect ==
  ASSUME NEW b \in ClientBridgeType, NEW p \in ClientPacket
  PROVE  /\ Submit(b, p) \in ClientBridgeType
         /\ \/ Submit(b, p) = b
            \/ /\ InOrder(b, p)
               /\ Submit(b, p).lastSeq = p.seq
               /\ Effect(b.replay, Submit(b, p).replay, p.seq)
<1> DEFINE numbered == [b EXCEPT !.lastSeq = p.seq]
<1>1. /\ numbered \in ClientBridgeType
      /\ numbered.replay = b.replay
      /\ numbered.lastSeq = p.seq
  BY DEF ClientPacket, ClientBridgeType
<1>2. Effect(b.replay, b.replay, p.seq)
  BY DEF Effect, ClientBridgeType
<1> HIDE DEF numbered
<1>3. CASE Accepted(b, p)
  <2>1. Submit(b, p) = Take(numbered, p)
    BY <1>3 DEF Submit, numbered
  <2>2. InOrder(b, p) /\ p.seq # 0
    BY <1>3 DEF Accepted, Admitted, InOrder
  <2>3. QED
    BY <1>1, <2>1, <2>2, TakeEffect
<1>4. CASE ~Accepted(b, p) /\ Admitted(b, p)
  <2>1. Submit(b, p) = numbered
    BY <1>4 DEF Submit, numbered
  <2>2. QED
    BY <1>1, <1>2, <1>4, <2>1 DEF Admitted
<1>5. CASE ~Admitted(b, p)
  BY <1>5 DEF Submit, Accepted
<1>6. QED
  BY <1>3, <1>4, <1>5

-----------------------------------------------------------------------------
\* Types.

LEMMA InitType == ClientInit => ClientTypeOK
<1> SUFFICES ASSUME ClientInit PROVE ClientTypeOK
  OBVIOUS
<1>1. /\ bridge \in ClientBridgeType
      /\ bridge.replay.stored = <<>>
  BY ClientFreshReplay
  DEF ClientInit, ShutDown, Initialized, ClientBridgeType, ClientReplayType, FreshReplay
<1>2. ipc \in [frame : Nat, draws : Seq(Nat \ {0}), clear : Nat]
      /\ ipc.draws = <<>>
  BY DEF ClientInit, NothingPublished, NoClear
<1>3. QED
  BY <1>1, <1>2, CapacityAssumption, ClientAssumption DEF ClientInit, ClientTypeOK

\* The array of commands never overflows.
LEMMA EffectBound ==
  ASSUME NEW r \in ClientReplayType, NEW q, NEW n \in Nat, Effect(r, q, n),
         Len(r.stored) <= MaxStored
  PROVE  Len(q.stored) <= MaxStored
BY CapacityAssumption, SMTT(60) DEF Effect, ClientReplayType

LEMMA SubmitPacketType ==
  ASSUME ClientTypeOK, NEW p \in Packets, SubmitPacket(p)
  PROVE  ClientTypeOK'
<1>1. p \in ClientPacket /\ p.seq \in Nat /\ bridge.replay \in ClientReplayType
  BY PacketsTyped DEF ClientPacket, ClientTypeOK, ClientBridgeType
<1>2. /\ bridge' \in ClientBridgeType
      /\ Len(bridge'.replay.stored) <= MaxStored
  BY <1>1, SubmitEffect, EffectBound DEF SubmitPacket, ClientTypeOK
<1>3. QED
  BY <1>2, ClientAssumption DEF SubmitPacket, ClientTypeOK, Status

LEMMA ClientPrefix ==
  ASSUME NEW s \in Seq(Nat \ {0}), NEW n \in Nat
  PROVE  Prefix(s, n) \in Seq(Nat \ {0}) /\ Len(Prefix(s, n)) <= n
BY DEF Prefix

LEMMA PresentType ==
  ASSUME ClientTypeOK, NEW f \in Frames, BridgePresent(f)
  PROVE  ClientTypeOK'
<1>1. f \in Nat /\ bridge.replay \in ClientReplayType
  BY ClientAssumption DEF ClientTypeOK, ClientBridgeType
<1>2. /\ Presented(bridge, f) \in ClientBridgeType
      /\ Presented(bridge, f).replay.stored = bridge.replay.stored
  BY <1>1 DEF Presented, ClientTypeOK, ClientBridgeType, ClientReplayType, NoFrame
<1>3. /\ FrameOf(bridge, f) \in [frame : Nat, draws : Seq(Nat \ {0}), clear : Nat]
      /\ Len(FrameOf(bridge, f).draws) <= MaxIpcDraws
  BY <1>1, ClientPrefix, CapacityAssumption DEF FrameOf, ClientReplayType
<1>4. QED
  BY <1>2, <1>3 DEF BridgePresent, ClientTypeOK, Idle, Status

LEMMA NextType == ClientTypeOK /\ [ClientNext]_clientVars => ClientTypeOK'
<1> SUFFICES ASSUME ClientTypeOK, [ClientNext]_clientVars PROVE ClientTypeOK'
  OBVIOUS
<1>1. CASE BridgeInit
  <2>1. Initialized \in ClientBridgeType /\ Initialized.replay.stored = <<>>
    BY ClientFreshReplay DEF Initialized, ClientBridgeType, FreshReplay
  <2>2. /\ NothingPublished \in [frame : Nat, draws : Seq(Nat \ {0}), clear : Nat]
        /\ NothingPublished.draws = <<>>
    BY DEF NothingPublished, NoClear
  <2>3. QED
    BY <1>1, <2>1, <2>2, CapacityAssumption DEF BridgeInit, ClientTypeOK, Idle
<1>2. CASE BridgeShutdown
  <2>1. /\ ShutDown(bridge) \in ClientBridgeType
        /\ ShutDown(bridge).replay.stored = <<>>
    <3>1. bridge.replay.drawCount \in Nat
      BY DEF ClientTypeOK, ClientBridgeType, ClientReplayType
    <3>2. [FreshReplay EXCEPT !.drawCount = bridge.replay.drawCount] \in ClientReplayType
      BY <3>1, ClientFreshReplay, DrawCountUpdate
    <3>3. QED
      BY <3>2 DEF ShutDown, ClientTypeOK, ClientBridgeType, FreshReplay
  <2>2. QED
    BY <1>2, <2>1, CapacityAssumption DEF BridgeShutdown, ClientTypeOK, Idle
<1>3. CASE \E wellFormed \in BOOLEAN : UpdatePresentTarget(wellFormed)
  BY <1>3 DEF UpdatePresentTarget, UpdateTarget, ClientTypeOK, ClientBridgeType, Idle, Status
<1>4. CASE \E n \in 0..MaxBatch : SubmitPackets(n)
  BY <1>4, ClientAssumption DEF SubmitPackets, ClientTypeOK, Status
<1>5. CASE \E p \in Packets : SubmitPacket(p)
  BY <1>5, SubmitPacketType
<1>6. ASSUME NEW f \in Frames, BridgeBeginFrame(f) PROVE ClientTypeOK'
  <2>1. f \in Nat
    BY ClientAssumption
  <2>2. /\ BeginFrame(bridge, f) \in ClientBridgeType
        /\ BeginFrame(bridge, f).replay \in {bridge.replay, FreshReplay}
    BY <2>1, ClientFreshReplay DEF BeginFrame, ClientTypeOK, ClientBridgeType
  <2>3. Len(BeginFrame(bridge, f).replay.stored) <= MaxStored
    BY <2>2, CapacityAssumption DEF ClientTypeOK, FreshReplay
  <2>4. QED
    BY <1>6, <2>2, <2>3 DEF BridgeBeginFrame, ClientTypeOK, Idle, Status
<1>7. CASE \E f \in Frames : BridgePresent(f)
  BY <1>7, PresentType
<1>8. CASE UNCHANGED clientVars
  BY <1>8 DEF clientVars, ClientTypeOK
<1>9. QED
  BY <1>1, <1>2, <1>3, <1>4, <1>5, <1>6, <1>7, <1>8 DEF ClientNext

\* Neither the replay array nor the array of the shared file overflows, and
\* every variable keeps its type, whatever the client calls.
THEOREM ClientTypeCorrect == ClientSpec => []ClientTypeOK
<1>1. QED
  BY InitType, NextType, PTL DEF ClientSpec

-----------------------------------------------------------------------------
\* Order.

InSequence(b) ==
  /\ \A i, j \in DOMAIN b.replay.stored :
       i < j => b.replay.stored[i] < b.replay.stored[j]
  /\ \A i \in DOMAIN b.replay.stored : b.replay.stored[i] <= b.lastSeq
  /\ b.replay.clear <= b.lastSeq

LEMMA AppendInOrder ==
  ASSUME NEW s \in Seq(Nat \ {0}), NEW n \in Nat \ {0},
         \A i \in DOMAIN s : s[i] < n,
         \A i, j \in DOMAIN s : i < j => s[i] < s[j]
  PROVE  LET t == Append(s, n) IN
         /\ \A i, j \in DOMAIN t : i < j => t[i] < t[j]
         /\ \A i \in DOMAIN t : t[i] <= n
<1> DEFINE t == Append(s, n)
<1>1. /\ Len(s) \in Nat
      /\ DOMAIN s = 1..Len(s)
      /\ DOMAIN t = 1..(Len(s) + 1)
      /\ \A i \in 1..Len(s) : t[i] = s[i] /\ s[i] \in Nat
      /\ t[Len(s) + 1] = n
  OBVIOUS
<1> HIDE DEF t
<1>2. ASSUME NEW i \in DOMAIN t, NEW j \in DOMAIN t, i < j
      PROVE  t[i] < t[j]
  <2>1. i \in 1..Len(s)
    BY <1>1, <1>2
  <2>2. CASE j \in 1..Len(s)
    BY <1>1, <1>2, <2>1, <2>2
  <2>3. CASE j = Len(s) + 1
    BY <1>1, <2>1, <2>3
  <2>4. QED
    BY <1>1, <2>2, <2>3
<1>3. \A i \in DOMAIN t : t[i] <= n
  BY <1>1
<1>4. QED
  BY <1>2, <1>3 DEF t

LEMMA EffectInSequence ==
  ASSUME NEW b \in ClientBridgeType, NEW c \in ClientBridgeType, NEW n \in Nat \ {0},
         InSequence(b), n > b.lastSeq, c.lastSeq = n,
         Effect(b.replay, c.replay, n)
  PROVE  InSequence(c)
<1>1. /\ b.replay.stored \in Seq(Nat \ {0})
      /\ b.replay.clear \in Nat
      /\ b.lastSeq \in Nat
  BY DEF ClientBridgeType, ClientReplayType
<1>2. c.replay.clear <= n
  BY <1>1 DEF Effect, InSequence, NoClear
<1>3. CASE c.replay.stored = b.replay.stored
  BY <1>1, <1>2, <1>3 DEF InSequence
<1>4. CASE c.replay.stored = Append(b.replay.stored, n)
  <2>1. \A i \in DOMAIN b.replay.stored : b.replay.stored[i] < n
    BY <1>1 DEF InSequence
  <2>2. QED
    BY <1>1, <1>2, <1>4, <2>1, AppendInOrder DEF InSequence
<1>5. CASE c.replay.stored = <<>>
  BY <1>2, <1>5 DEF InSequence
<1>6. QED
  BY <1>3, <1>4, <1>5 DEF Effect

LEMMA SubmitInSequence ==
  ASSUME NEW b \in ClientBridgeType, NEW p \in ClientPacket, InSequence(b)
  PROVE  InSequence(Submit(b, p))
<1>1. CASE Submit(b, p) = b
  BY <1>1
<1>2. CASE /\ InOrder(b, p)
           /\ Submit(b, p).lastSeq = p.seq
           /\ Effect(b.replay, Submit(b, p).replay, p.seq)
  <2>1. p.seq \in Nat \ {0} /\ p.seq > b.lastSeq
    BY <1>2 DEF InOrder, ClientPacket, ClientBridgeType
  <2>2. QED
    BY <1>2, <2>1, SubmitEffect, EffectInSequence
<1>3. QED
  BY <1>1, <1>2, SubmitEffect

LEMMA EmptyInSequence ==
  ASSUME NEW b \in ClientBridgeType, b.replay.stored = <<>>, b.replay.clear = NoClear
  PROVE  InSequence(b)
BY DEF InSequence, NoClear, ClientBridgeType

LEMMA InitInSequence == ClientInit => StoredInSequence
BY DEF ClientInit, StoredInSequence, ShutDown, Initialized, FreshReplay, NoClear

LEMMA NextInSequence ==
  ClientTypeOK /\ ClientTypeOK' /\ StoredInSequence /\ [ClientNext]_clientVars => StoredInSequence'
<1> SUFFICES ASSUME ClientTypeOK, ClientTypeOK', InSequence(bridge), [ClientNext]_clientVars
             PROVE  InSequence(bridge')
  BY DEF StoredInSequence, InSequence
<1> USE DEF ClientTypeOK
<1>1. CASE BridgeInit
  BY <1>1, EmptyInSequence DEF BridgeInit, Initialized, FreshReplay
<1>2. CASE BridgeShutdown
  <2>1. CASE bridge.ready
    <3>1. /\ bridge'.replay.stored = <<>>
          /\ bridge'.replay.clear = NoClear
      BY <1>2, <2>1 DEF BridgeShutdown, ShutDown, ClientBridgeType, FreshReplay
    <3>2. QED
      BY <3>1, EmptyInSequence
  <2>2. CASE ~bridge.ready
    BY <1>2, <2>2 DEF BridgeShutdown
  <2>3. QED
    BY <2>1, <2>2
<1>3. CASE \E wellFormed \in BOOLEAN : UpdatePresentTarget(wellFormed)
  <2>1. bridge'.replay = bridge.replay /\ bridge'.lastSeq = bridge.lastSeq
    BY <1>3 DEF UpdatePresentTarget, UpdateTarget, ClientBridgeType
  <2>2. QED
    BY <2>1 DEF InSequence
<1>4. CASE \E n \in 0..MaxBatch : SubmitPackets(n)
  BY <1>4 DEF SubmitPackets
<1>5. CASE \E p \in Packets : SubmitPacket(p)
  BY <1>5, PacketsTyped, SubmitInSequence DEF SubmitPacket
<1>6. ASSUME NEW f \in Frames, BridgeBeginFrame(f) PROVE InSequence(bridge')
  <2>1. \/ bridge' = bridge
        \/ /\ bridge'.replay.stored = <<>>
           /\ bridge'.replay.clear = NoClear
    BY <1>6 DEF BridgeBeginFrame, BeginFrame, ClientBridgeType, FreshReplay
  <2>2. QED
    BY <2>1, EmptyInSequence
<1>7. ASSUME NEW f \in Frames, BridgePresent(f) PROVE InSequence(bridge')
  <2>1. /\ bridge'.replay.stored = bridge.replay.stored
        /\ bridge'.replay.clear = bridge.replay.clear
        /\ bridge'.lastSeq = bridge.lastSeq
    BY <1>7 DEF BridgePresent, Presented, ClientBridgeType, ClientReplayType
  <2>2. QED
    BY <2>1 DEF InSequence
<1>8. CASE UNCHANGED clientVars
  BY <1>8 DEF clientVars
<1>9. QED
  BY <1>1, <1>2, <1>3, <1>4, <1>5, <1>6, <1>7, <1>8 DEF ClientNext

\* Recorded commands are in the order of their packet numbers for any client,
\* any batches and any restarts.
THEOREM OrderHolds == ClientSpec => []StoredInSequence
<1>1. QED
  BY InitType, InitInSequence, NextType, NextInSequence, PTL DEF ClientSpec

-----------------------------------------------------------------------------
\* What a step may do.

Together(s, t) == IsPrefix(s, t) \/ Range(s) \cap Range(t) = {}

Grows(s, t, n) == t = s \/ t = Append(s, n) \/ t = <<>>

LEMMA GrowsTogether ==
  ASSUME NEW s \in Seq(Nat \ {0}), NEW n \in Nat \ {0}, NEW t, Grows(s, t, n)
  PROVE  Together(s, t)
<1> USE DEF Grows
<1>1. CASE t = s
  BY <1>1 DEF Together, IsPrefix
<1>2. CASE t = Append(s, n)
  <2>1. /\ Len(s) <= Len(t)
        /\ SubSeq(t, 1, Len(s)) = s
        /\ SubSeq(s, 1, Len(s)) = s
    BY <1>2, AppendProperties, SubSeqProperties
  <2>2. QED
    BY <2>1 DEF Together, IsPrefix
<1>3. CASE t = <<>>
  BY <1>3 DEF Together, Range
<1>4. QED
  BY <1>1, <1>2, <1>3

LEMMA NextTogether ==
  ASSUME ClientTypeOK, ClientNext
  PROVE  Together(bridge.replay.stored, bridge'.replay.stored)
<1>1. bridge.replay.stored \in Seq(Nat \ {0}) /\ bridge \in ClientBridgeType
  BY DEF ClientTypeOK, ClientBridgeType, ClientReplayType
<1>2. ASSUME NEW p \in Packets, SubmitPacket(p)
      PROVE  \E n \in Nat \ {0} :
               Grows(bridge.replay.stored, bridge'.replay.stored, n)
  <2>1. \/ bridge' = bridge
        \/ p.seq # 0 /\ Effect(bridge.replay, bridge'.replay, p.seq)
    BY <1>1, <1>2, PacketsTyped, SubmitEffect DEF SubmitPacket, InOrder
  <2>2. p.seq \in Nat
    BY PacketsTyped DEF ClientPacket
  <2>3. CASE bridge' = bridge
    <3>1. Grows(bridge.replay.stored, bridge'.replay.stored, 1)
      BY <2>3 DEF Grows
    <3>2. QED
      BY <3>1
  <2>4. CASE p.seq # 0 /\ Effect(bridge.replay, bridge'.replay, p.seq)
    <3>1. Grows(bridge.replay.stored, bridge'.replay.stored, p.seq)
      BY <2>4 DEF Effect, Grows
    <3>2. QED
      BY <2>2, <2>4, <3>1
  <2>5. QED
    BY <2>1, <2>3, <2>4
<1>3. ASSUME ~ \E p \in Packets : SubmitPacket(p)
      PROVE  Grows(bridge.replay.stored, bridge'.replay.stored, 1)
  <2>1. CASE BridgeInit
    BY <2>1 DEF BridgeInit, Initialized, FreshReplay, Grows
  <2>2. CASE BridgeShutdown
    BY <1>1, <2>2 DEF BridgeShutdown, ShutDown, ClientBridgeType, FreshReplay, Grows
  <2>3. CASE \E wellFormed \in BOOLEAN : UpdatePresentTarget(wellFormed)
    BY <1>1, <2>3 DEF UpdatePresentTarget, UpdateTarget, ClientBridgeType, Grows
  <2>4. CASE \E n \in 0..MaxBatch : SubmitPackets(n)
    BY <2>4 DEF SubmitPackets, Grows
  <2>5. CASE \E f \in Frames : BridgeBeginFrame(f)
    BY <1>1, <2>5 DEF BridgeBeginFrame, BeginFrame, ClientBridgeType, FreshReplay, Grows
  <2>6. CASE \E f \in Frames : BridgePresent(f)
    BY <1>1, <2>6 DEF BridgePresent, Presented, ClientBridgeType, ClientReplayType, Grows
  <2>7. QED
    BY <1>3, <2>1, <2>2, <2>3, <2>4, <2>5, <2>6 DEF ClientNext
<1>4. QED
  BY <1>1, <1>2, <1>3, GrowsTogether

\* The commands of a frame are only ever added to, or all taken away.
THEOREM KeptTogether == ClientSpec => CommandsGoTogether
<1>1. ClientTypeOK /\ [ClientNext]_clientVars =>
        [\/ IsPrefix(bridge.replay.stored, bridge'.replay.stored)
         \/ Range(bridge.replay.stored) \cap Range(bridge'.replay.stored) = {}]_clientVars
  BY NextTogether DEF Together
<1>2. QED
  BY <1>1, ClientTypeCorrect, PTL DEF ClientSpec, CommandsGoTogether

-----------------------------------------------------------------------------
(* What is published.  While the bridge is ready, the frame in the file is the
   beginning of what is recorded or older than all of it, and its numbers have
   all been taken. *)

\* s begins with d, element by element.
Begins(d, s) == Len(d) <= Len(s) /\ \A i \in 1..Len(d) : d[i] = s[i]

Older(d, s) == \A i \in DOMAIN d, j \in DOMAIN s : d[i] < s[j]

Follows(d, s) == Begins(d, s) \/ Older(d, s)

UpTo(d, n) == \A i \in DOMAIN d : d[i] <= n

FileInv(b, d) == b.ready => Follows(d, b.replay.stored) /\ UpTo(d, b.lastSeq)

NumberSeq == Seq(Nat \ {0})

LEMMA BeginsIsPrefix ==
  ASSUME NEW d \in NumberSeq, NEW s \in NumberSeq, Begins(d, s)
  PROVE  IsPrefix(d, s)
<1>1. Len(d) \in Nat /\ Len(s) \in Nat /\ Len(d) <= Len(s)
  BY DEF NumberSeq, Begins
<1>2. SubSeq(d, 1, Len(d)) = SubSeq(s, 1, Len(d))
  BY <1>1 DEF NumberSeq, Begins
<1>3. QED
  BY <1>1, <1>2 DEF IsPrefix

\* One more command, with a number above all that were taken.
LEMMA FollowsAppend ==
  ASSUME NEW d \in NumberSeq, NEW s \in NumberSeq, NEW n \in Nat \ {0},
         NEW m \in Nat, m < n, UpTo(d, m), Follows(d, s)
  PROVE  Follows(d, Append(s, n))
<1> DEFINE t == Append(s, n)
<1>1. /\ Len(d) \in Nat /\ Len(s) \in Nat /\ Len(t) = Len(s) + 1
      /\ DOMAIN d = 1..Len(d) /\ DOMAIN s = 1..Len(s) /\ DOMAIN t = 1..(Len(s) + 1)
      /\ \A i \in 1..Len(s) : t[i] = s[i]
      /\ t[Len(s) + 1] = n
      /\ \A i \in 1..Len(d) : d[i] \in Nat
  BY DEF NumberSeq
<1> HIDE DEF t
<1>2. CASE Begins(d, s)
  BY <1>1, <1>2 DEF Begins, Follows, t
<1>3. CASE Older(d, s)
  <2> SUFFICES ASSUME NEW i \in DOMAIN d, NEW j \in DOMAIN t
               PROVE  d[i] < t[j]
    BY DEF Older, Follows, t
  <2>1. CASE j \in 1..Len(s)
    BY <1>1, <1>3, <2>1 DEF Older
  <2>2. CASE j = Len(s) + 1
    <3>1. d[i] <= m /\ d[i] \in Nat
      BY <1>1 DEF UpTo
    <3>2. QED
      BY <1>1, <2>2, <3>1
  <2>3. QED
    BY <1>1, <2>1, <2>2
<1>4. QED
  BY <1>2, <1>3 DEF Follows

LEMMA FollowsNothing == ASSUME NEW d PROVE Follows(d, <<>>)
BY DEF Follows, Older

LEMMA BeginnersAgree ==
  ASSUME NEW d \in NumberSeq, NEW s \in NumberSeq, Begins(d, s)
  PROVE  \A i \in DOMAIN d : i \in DOMAIN s /\ d[i] = s[i]
<1>1. DOMAIN d = 1..Len(d) /\ DOMAIN s = 1..Len(s) /\ Len(d) \in Nat /\ Len(s) \in Nat
  BY DEF NumberSeq
<1>2. QED
  BY <1>1 DEF Begins

\* What bridge_present writes is the beginning of what is recorded.
LEMMA PrefixFollows ==
  ASSUME NEW s \in NumberSeq, NEW n \in Nat
  PROVE  /\ Prefix(s, n) \in NumberSeq
         /\ Begins(Prefix(s, n), s)
         /\ \A k \in Nat : UpTo(s, k) => UpTo(Prefix(s, n), k)
<1>1. /\ Prefix(s, n) \in NumberSeq
      /\ Begins(Prefix(s, n), s)
  BY DEF Prefix, NumberSeq, Begins
<1> DEFINE d == Prefix(s, n)
<1>2. d \in NumberSeq /\ Begins(d, s)
  BY <1>1
<1> HIDE DEF d
<1>3. \A i \in DOMAIN d : i \in DOMAIN s /\ d[i] = s[i]
  BY <1>2, BeginnersAgree
<1>4. QED
  BY <1>1, <1>3 DEF UpTo, d

\* It goes on from what the file showed before.
LEMMA PrefixContinues ==
  ASSUME NEW d \in NumberSeq, NEW s \in NumberSeq, NEW n \in Nat, Len(d) <= n,
         Follows(d, s)
  PROVE  Follows(d, Prefix(s, n))
<1>1. CASE Begins(d, s)
  BY <1>1 DEF Begins, Follows, Prefix, NumberSeq
<1>2. CASE Older(d, s)
  <2>1. Begins(Prefix(s, n), s) /\ Prefix(s, n) \in NumberSeq
    BY PrefixFollows
  <2>2. \A i \in DOMAIN Prefix(s, n) : i \in DOMAIN s /\ Prefix(s, n)[i] = s[i]
    BY <2>1, BeginnersAgree
  <2>3. QED
    BY <1>2, <2>2 DEF Older, Follows
<1>3. QED
  BY <1>1, <1>2 DEF Follows

LEMMA FileTypes ==
  ASSUME ClientTypeOK
  PROVE  /\ bridge \in ClientBridgeType /\ bridge.lastSeq \in Nat
         /\ bridge.replay.stored \in NumberSeq
         /\ ipc.draws \in NumberSeq /\ Len(ipc.draws) <= MaxIpcDraws
         /\ MaxIpcDraws \in Nat
BY CapacityAssumption DEF ClientTypeOK, ClientBridgeType, ClientReplayType, NumberSeq

\* A packet.
LEMMA SubmitFile ==
  ASSUME ClientTypeOK, FileInv(bridge, ipc.draws), NEW p \in Packets
  PROVE  FileInv(Submit(bridge, p), ipc.draws)
<1> DEFINE c == Submit(bridge, p)
           d == ipc.draws
           s == bridge.replay.stored
<1>1. CASE ~bridge.ready
  BY <1>1 DEF Submit, Accepted, Admitted
<1>2. CASE bridge.ready
  <2>1. /\ bridge \in ClientBridgeType /\ bridge.lastSeq \in Nat
        /\ d \in NumberSeq /\ s \in NumberSeq
        /\ p \in ClientPacket /\ p.seq \in Nat
    BY FileTypes, PacketsTyped DEF ClientPacket
  <2>2. Follows(d, s) /\ UpTo(d, bridge.lastSeq)
    BY <1>2 DEF FileInv
  <2>3. \/ c = bridge
        \/ /\ InOrder(bridge, p) /\ c.lastSeq = p.seq
           /\ Effect(bridge.replay, c.replay, p.seq)
    BY <2>1, SubmitEffect
  <2> HIDE DEF c, d, s
  <2>4. CASE c = bridge
    BY <2>4 DEF c, d
  <2>5. CASE /\ InOrder(bridge, p) /\ c.lastSeq = p.seq
             /\ Effect(bridge.replay, c.replay, p.seq)
    <3>1. p.seq \in Nat \ {0} /\ bridge.lastSeq < p.seq
      BY <2>1, <2>5 DEF InOrder
    <3>2. UpTo(d, c.lastSeq)
      <4>1. \A i \in DOMAIN d : d[i] \in Nat
        BY <2>1 DEF NumberSeq
      <4>2. QED
        BY <2>1, <2>2, <2>5, <3>1, <4>1 DEF UpTo
    <3>3. \/ c.replay.stored = s \/ c.replay.stored = Append(s, p.seq)
          \/ c.replay.stored = <<>>
      BY <2>5 DEF Effect, s
    <3>4. Follows(d, c.replay.stored)
      BY <2>1, <2>2, <3>1, <3>3, FollowsAppend, FollowsNothing
    <3>5. QED
      BY <3>2, <3>4 DEF FileInv, c, d
  <2>6. QED
    BY <2>3, <2>4, <2>5 DEF c, d
<1>3. QED
  BY <1>1, <1>2

LEMMA PresentFile ==
  ASSUME ClientTypeOK, StoredInSequence, FileInv(bridge, ipc.draws),
         NEW f \in Frames, BridgePresent(f), CanPresent(bridge, f)
  PROVE  /\ FileInv(bridge', ipc'.draws)
         /\ Follows(ipc.draws, ipc'.draws)
         /\ ipc'.draws \in NumberSeq
<1> DEFINE s == bridge.replay.stored
           d == Prefix(s, MaxIpcDraws)
<1>1. /\ ipc'.draws = d
      /\ bridge'.replay.stored = s /\ bridge'.lastSeq = bridge.lastSeq
  BY FileTypes DEF BridgePresent, Presented, FrameOf, ClientBridgeType, ClientReplayType
<1>2. /\ s \in NumberSeq /\ MaxIpcDraws \in Nat /\ bridge.lastSeq \in Nat
      /\ ipc.draws \in NumberSeq /\ Len(ipc.draws) <= MaxIpcDraws
  BY FileTypes
<1>3. Follows(ipc.draws, s) /\ UpTo(s, bridge.lastSeq)
  BY DEF FileInv, CanPresent, StoredInSequence, UpTo
<1> HIDE DEF s, d
<1>4. d \in NumberSeq /\ Begins(d, s) /\ UpTo(d, bridge.lastSeq)
  BY <1>2, <1>3, PrefixFollows DEF d
<1>5. Follows(ipc.draws, d)
  BY <1>2, <1>3, PrefixContinues DEF d
<1>6. QED
  BY <1>1, <1>4, <1>5 DEF FileInv, Follows

\* One step: the record goes on from the file, and the file from itself.
LEMMA NextFile ==
  ASSUME ClientTypeOK, StoredInSequence, FileInv(bridge, ipc.draws),
         [ClientNext]_clientVars
  PROVE  /\ FileInv(bridge', ipc'.draws)
         /\ \/ ipc' = ipc
            \/ ipc' = NothingPublished
            \/ Follows(ipc.draws, ipc'.draws) /\ ipc'.draws \in NumberSeq
<1>1. CASE BridgeInit
  <2>1. ipc' = NothingPublished /\ ipc'.draws = <<>>
    BY <1>1 DEF BridgeInit, NothingPublished
  <2>2. Follows(<<>>, bridge'.replay.stored) /\ UpTo(<<>>, bridge'.lastSeq)
    BY DEF Follows, Older, UpTo
  <2>3. QED
    BY <2>1, <2>2 DEF FileInv
<1>2. CASE BridgeShutdown
  BY <1>2, FileTypes DEF BridgeShutdown, ShutDown, ClientBridgeType, FileInv
<1>3. CASE \E wellFormed \in BOOLEAN : UpdatePresentTarget(wellFormed)
  <2>1. /\ bridge'.replay = bridge.replay /\ bridge'.lastSeq = bridge.lastSeq
        /\ bridge'.ready = bridge.ready /\ ipc' = ipc
    BY <1>3, FileTypes DEF UpdatePresentTarget, UpdateTarget, ClientBridgeType
  <2>2. QED
    BY <2>1 DEF FileInv
<1>4. CASE \E n \in 0..MaxBatch : SubmitPackets(n)
  BY <1>4 DEF SubmitPackets
<1>5. CASE \E p \in Packets : SubmitPacket(p)
  BY <1>5, SubmitFile DEF SubmitPacket
<1>6. ASSUME NEW f \in Frames, BridgeBeginFrame(f)
      PROVE  FileInv(bridge', ipc'.draws) /\ ipc' = ipc
  <2>1. \/ bridge' = bridge
        \/ bridge.ready /\ bridge'.replay.stored = <<>> /\ bridge'.lastSeq = bridge.lastSeq
    BY <1>6, FileTypes DEF BridgeBeginFrame, BeginFrame, ClientBridgeType, FreshReplay
  <2>2. ipc' = ipc
    BY <1>6 DEF BridgeBeginFrame
  <2>3. Follows(ipc.draws, <<>>)
    BY FollowsNothing
  <2>4. QED
    BY <2>1, <2>2, <2>3 DEF FileInv
<1>7. ASSUME NEW f \in Frames, BridgePresent(f)
      PROVE  /\ FileInv(bridge', ipc'.draws)
             /\ \/ ipc' = ipc
                \/ Follows(ipc.draws, ipc'.draws) /\ ipc'.draws \in NumberSeq
  <2>1. CASE CanPresent(bridge, f)
    BY <1>7, <2>1, PresentFile
  <2>2. CASE ~CanPresent(bridge, f)
    BY <1>7, <2>2 DEF BridgePresent
  <2>3. QED
    BY <2>1, <2>2
<1>8. CASE UNCHANGED clientVars
  BY <1>8 DEF clientVars
<1>9. QED
  BY <1>1, <1>2, <1>3, <1>4, <1>5, <1>6, <1>7, <1>8 DEF ClientNext

\* What a step may show: the property's action, with a name.
Continues(d, e) ==
  IsPrefix(d, e) \/ \A i \in DOMAIN d, j \in DOMAIN e : d[i] < e[j]

LEMMA SequencesContinue ==
  ASSUME NEW d \in NumberSeq, NEW e \in NumberSeq, Follows(d, e) \/ d = e
  PROVE  Continues(d, e)
<1>1. CASE Begins(d, e)
  BY <1>1, BeginsIsPrefix DEF Continues
<1>2. CASE Older(d, e)
  BY <1>2 DEF Continues, Older
<1>3. CASE d = e
  BY <1>3 DEF Continues, IsPrefix
<1>4. QED
  BY <1>1, <1>2, <1>3 DEF Follows

LEMMA NextContinues ==
  ASSUME ClientTypeOK, StoredInSequence, FileInv(bridge, ipc.draws), ClientNext,
         ipc' # NothingPublished
  PROVE  Continues(ipc.draws, ipc'.draws)
<1>1. \/ ipc' = ipc
      \/ Follows(ipc.draws, ipc'.draws) /\ ipc'.draws \in NumberSeq
  BY NextFile
<1>2. QED
  BY <1>1, FileTypes, SequencesContinue

\* A published frame continues the one in the file or is newer than all of it,
\* for any client, any batches and any restarts.
THEOREM NeverGoesBack == ClientSpec => PublishedInSequence
<1>1. ClientInit => FileInv(bridge, ipc.draws)
  BY DEF ClientInit, FileInv, ShutDown, Initialized
<1>2. ClientTypeOK /\ StoredInSequence /\ FileInv(bridge, ipc.draws) /\ [ClientNext]_clientVars
        => FileInv(bridge, ipc.draws)'
  BY NextFile
<1>3. ClientTypeOK /\ StoredInSequence /\ FileInv(bridge, ipc.draws) /\ [ClientNext]_clientVars
        => [ipc' # NothingPublished =>
              \/ IsPrefix(ipc.draws, ipc'.draws)
              \/ \A i \in DOMAIN ipc.draws, j \in DOMAIN ipc'.draws :
                   ipc.draws[i] < ipc'.draws[j]]_clientVars
  BY NextContinues DEF Continues
<1>4. QED
  BY <1>1, <1>2, <1>3, ClientTypeCorrect, OrderHolds, PTL
     DEF ClientSpec, PublishedInSequence

-----------------------------------------------------------------------------
(* DeviceFrames for every capacity of the replay and IPC arrays and every length
   of run.  The types hold of every game; that no command is lost or shown twice
   holds of one device that opens each frame with BeginScene, while the 32-bit
   packet sequence has not wrapped: the runs of DeviceFrames show that each of
   the three conditions is needed. *)

LEMMA SequenceUnwrapped ==
  ASSUME NEW n \in Nat, n <= SeqMax
  PROVE  Sequence(n) = n
BY DeviceAssumption DEF Sequence

LEMMA SequenceRange ==
  ASSUME NEW n \in Nat
  PROVE  Sequence(n) \in 0..SeqMax
BY DeviceAssumption DEF Sequence

LEMMA PrefixType ==
  ASSUME NEW s \in Seq(Nat), NEW n \in Nat
  PROVE  /\ Prefix(s, n) \in Seq(Nat)
         /\ Len(Prefix(s, n)) <= n
BY DEF Prefix

\* A prefix of bounded length grows with the sequence until it is full.
LEMMA PrefixAppend ==
  ASSUME NEW s \in Seq(Nat), NEW n \in Nat, NEW c \in Nat
  PROVE  Prefix(Append(s, c), n) =
           IF Len(Prefix(s, n)) < n THEN Append(Prefix(s, n), c)
                                    ELSE Prefix(s, n)
<1>1. CASE Len(s) < n
  BY <1>1 DEF Prefix
<1>2. CASE Len(s) >= n
  <2> DEFINE long == SubSeq(Append(s, c), 1, n)
  <2>1. /\ Prefix(Append(s, c), n) = long
        /\ Prefix(s, n) \in Seq(Nat)
        /\ Len(Prefix(s, n)) = n
    BY <1>2 DEF Prefix
  <2>2. long \in Seq(Nat) /\ Len(long) = n
    BY <1>2
  <2>3. \A i \in 1..n : long[i] = Prefix(s, n)[i]
    BY <1>2 DEF Prefix
  <2>4. long = Prefix(s, n)
    BY <2>1, <2>2, <2>3, SeqEqual
  <2> HIDE DEF long
  <2>5. QED
    BY <2>1, <2>4
<1>3. QED
  BY <1>1, <1>2

-----------------------------------------------------------------------------
\* What the bridge's calls do to the types.

LEMMA FreshReplayType == FreshReplay \in ReplayType
BY DEF FreshReplay, ReplayType, NoClear, NoFrame

\* An update of one or two counters and of the list.
LEMMA ReplayUpdate ==
  ASSUME NEW r \in ReplayType, NEW k \in Nat, NEW s \in Seq(Nat),
         NEW j \in Nat
  PROVE  /\ [r EXCEPT !.total = k, !.stored = s] \in ReplayType
         /\ [r EXCEPT !.total = k, !.dropped = j] \in ReplayType
<1>1. [r EXCEPT !.total = k, !.stored = s] \in ReplayType
  BY DEF ReplayType
<1>2. [r EXCEPT !.total = k, !.dropped = j] \in ReplayType
  BY DEF ReplayType
<1>3. QED
  BY <1>1, <1>2

LEMMA ReplayFieldUpdate ==
  ASSUME NEW r \in ReplayType, NEW k \in Nat
  PROVE  /\ [r EXCEPT !.drawCount = k] \in ReplayType
         /\ [r EXCEPT !.clear = k] \in ReplayType
         /\ [r EXCEPT !.presentFrame = k] \in ReplayType
BY DEF ReplayType

\* What the recording operators do to the fields of the replay state.
LEMMA RecordFields ==
  ASSUME NEW r \in ReplayType, NEW c \in Nat
  PROVE  /\ Record(r, c) \in ReplayType
         /\ Record(r, c).total = r.total + 1
         /\ Record(r, c).stored = IF Len(r.stored) < MaxStored
                                    THEN Append(r.stored, c) ELSE r.stored
         /\ Record(r, c).dropped = IF Len(r.stored) < MaxStored
                                     THEN r.dropped ELSE r.dropped + 1
         /\ Record(r, c).drawCount = r.drawCount
         /\ Record(r, c).clear = r.clear
         /\ Record(r, c).presentFrame = r.presentFrame
<1>1. /\ r.total + 1 \in Nat
      /\ r.dropped + 1 \in Nat
      /\ Append(r.stored, c) \in Seq(Nat)
  BY DEF ReplayType
<1>2. CASE Len(r.stored) < MaxStored
  BY <1>1, <1>2, ReplayUpdate DEF ReplayType, Record
<1>3. CASE ~(Len(r.stored) < MaxStored)
  BY <1>1, <1>3, ReplayUpdate DEF ReplayType, Record
<1>4. QED
  BY <1>2, <1>3

LEMMA RecordDrawFields ==
  ASSUME NEW r \in ReplayType, NEW c \in Nat
  PROVE  /\ RecordDraw(r, c) \in ReplayType
         /\ RecordDraw(r, c).total = Record(r, c).total
         /\ RecordDraw(r, c).stored = Record(r, c).stored
         /\ RecordDraw(r, c).dropped = Record(r, c).dropped
         /\ RecordDraw(r, c).drawCount = r.drawCount + 1
         /\ RecordDraw(r, c).clear = r.clear
         /\ RecordDraw(r, c).presentFrame = r.presentFrame
<1> DEFINE s == Record(r, c)
<1>1. s \in ReplayType /\ s.drawCount = r.drawCount
  BY RecordFields
<1>2. /\ s.clear = r.clear
      /\ s.presentFrame = r.presentFrame
  BY RecordFields
<1>3. RecordDraw(r, c) = [s EXCEPT !.drawCount = s.drawCount + 1]
  BY DEF RecordDraw
<1> HIDE DEF s
<1>4. s.drawCount + 1 \in Nat
  BY <1>1 DEF ReplayType
<1>5. RecordDraw(r, c) \in ReplayType
  BY <1>1, <1>3, <1>4, ReplayFieldUpdate
<1>6. /\ RecordDraw(r, c).total = s.total
      /\ RecordDraw(r, c).stored = s.stored
      /\ RecordDraw(r, c).dropped = s.dropped
      /\ RecordDraw(r, c).drawCount = r.drawCount + 1
      /\ RecordDraw(r, c).clear = r.clear
      /\ RecordDraw(r, c).presentFrame = r.presentFrame
  BY <1>1, <1>2, <1>3 DEF ReplayType
<1>7. QED
  BY <1>5, <1>6 DEF s

-----------------------------------------------------------------------------
\* What one packet does to the bridge.

PacketType ==
  [type : PacketTypes, seq : 0..SeqMax, frame : Nat, valid : BOOLEAN]

LEMMA BridgeNumbered ==
  ASSUME NEW b \in BridgeType, NEW n \in 0..SeqMax
  PROVE  [b EXCEPT !.lastSeq = n] \in BridgeType
BY DEF BridgeType

LEMMA BridgeReplay ==
  ASSUME NEW b \in BridgeType, NEW r \in ReplayType
  PROVE  [b EXCEPT !.replay = r] \in BridgeType
BY DEF BridgeType

LEMMA BridgeFrame ==
  ASSUME NEW b \in BridgeType, NEW r \in ReplayType, NEW f \in Nat
  PROVE  [b EXCEPT !.lastFrame = f, !.replay = r] \in BridgeType
BY DEF BridgeType

\* The replay state and the frame number after a packet has been taken.
LEMMA TakeFields ==
  ASSUME NEW b \in BridgeType, NEW p \in PacketType
  PROVE  LET t == Take(b, p) IN
         /\ t.ready = b.ready
         /\ t.haveTarget = b.haveTarget
         /\ t.lastSeq = b.lastSeq
         /\ p.type # "begin_frame" => t.lastFrame = b.lastFrame
         /\ p.type = "begin_frame" => t = BeginFrame(b, p.frame)
         /\ p.type = "draw" => t.replay = RecordDraw(b.replay, p.seq)
         /\ p.type = "stretch_rect" => t.replay = Record(b.replay, p.seq)
         /\ p.type = "clear" => t.replay = [b.replay EXCEPT !.clear = p.seq]
         /\ p.type = "present" =>
              t.replay = [b.replay EXCEPT !.presentFrame = p.frame]
         /\ t \in BridgeType
<1>1. p.seq \in Nat /\ p.frame \in Nat /\ b.replay \in ReplayType
  BY DeviceAssumption DEF PacketType, BridgeType
<1>2. CASE p.type = "begin_frame"
  BY <1>1, <1>2, FreshReplayType, BridgeFrame DEF Take, BeginFrame, BridgeType
<1>3. CASE p.type = "draw"
  <2>1. Take(b, p) = [b EXCEPT !.replay = RecordDraw(b.replay, p.seq)]
    BY <1>3 DEF Take
  <2>2. RecordDraw(b.replay, p.seq) \in ReplayType
    BY <1>1, RecordDrawFields
  <2>3. QED
    BY <1>3, <2>1, <2>2, BridgeReplay DEF BridgeType
<1>4. CASE p.type = "stretch_rect"
  <2>1. Take(b, p) = [b EXCEPT !.replay = Record(b.replay, p.seq)]
    BY <1>4 DEF Take
  <2>2. Record(b.replay, p.seq) \in ReplayType
    BY <1>1, RecordFields
  <2>3. QED
    BY <1>4, <2>1, <2>2, BridgeReplay DEF BridgeType
<1>5. CASE p.type = "clear"
  <2>1. Take(b, p) = [b EXCEPT !.replay = [b.replay EXCEPT !.clear = p.seq]]
    BY <1>5 DEF Take
  <2>2. [b.replay EXCEPT !.clear = p.seq] \in ReplayType
    BY <1>1, ReplayFieldUpdate
  <2>3. QED
    BY <1>5, <2>1, <2>2, BridgeReplay DEF BridgeType
<1>6. CASE p.type = "present"
  <2>1. Take(b, p) =
          [b EXCEPT !.replay = [b.replay EXCEPT !.presentFrame = p.frame]]
    BY <1>6 DEF Take
  <2>2. [b.replay EXCEPT !.presentFrame = p.frame] \in ReplayType
    BY <1>1, ReplayFieldUpdate
  <2>3. QED
    BY <1>6, <2>1, <2>2, BridgeReplay DEF BridgeType
<1>7. CASE p.type \in {"malformed", "init", "shutdown"}
  BY <1>7 DEF Take
<1>8. QED
  BY <1>2, <1>3, <1>4, <1>5, <1>6, <1>7 DEF PacketType, PacketTypes

\* The array of commands never overflows.
LEMMA TakeBound ==
  ASSUME NEW b \in BridgeType, NEW p \in PacketType,
         Len(b.replay.stored) <= MaxStored
  PROVE  Len(Take(b, p).replay.stored) <= MaxStored
<1>1. p.seq \in Nat /\ b.replay \in ReplayType
  BY DeviceAssumption DEF PacketType, BridgeType
<1>2. CASE p.type \in {"draw", "stretch_rect"}
  <2>1. Take(b, p).replay.stored = Record(b.replay, p.seq).stored
    <3>1. CASE p.type = "draw"
      <4>1. Take(b, p).replay = RecordDraw(b.replay, p.seq)
        BY <3>1, TakeFields
      <4>2. RecordDraw(b.replay, p.seq).stored = Record(b.replay, p.seq).stored
        BY <1>1, RecordDrawFields
      <4>3. QED
        BY <4>1, <4>2
    <3>2. CASE p.type = "stretch_rect"
      BY <3>2, TakeFields
    <3>3. QED
      BY <1>2, <3>1, <3>2
  <2>2. Record(b.replay, p.seq).stored =
          IF Len(b.replay.stored) < MaxStored
            THEN Append(b.replay.stored, p.seq) ELSE b.replay.stored
    BY <1>1, RecordFields
  <2>3. QED
    BY <1>1, <2>1, <2>2, CapacityAssumption DEF ReplayType
<1>3. CASE p.type = "begin_frame"
  <2>1. Take(b, p) = BeginFrame(b, p.frame)
    BY <1>3, TakeFields
  <2>2. Take(b, p).replay \in {b.replay, FreshReplay}
    BY <2>1, FreshReplayType DEF BeginFrame, BridgeType
  <2>3. Len(FreshReplay.stored) <= MaxStored
    BY CapacityAssumption DEF FreshReplay
  <2>4. QED
    BY <2>2, <2>3
<1>4. CASE p.type \in {"clear", "present"}
  <2>1. Take(b, p).replay.stored = b.replay.stored
    <3>1. CASE p.type = "clear"
      <4>1. Take(b, p).replay = [b.replay EXCEPT !.clear = p.seq]
        BY <3>1, TakeFields
      <4>2. QED
        BY <1>1, <4>1 DEF ReplayType
    <3>2. CASE p.type = "present"
      <4>1. Take(b, p).replay = [b.replay EXCEPT !.presentFrame = p.frame]
        BY <3>2, TakeFields
      <4>2. QED
        BY <1>1, <4>1 DEF ReplayType
    <3>3. QED
      BY <1>4, <3>1, <3>2
  <2>2. QED
    BY <2>1
<1>5. CASE p.type \in {"malformed", "init", "shutdown"}
  BY <1>5 DEF Take
<1>6. QED
  BY <1>2, <1>3, <1>4, <1>5 DEF PacketType, PacketTypes

LEMMA SubmitType ==
  ASSUME NEW b \in BridgeType, NEW p \in PacketType,
         Len(b.replay.stored) <= MaxStored
  PROVE  /\ Submit(b, p) \in BridgeType
         /\ Len(Submit(b, p).replay.stored) <= MaxStored
<1> DEFINE numbered == [b EXCEPT !.lastSeq = p.seq]
<1>1. /\ numbered \in BridgeType
      /\ numbered.replay = b.replay
  BY BridgeNumbered DEF PacketType, BridgeType
<1>2. Submit(b, p) \in {Take(numbered, p), numbered, b}
  BY DEF Submit
<1> HIDE DEF numbered
<1>3. /\ Take(numbered, p) \in BridgeType
      /\ Len(Take(numbered, p).replay.stored) <= MaxStored
  BY <1>1, TakeFields, TakeBound
<1>4. QED
  BY <1>1, <1>2, <1>3

\* An accepted packet takes its number and has its effect.
LEMMA SubmitAccepted ==
  ASSUME NEW b \in BridgeType, NEW p \in PacketType, Accepted(b, p)
  PROVE  /\ Submit(b, p) = Take([b EXCEPT !.lastSeq = p.seq], p)
         /\ [b EXCEPT !.lastSeq = p.seq] \in BridgeType
<1>1. Submit(b, p) = Take([b EXCEPT !.lastSeq = p.seq], p)
  BY DEF Submit
<1>2. QED
  BY <1>1, BridgeNumbered DEF PacketType

-----------------------------------------------------------------------------
\* Types.

LEMMA PacketIsTyped ==
  ASSUME TypeOK, NEW type \in PacketTypes, NEW valid \in BOOLEAN
  PROVE  Packet(type, valid) \in PacketType
<1>1. packets + 1 \in Nat
  BY DEF TypeOK
<1>2. QED
  BY <1>1, SequenceRange DEF Packet, PacketType, TypeOK

LEMMA SendsTyped ==
  ASSUME TypeOK, NEW type \in PacketTypes, NEW valid \in BOOLEAN,
         Sends(type, valid)
  PROVE  /\ bridge' \in BridgeType
         /\ Len(bridge'.replay.stored) <= MaxStored
         /\ packets' \in 1..MaxPackets
         /\ packets' = packets + 1
<1>1. /\ bridge' \in BridgeType
      /\ Len(bridge'.replay.stored) <= MaxStored
  BY PacketIsTyped, SubmitType DEF Sends, TypeOK
<1>2. QED
  BY <1>1, DeviceAssumption DEF Sends, TypeOK

LEMMA PresentTyped ==
  ASSUME TypeOK, Present
  PROVE  /\ bridge' \in BridgeType
         /\ Len(bridge'.replay.stored) <= MaxStored
         /\ ipc' \in FrameType
         /\ Len(ipc'.draws) <= MaxIpcDraws
<1> DEFINE b == Submit(bridge, Packet("present", TRUE))
<1>1. b \in BridgeType /\ Len(b.replay.stored) <= MaxStored
  BY PacketIsTyped, SubmitType DEF TypeOK, PacketTypes
<1>2. /\ bridge' = IF CanPresent(b, frameId) THEN Presented(b, frameId) ELSE b
      /\ ipc' = IF CanPresent(b, frameId) THEN FrameOf(b, frameId) ELSE ipc
  BY DEF Present
<1> HIDE DEF b
<1> DEFINE r == [b.replay EXCEPT !.presentFrame = NoFrame]
<1>3. r \in ReplayType /\ r.stored = b.replay.stored
  BY <1>1, ReplayFieldUpdate DEF BridgeType, ReplayType, NoFrame
<1>4. Presented(b, frameId) = [b EXCEPT !.lastFrame = frameId, !.replay = r]
  BY DEF Presented
<1> HIDE DEF r
<1>5. /\ Presented(b, frameId) \in BridgeType
      /\ Presented(b, frameId).replay.stored = b.replay.stored
  <2>1. frameId \in Nat
    BY DEF TypeOK
  <2>2. Presented(b, frameId) \in BridgeType
    <3>1. [b EXCEPT !.lastFrame = frameId, !.replay = r] \in BridgeType
      BY <1>1, <1>3, <2>1, BridgeFrame
    <3>2. QED
      BY <1>4, <3>1
  <2>3. Presented(b, frameId).replay = r
    BY <1>1, <1>4 DEF BridgeType
  <2>4. QED
    BY <1>3, <2>2, <2>3
<1>6. /\ FrameOf(b, frameId) \in FrameType
      /\ Len(FrameOf(b, frameId).draws) <= MaxIpcDraws
  BY <1>1, PrefixType, CapacityAssumption
     DEF FrameOf, FrameType, TypeOK, BridgeType, ReplayType
<1>7. QED
  BY <1>1, <1>2, <1>5, <1>6 DEF TypeOK

\* Every variable stays in its range and neither array of commands overflows,
\* for every game, any number of devices and a sequence that wraps.
THEOREM TypeCorrect == Spec => []TypeOK
<1>1. Init => TypeOK
  <2> SUFFICES ASSUME Init
               PROVE  TypeOK
    OBVIOUS
  <2>1. Initialized \in BridgeType /\ Initialized.replay = FreshReplay
    BY FreshReplayType, DeviceAssumption DEF Initialized, BridgeType
  <2>2. bridge \in BridgeType /\ bridge.replay = FreshReplay
    BY <2>1, BridgeNumbered, DeviceAssumption DEF Init, BridgeType
  <2>3. Len(FreshReplay.stored) <= MaxStored
    BY CapacityAssumption DEF FreshReplay
  <2>4. ipc \in FrameType /\ Len(ipc.draws) <= MaxIpcDraws
    BY CapacityAssumption DEF Init, NothingPublished, FrameType, NoClear
  <2>5. /\ packets \in 1..MaxPackets
        /\ devices \in 0..MaxDevices
        /\ frameId \in Nat \ {0}
        /\ issued \in Seq(Nat)
        /\ cleared \in Nat
    BY DeviceAssumption DEF Init, NoClear
  <2>6. alive \in BOOLEAN /\ inScene \in BOOLEAN /\ begun \in BOOLEAN
    BY DEF Init
  <2>7. QED
    BY <2>2, <2>3, <2>4, <2>5, <2>6 DEF TypeOK
<1>2. TypeOK /\ [Next]_vars => TypeOK'
  <2> SUFFICES ASSUME TypeOK, [Next]_vars
               PROVE  TypeOK'
    OBVIOUS
  <2>1. CASE CreateDevice
    <3>1. UpdateTarget(bridge) \in BridgeType
      BY DEF TypeOK, UpdateTarget, BridgeType
    <3>2. UpdateTarget(bridge).replay = bridge.replay
      BY DEF TypeOK, UpdateTarget, BridgeType
    <3>3. /\ devices' \in 0..MaxDevices
          /\ frameId' \in Nat \ {0}
          /\ issued' \in Seq(Nat)
          /\ cleared' \in Nat
      BY <2>1, DeviceAssumption DEF CreateDevice, TypeOK, NoClear
    <3>4. alive' \in BOOLEAN /\ inScene' \in BOOLEAN /\ begun' \in BOOLEAN
      BY <2>1 DEF CreateDevice
    <3>5. /\ bridge' \in BridgeType
          /\ Len(bridge'.replay.stored) <= MaxStored
      BY <2>1, <3>1, <3>2 DEF CreateDevice, TypeOK
    <3>6. UNCHANGED <<ipc, packets>>
      BY <2>1 DEF CreateDevice
    <3>7. QED
      BY <3>3, <3>4, <3>5, <3>6 DEF TypeOK
  <2>2. CASE ReleaseDevice
    BY <2>2 DEF ReleaseDevice, TypeOK, history
  <2>3. CASE BeginScene
    <3>1. Sends("begin_frame", TRUE)
      BY <2>3 DEF BeginScene
    <3>2. "begin_frame" \in PacketTypes
      BY DEF PacketTypes
    <3>3. /\ bridge' \in BridgeType
          /\ Len(bridge'.replay.stored) <= MaxStored
          /\ packets' \in 1..MaxPackets
      BY <3>1, <3>2, SendsTyped
    <3>4. /\ packets + 1 \in Nat
          /\ issued' \in Seq(Nat)
          /\ cleared' \in Nat
      BY <2>3 DEF BeginScene, TypeOK
    <3>5. QED
      BY <2>3, <3>3, <3>4 DEF BeginScene, TypeOK, device
  <2>4. CASE EndScene
    BY <2>4 DEF EndScene, TypeOK, history
  <2>5. CASE StretchRect
    <3>1. Sends("stretch_rect", TRUE)
      BY <2>5 DEF StretchRect
    <3>2. "stretch_rect" \in PacketTypes
      BY DEF PacketTypes
    <3>3. /\ bridge' \in BridgeType
          /\ Len(bridge'.replay.stored) <= MaxStored
          /\ packets' \in 1..MaxPackets
      BY <3>1, <3>2, SendsTyped
    <3>4. /\ packets + 1 \in Nat
          /\ issued' \in Seq(Nat)
          /\ cleared' \in Nat
      BY <2>5 DEF StretchRect, TypeOK
    <3>5. QED
      BY <2>5, <3>3, <3>4 DEF StretchRect, TypeOK, device
  <2>6. CASE Clear
    <3>1. Sends("clear", TRUE)
      BY <2>6 DEF Clear
    <3>2. "clear" \in PacketTypes
      BY DEF PacketTypes
    <3>3. /\ bridge' \in BridgeType
          /\ Len(bridge'.replay.stored) <= MaxStored
          /\ packets' \in 1..MaxPackets
      BY <3>1, <3>2, SendsTyped
    <3>4. /\ packets + 1 \in Nat
          /\ issued' \in Seq(Nat)
          /\ cleared' \in Nat
      BY <2>6 DEF Clear, TypeOK
    <3>5. QED
      BY <2>6, <3>3, <3>4 DEF Clear, TypeOK, device
  <2>7. CASE Present
    <3>1. /\ packets' \in 1..MaxPackets
          /\ frameId' \in Nat \ {0}
          /\ issued' \in Seq(Nat)
          /\ cleared' \in Nat
      BY <2>7, DeviceAssumption DEF Present, TypeOK, NextFrame, NoClear
    <3>2. begun' \in BOOLEAN /\ UNCHANGED <<devices, alive, inScene>>
      BY <2>7 DEF Present
    <3>3. QED
      BY <2>7, <3>1, <3>2, PresentTyped DEF TypeOK
  <2>8. ASSUME NEW valid \in BOOLEAN, Draw(valid)
        PROVE  TypeOK'
    <3>1. Sends("draw", valid)
      BY <2>8 DEF Draw
    <3>2. "draw" \in PacketTypes
      BY DEF PacketTypes
    <3>3. /\ bridge' \in BridgeType
          /\ Len(bridge'.replay.stored) <= MaxStored
          /\ packets' \in 1..MaxPackets
      BY <3>1, <3>2, SendsTyped
    <3>4. /\ packets + 1 \in Nat
          /\ issued' \in Seq(Nat)
          /\ cleared' \in Nat
      BY <2>8 DEF Draw, TypeOK
    <3>5. QED
      BY <2>8, <3>3, <3>4 DEF Draw, TypeOK, device
  <2>9. CASE UNCHANGED vars
    BY <2>9 DEF vars, device, history, TypeOK
  <2>10. QED
    BY <2>1, <2>2, <2>3, <2>4, <2>5, <2>6, <2>7, <2>8, <2>9 DEF Next
<1>3. QED
  BY <1>1, <1>2, PTL DEF Spec

-----------------------------------------------------------------------------
\* The counters.

Tally(r) ==
  /\ r.total = Len(r.stored) + r.dropped
  /\ r.dropped > 0 => Len(r.stored) = MaxStored
  /\ r.drawCount <= r.total

LEMMA RecordTally ==
  ASSUME NEW r \in ReplayType, NEW c \in Nat,
         Tally(r), Len(r.stored) <= MaxStored
  PROVE  Tally(Record(r, c)) /\ Tally(RecordDraw(r, c))
<1>1. /\ r.total \in Nat /\ r.dropped \in Nat /\ r.drawCount \in Nat
      /\ r.stored \in Seq(Nat) /\ Len(r.stored) \in Nat
      /\ MaxStored \in Nat
  BY CapacityAssumption DEF ReplayType
<1>2. Len(Append(r.stored, c)) = Len(r.stored) + 1
  BY <1>1
<1>3. Tally(Record(r, c)) /\ r.drawCount + 1 <= Record(r, c).total
  <2> DEFINE s == Record(r, c)
  <2>1. /\ s.total = r.total + 1
        /\ s.drawCount = r.drawCount
        /\ s.stored = IF Len(r.stored) < MaxStored
                        THEN Append(r.stored, c) ELSE r.stored
        /\ s.dropped = IF Len(r.stored) < MaxStored
                         THEN r.dropped ELSE r.dropped + 1
    BY RecordFields
  <2> HIDE DEF s
  <2>2. Tally(s) /\ r.drawCount + 1 <= s.total
    BY <1>1, <1>2, <2>1, SMTT(60) DEF Tally
  <2>3. QED
    BY <2>2 DEF s
<1>4. Tally(RecordDraw(r, c))
  BY <1>3, RecordDrawFields DEF Tally
<1>5. QED
  BY <1>3, <1>4

LEMMA TakeTally ==
  ASSUME NEW b \in BridgeType, NEW p \in PacketType,
         Tally(b.replay), Len(b.replay.stored) <= MaxStored
  PROVE  Tally(Take(b, p).replay)
<1>1. p.seq \in Nat /\ b.replay \in ReplayType
  BY DeviceAssumption DEF PacketType, BridgeType
<1>2. CASE p.type = "draw"
  <2>1. Take(b, p).replay = RecordDraw(b.replay, p.seq)
    BY <1>2, TakeFields
  <2>2. QED
    BY <1>1, <2>1, RecordTally
<1>3. CASE p.type = "stretch_rect"
  <2>1. Take(b, p).replay = Record(b.replay, p.seq)
    BY <1>3, TakeFields
  <2>2. QED
    BY <1>1, <2>1, RecordTally
<1>4. CASE p.type = "begin_frame"
  <2>1. Take(b, p) = BeginFrame(b, p.frame)
    BY <1>4, TakeFields
  <2>2. Take(b, p).replay \in {b.replay, FreshReplay}
    BY <2>1, FreshReplayType DEF BeginFrame, BridgeType
  <2>3. Tally(FreshReplay)
    BY DEF Tally, FreshReplay
  <2>4. QED
    BY <2>2, <2>3
<1>5. CASE p.type = "clear"
  <2>1. Take(b, p).replay = [b.replay EXCEPT !.clear = p.seq]
    BY <1>5, TakeFields
  <2>2. QED
    BY <1>1, <2>1 DEF Tally, ReplayType
<1>6. CASE p.type = "present"
  <2>1. Take(b, p).replay = [b.replay EXCEPT !.presentFrame = p.frame]
    BY <1>6, TakeFields
  <2>2. QED
    BY <1>1, <2>1 DEF Tally, ReplayType
<1>7. CASE p.type \in {"malformed", "init", "shutdown"}
  BY <1>7 DEF Take
<1>8. QED
  BY <1>2, <1>3, <1>4, <1>5, <1>6, <1>7 DEF PacketType, PacketTypes

LEMMA SubmitTally ==
  ASSUME NEW b \in BridgeType, NEW p \in PacketType,
         Tally(b.replay), Len(b.replay.stored) <= MaxStored
  PROVE  Tally(Submit(b, p).replay)
<1> DEFINE numbered == [b EXCEPT !.lastSeq = p.seq]
<1>1. /\ numbered \in BridgeType
      /\ numbered.replay = b.replay
  BY BridgeNumbered DEF PacketType, BridgeType
<1>2. Submit(b, p) \in {Take(numbered, p), numbered, b}
  BY DEF Submit
<1> HIDE DEF numbered
<1>3. Tally(Take(numbered, p).replay)
  BY <1>1, TakeTally
<1>4. QED
  BY <1>1, <1>2, <1>3

\* What a Present leaves in the replay state: nothing but the frame number of
\* the PRESENT packet is touched.
LEMMA PresentedFields ==
  ASSUME NEW b \in BridgeType, NEW f \in Nat
  PROVE  LET t == Presented(b, f) IN
         /\ t.ready = b.ready
         /\ t.haveTarget = b.haveTarget
         /\ t.lastSeq = b.lastSeq
         /\ t.lastFrame = f
         /\ t.replay.presentFrame = NoFrame
         /\ Tally(b.replay) => Tally(t.replay)
<1> DEFINE r == [b.replay EXCEPT !.presentFrame = NoFrame]
<1>1. b.replay \in ReplayType
  BY DEF BridgeType
<1>2. /\ r.presentFrame = NoFrame
      /\ Tally(b.replay) => Tally(r)
  BY <1>1 DEF Tally, ReplayType
<1>3. Presented(b, f) = [b EXCEPT !.lastFrame = f, !.replay = r]
  BY DEF Presented
<1> HIDE DEF r
<1>4. QED
  BY <1>2, <1>3 DEF BridgeType

LEMMA SendsTally ==
  ASSUME TypeOK, CountsAgree, NEW type \in PacketTypes, NEW valid \in BOOLEAN,
         Sends(type, valid)
  PROVE  CountsAgree'
<1>1. /\ bridge \in BridgeType
      /\ Len(bridge.replay.stored) <= MaxStored
      /\ Packet(type, valid) \in PacketType
  BY PacketIsTyped DEF TypeOK
<1>2. Tally(bridge.replay)
  BY DEF CountsAgree, Tally
<1>3. Tally(Submit(bridge, Packet(type, valid)).replay)
  BY <1>1, <1>2, SubmitTally
<1>4. bridge' = Submit(bridge, Packet(type, valid))
  BY DEF Sends
<1>5. QED
  BY <1>3, <1>4 DEF CountsAgree, Tally

LEMMA PresentTally ==
  ASSUME TypeOK, CountsAgree, Present
  PROVE  CountsAgree'
<1> DEFINE b == Submit(bridge, Packet("present", TRUE))
<1>1. Packet("present", TRUE) \in PacketType
  BY PacketIsTyped DEF PacketTypes
<1>2. b \in BridgeType
  BY <1>1, SubmitType DEF TypeOK
<1>3. Tally(b.replay)
  BY <1>1, SubmitTally DEF TypeOK, CountsAgree, Tally
<1>4. bridge' \in {Presented(b, frameId), b}
  BY DEF Present
<1> HIDE DEF b
<1>5. Tally(bridge'.replay)
  BY <1>2, <1>3, <1>4, PresentedFields DEF TypeOK
<1>6. QED
  BY <1>5 DEF CountsAgree, Tally

LEMMA CountsStep ==
  ASSUME TypeOK, CountsAgree, [Next]_vars
  PROVE  CountsAgree'
<1>1. CASE CreateDevice
  <2>1. UpdateTarget(bridge).replay = bridge.replay
    BY DEF TypeOK, UpdateTarget, BridgeType
  <2>2. QED
    BY <1>1, <2>1 DEF CreateDevice, CountsAgree
<1>2. CASE ReleaseDevice
  BY <1>2 DEF ReleaseDevice, CountsAgree
<1>3. CASE BeginScene
  BY <1>3, SendsTally DEF BeginScene, PacketTypes
<1>4. CASE EndScene
  BY <1>4 DEF EndScene, CountsAgree
<1>5. CASE StretchRect
  BY <1>5, SendsTally DEF StretchRect, PacketTypes
<1>6. CASE Clear
  BY <1>6, SendsTally DEF Clear, PacketTypes
<1>7. CASE Present
  BY <1>7, PresentTally
<1>8. ASSUME NEW valid \in BOOLEAN, Draw(valid)
      PROVE  CountsAgree'
  BY <1>8, SendsTally DEF Draw, PacketTypes
<1>9. CASE UNCHANGED vars
  BY <1>9 DEF vars, CountsAgree
<1>10. QED
  BY <1>1, <1>2, <1>3, <1>4, <1>5, <1>6, <1>7, <1>8, <1>9 DEF Next

\* Whatever the game does, a command is stored, or counted as dropped and only
\* when the array is full.
THEOREM CountsHold == Spec => []CountsAgree
<1>1. Init => CountsAgree
  <2>1. Initialized \in BridgeType /\ Initialized.replay = FreshReplay
    BY FreshReplayType, DeviceAssumption DEF Initialized, BridgeType
  <2>2. Init => bridge.replay = FreshReplay
    BY <2>1 DEF Init, BridgeType
  <2>3. QED
    BY <2>2 DEF CountsAgree, FreshReplay
<1>2. TypeOK /\ CountsAgree /\ [Next]_vars => CountsAgree'
  BY CountsStep
<1>3. QED
  BY <1>1, <1>2, TypeCorrect, PTL DEF Spec

-----------------------------------------------------------------------------
\* One device that opens its frames, before the sequence wraps.

OneGame == SceneFirst /\ MaxDevices <= 1 /\ MaxPackets <= SeqMax

\* Every packet is in order.
LEMMA PacketAdmitted ==
  ASSUME OneGame, TypeOK, NumberInv, packets < MaxPackets,
         NEW type \in PacketTypes \ {"malformed"}, NEW valid \in BOOLEAN
  PROVE  LET p == Packet(type, valid) IN
         /\ p \in PacketType
         /\ p.type = type /\ p.seq = packets + 1 /\ p.frame = frameId
         /\ Admitted(bridge, p)
         /\ Accepted(bridge, p) <=> valid
<1> DEFINE p == Packet(type, valid)
<1>1. packets + 1 \in Nat /\ packets + 1 <= SeqMax /\ packets \in Nat
  BY DeviceAssumption DEF OneGame, TypeOK
<1>2. /\ p.type = type /\ p.seq = packets + 1 /\ p.frame = frameId
      /\ p.valid = valid
  BY <1>1, SequenceUnwrapped DEF Packet
<1>3. p \in PacketType
  BY PacketIsTyped
<1> HIDE DEF p
<1>4. Admitted(bridge, p)
  BY <1>1, <1>2 DEF Admitted, InOrder, NumberInv
<1>5. QED
  BY <1>2, <1>3, <1>4 DEF Accepted, p

\* A packet with valid contents: it takes its number and has its effect.
LEMMA SendsTakes ==
  ASSUME OneGame, TypeOK, NumberInv,
         NEW type \in PacketTypes \ {"malformed"}, Sends(type, TRUE)
  PROVE  \E b \in BridgeType, p \in PacketType :
           /\ bridge' = Take(b, p)
           /\ p.type = type /\ p.seq = packets + 1 /\ p.frame = frameId
           /\ b.lastSeq = packets + 1
           /\ b.ready /\ b.haveTarget = bridge.haveTarget
           /\ b.lastFrame = bridge.lastFrame /\ b.replay = bridge.replay
<1> DEFINE p == Packet(type, TRUE)
           b == [bridge EXCEPT !.lastSeq = p.seq]
<1>1. /\ p \in PacketType
      /\ p.type = type /\ p.seq = packets + 1 /\ p.frame = frameId
      /\ Accepted(bridge, p)
  BY PacketAdmitted DEF Sends
<1>2. bridge' = Take(b, p)
  BY <1>1, SubmitAccepted DEF Sends, TypeOK
<1>3. b \in BridgeType
  BY <1>1, BridgeNumbered DEF TypeOK, PacketType
<1>4. /\ b.lastSeq = p.seq
      /\ b.ready = bridge.ready /\ b.haveTarget = bridge.haveTarget
      /\ b.lastFrame = bridge.lastFrame /\ b.replay = bridge.replay
  BY DEF TypeOK, BridgeType
<1> HIDE DEF p, b
<1>5. QED
  BY <1>1, <1>2, <1>3, <1>4 DEF NumberInv

\* A draw whose contents are refused only takes a number.
LEMMA RefusedDraw ==
  ASSUME OneGame, TypeOK, NumberInv, Sends("draw", FALSE)
  PROVE  bridge' = [bridge EXCEPT !.lastSeq = packets + 1]
<1> DEFINE p == Packet("draw", FALSE)
<1>1. /\ p.seq = packets + 1
      /\ Admitted(bridge, p)
      /\ ~Accepted(bridge, p)
  BY PacketAdmitted DEF Sends, PacketTypes
<1>2. bridge' = Submit(bridge, p)
  BY DEF Sends
<1> HIDE DEF p
<1>3. QED
  BY <1>1, <1>2 DEF Submit

\* A command recorded at the end of what is held.
Recorded(c) ==
  /\ bridge'.replay.stored = Prefix(Append(issued, c), MaxStored)
  /\ bridge'.replay.clear = bridge.replay.clear
  /\ bridge'.replay.presentFrame = bridge.replay.presentFrame
  /\ bridge'.lastSeq = packets + 1
  /\ bridge'.lastFrame = bridge.lastFrame
  /\ bridge'.ready
  /\ bridge'.haveTarget = bridge.haveTarget

LEMMA SendsRecords ==
  ASSUME OneGame, TypeOK, NumberInv, HoldInv, begun,
         NEW type \in {"draw", "stretch_rect"}, Sends(type, TRUE)
  PROVE  Recorded(packets + 1)
<1>1. type \in PacketTypes \ {"malformed"}
  BY DEF PacketTypes
<1>2. PICK b \in BridgeType, p \in PacketType :
           /\ bridge' = Take(b, p)
           /\ p.type = type /\ p.seq = packets + 1 /\ p.frame = frameId
           /\ b.lastSeq = packets + 1
           /\ b.ready /\ b.haveTarget = bridge.haveTarget
           /\ b.lastFrame = bridge.lastFrame /\ b.replay = bridge.replay
  BY <1>1, SendsTakes
<1> DEFINE r == b.replay
           c == packets + 1
<1>3. r \in ReplayType /\ c \in Nat /\ p.seq = c
  BY <1>2 DEF BridgeType, TypeOK
<1>4. /\ bridge'.lastSeq = packets + 1
      /\ bridge'.lastFrame = bridge.lastFrame
      /\ bridge'.ready
      /\ bridge'.haveTarget = bridge.haveTarget
  BY <1>2, TakeFields
<1>5. bridge'.replay \in {Record(r, c), RecordDraw(r, c)}
  <2>1. CASE type = "draw"
    <3>1. p.type = "draw"
      BY <1>2, <2>1
    <3>2. Take(b, p).replay = RecordDraw(b.replay, p.seq)
      BY <3>1, TakeFields
    <3>3. QED
      BY <1>2, <3>2
  <2>2. CASE type = "stretch_rect"
    <3>1. p.type = "stretch_rect"
      BY <1>2, <2>2
    <3>2. Take(b, p).replay = Record(b.replay, p.seq)
      BY <3>1, TakeFields
    <3>3. QED
      BY <1>2, <3>2
  <2>3. QED
    BY <2>1, <2>2
<1>6. r.stored = Prefix(issued, MaxStored) /\ r = bridge.replay
  BY <1>2 DEF HoldInv
<1>7. issued \in Seq(Nat) /\ MaxStored \in Nat
  BY CapacityAssumption DEF TypeOK
<1> HIDE DEF r, c
<1>8. /\ Record(r, c).stored = RecordDraw(r, c).stored
      /\ Record(r, c).clear = r.clear /\ RecordDraw(r, c).clear = r.clear
      /\ Record(r, c).presentFrame = r.presentFrame
      /\ RecordDraw(r, c).presentFrame = r.presentFrame
  BY <1>3, RecordFields, RecordDrawFields
<1>9. Record(r, c).stored = Prefix(Append(issued, c), MaxStored)
  <2>1. Record(r, c).stored =
          IF Len(r.stored) < MaxStored THEN Append(r.stored, c) ELSE r.stored
    BY <1>3, RecordFields
  <2>2. QED
    BY <1>3, <1>6, <1>7, <2>1, PrefixAppend
<1>10. QED
  BY <1>4, <1>5, <1>6, <1>8, <1>9 DEF Recorded, c

\* BeginScene: the first of a frame drops what the last frame has left, the
\* others find their own frame.
LEMMA BeginSceneStep ==
  ASSUME OneGame, IInv, BeginScene
  PROVE  NumberInv' /\ HoldInv'
<1>1. PICK b \in BridgeType, p \in PacketType :
           /\ bridge' = Take(b, p)
           /\ p.type = "begin_frame" /\ p.seq = packets + 1 /\ p.frame = frameId
           /\ b.lastSeq = packets + 1
           /\ b.ready /\ b.haveTarget = bridge.haveTarget
           /\ b.lastFrame = bridge.lastFrame /\ b.replay = bridge.replay
  BY SendsTakes DEF IInv, BeginScene, PacketTypes
<1>2. bridge' = BeginFrame(b, frameId)
  BY <1>1, TakeFields
<1>3. /\ begun' /\ packets' = packets + 1 /\ devices # 0 /\ alive
      /\ UNCHANGED <<devices, alive, frameId, issued, cleared>>
  BY DEF BeginScene, Sends, IInv, NumberInv
<1>4. CASE begun
  <2>1. b.lastFrame = frameId
    BY <1>1, <1>4 DEF IInv, NumberInv
  <2>2. bridge' = b
    BY <1>2, <2>1 DEF BeginFrame
  <2>3. QED
    BY <1>1, <1>3, <1>4, <2>1, <2>2 DEF IInv, NumberInv, HoldInv
<1>5. CASE ~begun
  <2>1. b.lastFrame # frameId
    BY <1>1, <1>5 DEF IInv, NumberInv, TypeOK, BridgeType
  <2>2. bridge' = [b EXCEPT !.lastFrame = frameId, !.replay = FreshReplay]
    BY <1>1, <1>2, <2>1 DEF BeginFrame
  <2>3. /\ bridge'.lastFrame = frameId
        /\ bridge'.replay = FreshReplay
        /\ bridge'.ready
        /\ bridge'.haveTarget = bridge.haveTarget
        /\ bridge'.lastSeq = packets + 1
    BY <1>1, <2>2 DEF BridgeType
  <2>4. issued = <<>> /\ cleared = NoClear
    BY <1>5 DEF IInv, HoldInv
  <2>5. /\ FreshReplay.stored = <<>>
        /\ FreshReplay.clear = NoClear
        /\ FreshReplay.presentFrame = NoFrame
    BY DEF FreshReplay
  <2>6. Prefix(<<>>, MaxStored) = <<>>
    BY CapacityAssumption DEF Prefix
  <2>7. NumberInv'
    BY <1>3, <2>3, <2>5 DEF NumberInv, IInv
  <2>8. HoldInv'
    BY <1>3, <2>3, <2>4, <2>5, <2>6 DEF HoldInv
  <2>9. QED
    BY <2>7, <2>8
<1>6. QED
  BY <1>4, <1>5

\* A command that is recorded keeps the invariant.
LEMMA RecordedStep ==
  ASSUME TypeOK, NumberInv, HoldInv, begun, alive, Recorded(packets + 1),
         packets' = packets + 1, issued' = Append(issued, packets + 1),
         UNCHANGED <<ipc, device, cleared, begun>>
  PROVE  NumberInv' /\ HoldInv'
BY DEF Recorded, NumberInv, HoldInv, device

LEMMA ClearStep ==
  ASSUME OneGame, IInv, Clear
  PROVE  NumberInv' /\ HoldInv'
<1>1. PICK b \in BridgeType, p \in PacketType :
           /\ bridge' = Take(b, p)
           /\ p.type = "clear" /\ p.seq = packets + 1 /\ p.frame = frameId
           /\ b.lastSeq = packets + 1
           /\ b.ready /\ b.haveTarget = bridge.haveTarget
           /\ b.lastFrame = bridge.lastFrame /\ b.replay = bridge.replay
  BY SendsTakes DEF IInv, Clear, PacketTypes
<1>2. /\ bridge'.replay = [b.replay EXCEPT !.clear = packets + 1]
      /\ bridge'.lastSeq = packets + 1
      /\ bridge'.lastFrame = bridge.lastFrame
      /\ bridge'.ready
      /\ bridge'.haveTarget = bridge.haveTarget
  <2>1. Take(b, p).replay = [b.replay EXCEPT !.clear = p.seq]
    BY <1>1, TakeFields
  <2>2. /\ Take(b, p).lastSeq = b.lastSeq
        /\ Take(b, p).lastFrame = b.lastFrame
        /\ Take(b, p).ready = b.ready
        /\ Take(b, p).haveTarget = b.haveTarget
    BY <1>1, TakeFields
  <2>3. QED
    BY <1>1, <2>1, <2>2
<1>3. /\ bridge'.replay.clear = packets + 1
      /\ bridge'.replay.stored = bridge.replay.stored
      /\ bridge'.replay.presentFrame = bridge.replay.presentFrame
  BY <1>1, <1>2 DEF BridgeType, ReplayType
<1>4. /\ begun /\ alive /\ packets' = packets + 1 /\ cleared' = packets + 1
      /\ UNCHANGED <<devices, alive, frameId, begun, issued>>
  BY DEF Clear, MayRecord, OneGame, Sends, device
<1>5. QED
  BY <1>2, <1>3, <1>4 DEF IInv, NumberInv, HoldInv

\* The bridge takes the PRESENT packet and then presents its frame.
LEMMA PresentShows ==
  ASSUME OneGame, IInv, Present
  PROVE  /\ ipc' = [frame |-> frameId,
                    draws |-> Prefix(Prefix(issued, MaxStored), MaxIpcDraws),
                    clear |-> cleared]
         /\ NumberInv' /\ HoldInv'
<1> DEFINE p == Packet("present", TRUE)
           n == [bridge EXCEPT !.lastSeq = p.seq]
           b == Submit(bridge, p)
<1>1. begun /\ alive /\ packets < MaxPackets
  BY DEF Present, MayRecord, OneGame
<1>2. /\ p \in PacketType
      /\ p.type = "present" /\ p.seq = packets + 1 /\ p.frame = frameId
      /\ Accepted(bridge, p)
  BY <1>1, PacketAdmitted DEF IInv, PacketTypes
<1>3. b = Take(n, p) /\ n \in BridgeType
  BY <1>2, SubmitAccepted DEF IInv, TypeOK
<1>4. /\ n.lastSeq = packets + 1 /\ n.ready /\ n.haveTarget
      /\ n.lastFrame = bridge.lastFrame /\ n.replay = bridge.replay
  BY <1>1, <1>2 DEF IInv, TypeOK, BridgeType, NumberInv
<1>5. /\ bridge' = IF CanPresent(b, frameId) THEN Presented(b, frameId) ELSE b
      /\ ipc' = IF CanPresent(b, frameId) THEN FrameOf(b, frameId) ELSE ipc
  BY DEF Present
<1>6. /\ packets' = packets + 1
      /\ frameId' = frameId + 1
      /\ issued' = <<>> /\ cleared' = NoClear /\ begun' = FALSE
      /\ UNCHANGED <<devices, alive>>
  BY DEF Present, NextFrame
<1>7. bridge.replay.stored = Prefix(issued, MaxStored)
      /\ bridge.replay.clear = cleared /\ devices # 0 /\ frameId \in Nat
  BY <1>1 DEF IInv, HoldInv, NumberInv, TypeOK
<1> HIDE DEF p, n
<1>8. /\ b.replay = [bridge.replay EXCEPT !.presentFrame = frameId]
      /\ b.ready /\ b.haveTarget /\ b.lastSeq = packets + 1
      /\ b \in BridgeType
  <2>1. Take(n, p).replay = [n.replay EXCEPT !.presentFrame = p.frame]
    BY <1>2, <1>3, TakeFields
  <2>2. /\ Take(n, p).lastSeq = n.lastSeq
        /\ Take(n, p).ready = n.ready
        /\ Take(n, p).haveTarget = n.haveTarget
        /\ Take(n, p) \in BridgeType
    BY <1>2, <1>3, TakeFields
  <2>3. QED
    BY <1>2, <1>3, <1>4, <2>1, <2>2
<1> HIDE DEF b
<1>9. bridge.replay \in ReplayType
  BY DEF IInv, TypeOK, BridgeType
<1>10. /\ b.replay.presentFrame = frameId
       /\ b.replay.stored = bridge.replay.stored
       /\ b.replay.clear = bridge.replay.clear
  BY <1>8, <1>9 DEF ReplayType
<1>11. CanPresent(b, frameId)
  BY <1>8, <1>10 DEF CanPresent
<1>12. ipc' = [frame |-> frameId,
               draws |-> Prefix(Prefix(issued, MaxStored), MaxIpcDraws),
               clear |-> cleared]
  BY <1>5, <1>7, <1>10, <1>11 DEF FrameOf
<1>13. /\ bridge'.ready /\ bridge'.haveTarget
       /\ bridge'.lastSeq = packets + 1
       /\ bridge'.lastFrame = frameId
       /\ bridge'.replay.presentFrame = NoFrame
  BY <1>5, <1>7, <1>8, <1>11, PresentedFields
<1>14. NumberInv'
  BY <1>6, <1>7, <1>13 DEF NumberInv
<1>15. HoldInv'
  BY <1>6 DEF HoldInv
<1>16. QED
  BY <1>12, <1>14, <1>15

-----------------------------------------------------------------------------
LEMMA InvStep ==
  ASSUME OneGame, IInv, TypeOK', CountsAgree', [Next]_vars
  PROVE  IInv'
<1>0. TypeOK /\ NumberInv /\ HoldInv
  BY DEF IInv
<1> SUFFICES NumberInv' /\ HoldInv'
  BY DEF IInv
<1>1. CASE CreateDevice
  <2>1. devices = 0 /\ devices' = 1 /\ alive'
    BY <1>0, <1>1, DeviceAssumption DEF CreateDevice, OneGame, TypeOK
  <2>2. bridge' = [bridge EXCEPT !.haveTarget = TRUE]
    BY <1>0, <1>1 DEF CreateDevice, UpdateTarget, NumberInv
  <2>3. /\ bridge'.haveTarget
        /\ bridge'.ready = bridge.ready
        /\ bridge'.lastSeq = bridge.lastSeq
        /\ bridge'.lastFrame = bridge.lastFrame
        /\ bridge'.replay = bridge.replay
    BY <1>0, <2>2 DEF TypeOK, BridgeType
  <2>4. QED
    BY <1>0, <1>1, <2>1, <2>3 DEF CreateDevice, NumberInv, HoldInv
<1>2. CASE ReleaseDevice
  BY <1>0, <1>2 DEF ReleaseDevice, NumberInv, HoldInv, history
<1>3. CASE BeginScene
  BY <1>3, BeginSceneStep
<1>4. CASE EndScene
  BY <1>0, <1>4 DEF EndScene, NumberInv, HoldInv, history
<1>5. CASE StretchRect
  <2>1. begun /\ alive /\ Sends("stretch_rect", TRUE)
    BY <1>5 DEF StretchRect, MayRecord, OneGame, Sends
  <2>2. Recorded(packets + 1)
    BY <1>0, <2>1, SendsRecords
  <2>3. QED
    BY <1>0, <1>5, <2>1, <2>2, RecordedStep DEF StretchRect, Sends
<1>6. CASE Clear
  BY <1>6, ClearStep
<1>7. CASE Present
  BY <1>7, PresentShows
<1>8. CASE Draw(TRUE)
  <2>1. begun /\ alive /\ Sends("draw", TRUE)
    BY <1>8 DEF Draw, MayRecord, OneGame, Sends
  <2>2. Recorded(packets + 1)
    BY <1>0, <2>1, SendsRecords
  <2>3. QED
    BY <1>0, <1>8, <2>1, <2>2, RecordedStep DEF Draw, Sends
<1>9. CASE Draw(FALSE)
  <2>1. bridge' = [bridge EXCEPT !.lastSeq = packets + 1]
    BY <1>0, <1>9, RefusedDraw DEF Draw
  <2>2. /\ bridge'.lastSeq = packets + 1
        /\ bridge'.haveTarget = bridge.haveTarget
        /\ bridge'.ready = bridge.ready
        /\ bridge'.lastFrame = bridge.lastFrame
        /\ bridge'.replay = bridge.replay
    BY <1>0, <2>1, DeviceAssumption DEF TypeOK, BridgeType
  <2>3. QED
    BY <1>0, <1>9, <2>2 DEF Draw, Sends, NumberInv, HoldInv, device
<1>10. CASE UNCHANGED vars
  BY <1>0, <1>10 DEF vars, device, history, NumberInv, HoldInv
<1>11. QED
  <2>1. ASSUME NEW valid \in BOOLEAN, Draw(valid)
        PROVE  NumberInv' /\ HoldInv'
    BY <1>8, <1>9, <2>1
  <2>2. QED
    BY <1>1, <1>2, <1>3, <1>4, <1>5, <1>6, <1>7, <1>10, <2>1 DEF Next

\* For one device that opens its frames, the numbers of the two sides agree and
\* the bridge holds the frame.
THEOREM InvHolds ==
  ASSUME OneGame
  PROVE  Spec => []IInv
<1>1. Init => NumberInv /\ HoldInv
  <2> SUFFICES ASSUME Init
               PROVE  NumberInv /\ HoldInv
    OBVIOUS
  <2>1. Initialized \in BridgeType
    BY FreshReplayType, DeviceAssumption DEF Initialized, BridgeType
  <2>2. /\ bridge.ready
        /\ bridge.lastSeq = 1
        /\ bridge.lastFrame = 0
        /\ bridge.replay = FreshReplay
    BY <2>1 DEF Init, Initialized, BridgeType
  <2>3. FreshReplay.presentFrame = NoFrame
    BY DEF FreshReplay
  <2>4. QED
    BY <2>2, <2>3 DEF Init, NumberInv, HoldInv
<1>2. IInv /\ TypeOK' /\ CountsAgree' /\ [Next]_vars => IInv'
  BY InvStep
<1>3. TypeOK /\ CountsAgree /\ NumberInv /\ HoldInv => IInv
  BY DEF IInv
<1>4. QED
  BY <1>1, <1>2, <1>3, TypeCorrect, CountsHold, PTL DEF Spec

\* Between the first BeginScene of a frame and its Present nothing the game
\* has drawn is lost, up to the capacity, and nothing older is left.
THEOREM ReplayHolds ==
  ASSUME OneGame
  PROVE  Spec => []ReplayHoldsTheFrame
<1>1. IInv => ReplayHoldsTheFrame
  BY DEF IInv, HoldInv, ReplayHoldsTheFrame
<1>2. QED
  BY <1>1, InvHolds, PTL

-----------------------------------------------------------------------------
\* The refinement.

Log == Prefix(issued, MaxStored)
Screen == [draws |-> ipc.draws, clear |-> ipc.clear]

\* A recorded command extends the log, or finds it full.
LEMMA IssueStep ==
  ASSUME TypeOK, packets' \in 1..MaxPackets, packets' = packets + 1,
         issued' = Append(issued, packets + 1),
         UNCHANGED <<ipc, cleared>>
  PROVE  [Assembly!Next]_(Assembly!assemblyVars)
<1>1. /\ issued \in Seq(Nat) /\ MaxStored \in Nat /\ packets + 1 \in Nat
      /\ packets + 1 \in 1..MaxPackets
  BY CapacityAssumption DEF TypeOK
<1>2. Log' = IF Len(Log) < MaxStored THEN Append(Log, packets + 1) ELSE Log
  BY <1>1, PrefixAppend DEF Log
<1>3. CASE Len(Log) < MaxStored
  <2>1. Assembly!Issue(packets + 1)
    BY <1>2, <1>3 DEF Assembly!Issue, Log
  <2>2. QED
    BY <1>1, <2>1 DEF Assembly!Next
<1>4. CASE ~(Len(Log) < MaxStored)
  BY <1>2, <1>4 DEF Assembly!assemblyVars, Log
<1>5. QED
  BY <1>3, <1>4

LEMMA AssemblyStutters ==
  ASSUME UNCHANGED <<ipc, issued, cleared>>
  PROVE  [Assembly!Next]_(Assembly!assemblyVars)
BY DEF Assembly!assemblyVars

LEMMA AssemblyPresents ==
  ASSUME OneGame, IInv, Present
  PROVE  Assembly!Present
<1>1. ipc' = [frame |-> frameId,
              draws |-> Prefix(Prefix(issued, MaxStored), MaxIpcDraws),
              clear |-> cleared]
  BY PresentShows
<1>2. issued' = <<>> /\ cleared' = NoClear
  BY DEF Present
<1>3. Prefix(<<>>, MaxStored) = <<>>
  BY CapacityAssumption DEF Prefix
<1>4. Screen' = [draws |-> Prefix(Log, MaxIpcDraws), clear |-> cleared]
  BY <1>1 DEF Screen, Log
<1>5. Log' = <<>>
  BY <1>2, <1>3 DEF Log
<1>6. Assembly!First(Log, MaxIpcDraws) = Prefix(Log, MaxIpcDraws)
  BY DEF Assembly!First, Prefix
<1>7. QED
  BY <1>2, <1>4, <1>5, <1>6 DEF Assembly!Present, Screen, Log

LEMMA AssemblyStep ==
  ASSUME OneGame, IInv, IInv', [Next]_vars
  PROVE  [Assembly!Next]_(Assembly!assemblyVars)
<1>0. TypeOK /\ NumberInv /\ HoldInv /\ packets' \in 1..MaxPackets
  BY DEF IInv, TypeOK
<1>1. CASE CreateDevice
  <2>1. ~begun
    BY <1>0, <1>1, DeviceAssumption
       DEF CreateDevice, OneGame, TypeOK, NumberInv
  <2>2. UNCHANGED <<ipc, issued, cleared>>
    BY <1>0, <1>1, <2>1 DEF CreateDevice, HoldInv
  <2>3. QED
    BY <2>2, AssemblyStutters
<1>2. CASE ReleaseDevice
  BY <1>2, AssemblyStutters DEF ReleaseDevice, history
<1>3. CASE BeginScene
  BY <1>3, AssemblyStutters DEF BeginScene
<1>4. CASE EndScene
  BY <1>4, AssemblyStutters DEF EndScene, history
<1>5. CASE StretchRect
  BY <1>0, <1>5, IssueStep DEF StretchRect, Sends
<1>6. CASE Clear
  <2>1. Assembly!Clear(packets + 1)
    BY <1>6 DEF Clear, Assembly!Clear
  <2>2. packets + 1 \in 1..MaxPackets
    BY <1>0, <1>6 DEF Clear, Sends
  <2>3. QED
    BY <2>1, <2>2 DEF Assembly!Next
<1>7. CASE Present
  BY <1>7, AssemblyPresents DEF Assembly!Next
<1>8. CASE Draw(TRUE)
  BY <1>0, <1>8, IssueStep DEF Draw, Sends
<1>9. CASE Draw(FALSE)
  BY <1>9, AssemblyStutters DEF Draw
<1>10. CASE UNCHANGED vars
  BY <1>10, AssemblyStutters DEF vars, history
<1>11. QED
  <2>1. ASSUME NEW valid \in BOOLEAN, Draw(valid)
        PROVE  [Assembly!Next]_(Assembly!assemblyVars)
    BY <1>8, <1>9, <2>1
  <2>2. QED
    BY <1>1, <1>2, <1>3, <1>4, <1>5, <1>6, <1>7, <1>10, <2>1 DEF Next

\* For one device that opens its frames, every Present shows exactly what the
\* game has issued since the one before, in order, up to the two capacities:
\* frontend and bridge together implement FrameAssembly.
THEOREM AssemblyRefined ==
  ASSUME OneGame
  PROVE  Spec => ImplementsAssembly
<1>1. Init => Assembly!Init
  <2>1. Prefix(<<>>, MaxStored) = <<>>
    BY CapacityAssumption DEF Prefix
  <2>2. QED
    BY <2>1 DEF Init, Assembly!Init, NothingPublished
<1>2. IInv /\ IInv' /\ [Next]_vars
        => [Assembly!Next]_(Assembly!assemblyVars)
  BY AssemblyStep
<1>3. QED
  BY <1>1, <1>2, InvHolds, PTL DEF Spec, ImplementsAssembly, Assembly!Spec
=============================================================================
