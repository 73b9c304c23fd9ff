--------------------------- MODULE BackendBridge ---------------------------
(***************************************************************************)
(* The backend bridge under every client its interface admits, the way the *)
(* contract test drives it: init, shutdown and init again, present targets *)
(* good and bad, batches of packets with any numbers, frames begun through *)
(* the packet stream or directly, and presents of any frame.               *)
(***************************************************************************)
EXTENDS BridgeState, SequencesExt

CONSTANTS
  Numbers,   \* packet sequence numbers the client uses
  Frames,    \* frame numbers the client uses
  MaxBatch   \* bound: packets in one submit_packets call

ASSUME ClientAssumption ==
  /\ Numbers \subseteq Nat
  /\ Frames \subseteq Nat \ {NoFrame}
  /\ MaxBatch \in Nat

VARIABLES
  left,     \* packets that submit_packets has still to look at
  result    \* what the last call returned, 0 or -1

clientVars == <<bridge, ipc, left, result>>

\* One malformed packet and one that has no effect stand for all of them.
Packets ==
  [type : {"draw", "clear"}, seq : Numbers, frame : {NoFrame}, valid : BOOLEAN]
  \cup [type : {"stretch_rect", "malformed", "init"}, seq : Numbers,
        frame : {NoFrame}, valid : {TRUE}]
  \cup [type : {"begin_frame", "present"}, seq : Numbers, frame : Frames,
        valid : {TRUE}]

ClientInit ==
  /\ bridge = ShutDown(Initialized)
  /\ ipc = NothingPublished
  /\ left = 0
  /\ result = 0

Status(ok) == IF ok THEN 0 ELSE -1

\* One thread calls the bridge: no other call while packets are looked at.
Idle == left = 0 /\ left' = 0

\* A file that is mapped again holds no frame until the next present.
BridgeInit ==
  /\ Idle
  /\ bridge' = Initialized
  /\ ipc' = NothingPublished
  /\ result' = 0

\* A target without size or id is refused and the one before stays.
UpdatePresentTarget(wellFormed) ==
  /\ Idle
  /\ bridge' = IF wellFormed THEN UpdateTarget(bridge) ELSE bridge
  /\ result' = Status(bridge.ready /\ wellFormed)
  /\ UNCHANGED ipc

\* A call with n packets.
SubmitPackets(n) ==
  /\ left = 0
  /\ left' = IF bridge.ready THEN n ELSE 0
  /\ result' = Status(bridge.ready)
  /\ UNCHANGED <<bridge, ipc>>

\* The next of them is p.  The packets before the first bad one have their
\* effect, the bad one may take its number, the ones after it are not looked at.
SubmitPacket(p) ==
  /\ left > 0
  /\ bridge' = Submit(bridge, p)
  /\ left' = IF Accepted(bridge, p) THEN left - 1 ELSE 0
  /\ result' = Status(Accepted(bridge, p))
  /\ UNCHANGED ipc

BridgeBeginFrame(f) ==
  /\ Idle
  /\ bridge' = BeginFrame(bridge, f)
  /\ result' = Status(bridge.ready)
  /\ UNCHANGED ipc

BridgePresent(f) ==
  LET ok == CanPresent(bridge, f) IN
    /\ Idle
    /\ bridge' = IF ok THEN Presented(bridge, f) ELSE bridge
    /\ ipc' = IF ok THEN FrameOf(bridge, f) ELSE ipc
    /\ result' = Status(ok)

BridgeShutdown ==
  /\ Idle
  /\ bridge' = IF bridge.ready THEN ShutDown(bridge) ELSE bridge
  /\ UNCHANGED <<ipc, result>>

ClientNext ==
  \/ BridgeInit \/ BridgeShutdown
  \/ \E wellFormed \in BOOLEAN : UpdatePresentTarget(wellFormed)
  \/ \E n \in 0..MaxBatch : SubmitPackets(n)
  \/ \E p \in Packets : SubmitPacket(p)
  \/ \E f \in Frames : BridgeBeginFrame(f) \/ BridgePresent(f)

ClientSpec == ClientInit /\ [][ClientNext]_clientVars

-----------------------------------------------------------------------------
\* Properties.

ClientReplayType ==
  [total : Nat, stored : Seq(Nat \ {0}), dropped : Nat, drawCount : Nat,
   clear : Nat, presentFrame : Nat]

ClientBridgeType ==
  [ready : BOOLEAN, haveTarget : BOOLEAN, lastFrame : Nat, lastSeq : Nat,
   replay : ClientReplayType]

\* Every variable has its type, and neither array has more than it has room for.
ClientTypeOK ==
  /\ bridge \in ClientBridgeType
  /\ Len(bridge.replay.stored) <= MaxStored
  /\ ipc \in [frame : Nat, draws : Seq(Nat \ {0}), clear : Nat]
  /\ Len(ipc.draws) <= MaxIpcDraws
  /\ left \in 0..MaxBatch
  /\ result \in {0, -1}

\* Recorded commands are in the order of their packet numbers, and none has a
\* number that is still to come: rejected packets, frames begun in the middle
\* and restarts never bring an older command behind a newer one.
StoredInSequence ==
  /\ \A i, j \in DOMAIN bridge.replay.stored :
       i < j => bridge.replay.stored[i] < bridge.replay.stored[j]
  /\ \A i \in DOMAIN bridge.replay.stored : bridge.replay.stored[i] <= bridge.lastSeq
  /\ bridge.replay.clear <= bridge.lastSeq

\* The screen never goes back: a frame that replaces another shows all that one
\* showed and possibly more, or nothing but commands with later numbers.  A
\* present may come twice, be refused or name any frame, frames may be begun
\* directly or by packets that are rejected, and still commands of two frames
\* never meet in one, nor does a flushed one return (bridge_present).
PublishedInSequence ==
  [][ipc' # NothingPublished =>
       \/ IsPrefix(ipc.draws, ipc'.draws)
       \/ \A i \in DOMAIN ipc.draws, j \in DOMAIN ipc'.draws :
            ipc.draws[i] < ipc'.draws[j]]_clientVars

\* The commands of a frame are kept together: a call or a packet adds to them
\* or takes all of them away, and a batch that fails in the middle never leaves
\* half of what was there.
CommandsGoTogether ==
  [][\/ IsPrefix(bridge.replay.stored, bridge'.replay.stored)
     \/ Range(bridge.replay.stored) \cap Range(bridge'.replay.stored) = {}]_clientVars
=============================================================================
