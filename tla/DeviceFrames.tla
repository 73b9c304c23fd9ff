---------------------------- MODULE DeviceFrames ----------------------------
(***************************************************************************)
(* The frame path of the D3D9 device: the calls of the game that reach the *)
(* backend bridge, from the creation of a device to its last Present.      *)
(* Every call is synchronous: a handler makes its packet, submits it and   *)
(* ignores the result.                                                     *)
(*                                                                         *)
(* issued, cleared and begun are history: what the game has asked for      *)
(* since the last Present, whatever the bridge has kept of it.             *)
(***************************************************************************)
EXTENDS BridgeState

CONSTANTS
  SeqMax,       \* 2^32 - 1: the packet sequence is a uint32_t
  MaxPackets,   \* bound: packets of the process, the INIT packet included
  MaxDevices,   \* bound: devices created one after another
  SceneFirst    \* does the game open each frame with BeginScene

ASSUME DeviceAssumption ==
  /\ SeqMax \in Nat \ {0}
  /\ MaxPackets \in Nat \ {0}
  /\ MaxDevices \in Nat
  /\ SceneFirst \in BOOLEAN

VARIABLES
  packets,   \* packets made so far; g_packet_seq is this number modulo 2^32
  devices,   \* devices created so far
  alive,     \* does the current device exist
  frameId,   \* frame_id of the current device
  inScene,   \* in_scene of the current device
  issued,    \* history: valid draws and blits since the last Present
  cleared,   \* history: the last clear since the last Present
  begun      \* history: has this frame had its first BeginScene

device == <<devices, alive, frameId, inScene>>
history == <<issued, cleared, begun>>
vars == <<bridge, ipc, packets, device, history>>

\* InterlockedIncrement on the 32-bit g_packet_seq, for the n-th packet.
Sequence(n) == n % (SeqMax + 1)

Packet(type, valid) ==
  [type |-> type, seq |-> Sequence(packets + 1), frame |-> frameId,
   valid |-> valid]

\* runtime_ensure_initialized has initialized the bridge and sent INIT.
Init ==
  /\ bridge = [Initialized EXCEPT !.lastSeq = 1]
  /\ ipc = NothingPublished
  /\ packets = 1
  /\ devices = 0
  /\ alive = FALSE
  /\ frameId = 1
  /\ inScene = FALSE
  /\ issued = <<>>
  /\ cleared = NoClear
  /\ begun = FALSE

-----------------------------------------------------------------------------
\* dx9mt_device_create: the present target is published by the initial reset.
CreateDevice ==
  /\ ~alive
  /\ devices < MaxDevices
  /\ devices' = devices + 1
  /\ alive' = TRUE
  /\ frameId' = 1
  /\ inScene' = FALSE
  /\ bridge' = UpdateTarget(bridge)
  /\ issued' = <<>>
  /\ cleared' = NoClear
  /\ begun' = FALSE
  /\ UNCHANGED <<ipc, packets>>

\* The last Release; the bridge is not told.
ReleaseDevice ==
  /\ alive
  /\ alive' = FALSE
  /\ UNCHANGED <<bridge, ipc, packets, devices, frameId, inScene, history>>

\* A call that makes one packet and may be made by the game now.
Sends(type, valid) ==
  /\ alive
  /\ packets < MaxPackets
  /\ packets' = packets + 1
  /\ bridge' = Submit(bridge, Packet(type, valid))

MayRecord == SceneFirst => begun

BeginScene ==
  /\ ~inScene
  /\ Sends("begin_frame", TRUE)
  /\ inScene' = TRUE
  /\ begun' = TRUE
  /\ UNCHANGED <<ipc, devices, alive, frameId, issued, cleared>>

EndScene ==
  /\ alive
  /\ inScene
  /\ inScene' = FALSE
  /\ UNCHANGED <<bridge, ipc, packets, devices, alive, frameId, history>>

\* DrawIndexedPrimitive; a packet is not valid when an id is missing or an
\* upload has failed.  The game is told D3D_OK either way.
Draw(valid) ==
  /\ MayRecord
  /\ Sends("draw", valid)
  /\ issued' = IF valid THEN Append(issued, packets + 1) ELSE issued
  /\ UNCHANGED <<ipc, device, cleared, begun>>

\* emit_stretch_rect; a rectangle outside its surface makes no packet.
StretchRect ==
  /\ MayRecord
  /\ Sends("stretch_rect", TRUE)
  /\ issued' = Append(issued, packets + 1)
  /\ UNCHANGED <<ipc, device, cleared, begun>>

Clear ==
  /\ MayRecord
  /\ Sends("clear", TRUE)
  /\ cleared' = packets + 1
  /\ UNCHANGED <<ipc, device, issued, begun>>

\* Mutant: the device stays on the frame it has presented.
SameFrame(f) == f

NextFrame(f) == f + 1

\* Present, of the device or of its swap chain: the PRESENT packet, then
\* bridge_present, then the next frame number whatever the two returned.
Present ==
  /\ MayRecord
  /\ alive
  /\ packets < MaxPackets
  /\ packets' = packets + 1
  /\ LET b == Submit(bridge, Packet("present", TRUE))
         ok == CanPresent(b, frameId)
     IN  /\ bridge' = IF ok THEN Presented(b, frameId) ELSE b
         /\ ipc' = IF ok THEN FrameOf(b, frameId) ELSE ipc
  /\ frameId' = NextFrame(frameId)
  /\ issued' = <<>>
  /\ cleared' = NoClear
  /\ begun' = FALSE
  /\ UNCHANGED <<devices, alive, inScene>>

Next ==
  \/ CreateDevice \/ ReleaseDevice
  \/ BeginScene \/ EndScene
  \/ StretchRect \/ Clear \/ Present
  \/ \E valid \in BOOLEAN : Draw(valid)

Spec == Init /\ [][Next]_vars

-----------------------------------------------------------------------------
\* Properties.

ReplayType ==
  [total : Nat, stored : Seq(Nat), dropped : Nat, drawCount : Nat,
   clear : Nat, presentFrame : Nat]

BridgeType ==
  [ready : BOOLEAN, haveTarget : BOOLEAN, lastFrame : Nat,
   lastSeq : 0..SeqMax, replay : ReplayType]

FrameType == [frame : Nat, draws : Seq(Nat), clear : Nat]

\* The bridge never stores or publishes more commands than its arrays hold.
TypeOK ==
  /\ bridge \in BridgeType
  /\ Len(bridge.replay.stored) <= MaxStored
  /\ ipc \in FrameType
  /\ Len(ipc.draws) <= MaxIpcDraws
  /\ packets \in 1..MaxPackets
  /\ devices \in 0..MaxDevices
  /\ alive \in BOOLEAN
  /\ frameId \in Nat \ {0}
  /\ inScene \in BOOLEAN
  /\ issued \in Seq(Nat)
  /\ cleared \in Nat
  /\ begun \in BOOLEAN

\* From the first BeginScene of a frame to its Present the bridge holds what
\* the game has drawn in it, all of it up to the capacity, in order, over any
\* number of BeginScene/EndScene passes (the comment in bridge_begin_frame:
\* "accumulate draws across all passes and only flush on Present").
ReplayHoldsTheFrame ==
  alive /\ begun =>
    /\ bridge.replay.stored = Prefix(issued, MaxStored)
    /\ bridge.replay.clear = cleared

\* The counters of a frame agree: what was recorded is stored or was dropped
\* because the array was full, and a draw is not counted without being
\* recorded.
CountsAgree ==
  /\ bridge.replay.total = Len(bridge.replay.stored) + bridge.replay.dropped
  /\ bridge.replay.dropped > 0 => Len(bridge.replay.stored) = MaxStored
  /\ bridge.replay.drawCount <= bridge.replay.total

\* The packets of the process have all been taken in order, and no frame but
\* the one begun by the current device has its number.
NumberInv ==
  /\ bridge.ready
  /\ bridge.lastSeq = packets
  /\ bridge.replay.presentFrame = NoFrame
  /\ alive => bridge.haveTarget
  /\ devices = 0 => ~alive /\ ~begun /\ bridge.lastFrame = 0
  /\ IF begun THEN bridge.lastFrame = frameId ELSE bridge.lastFrame < frameId

\* What the bridge holds for a begun frame, and that nothing is issued before.
HoldInv ==
  IF begun
    THEN /\ bridge.replay.stored = Prefix(issued, MaxStored)
         /\ bridge.replay.clear = cleared
    ELSE /\ issued = <<>>
         /\ cleared = NoClear

\* The inductive invariant, for one device that opens its frames.
IInv == TypeOK /\ CountsAgree /\ NumberInv /\ HoldInv

\* The refinement: the commands of the frame are what the game has issued,
\* and the screen is what the shared file holds.
Assembly == INSTANCE FrameAssembly
              WITH Commands <- 1..MaxPackets, Capacity <- MaxStored,
                   Shown <- MaxIpcDraws,
                   log <- Prefix(issued, MaxStored), clear <- cleared,
                   screen <- [draws |-> ipc.draws, clear |-> ipc.clear]

\* Every Present shows exactly what was issued since the one before.
ImplementsAssembly == Assembly!Spec
=============================================================================
