---------------------------- MODULE BridgeState ----------------------------
(***************************************************************************)
(* The state of the backend bridge and what each of its calls does to it.  *)
(* The calls are operators on a record, not actions, because a device      *)
(* handler makes several of them in one go: Present submits a packet and   *)
(* then presents.  BackendBridge drives them with every client the         *)
(* interface allows, DeviceFrames with the calls the device makes.         *)
(*                                                                         *)
(* A recorded command is the number of its packet; the state it carries    *)
(* is left out.  g_frame_open and the frame number of the replay state are *)
(* only written to the log.                                                *)
(***************************************************************************)
EXTENDS Integers, Sequences

CONSTANTS
  MaxStored,     \* DX9MT_BACKEND_MAX_DRAW_COMMANDS_PER_FRAME, 8192
  MaxIpcDraws    \* DX9MT_METAL_IPC_MAX_DRAWS, 2048

ASSUME CapacityAssumption ==
  /\ MaxStored \in Nat \ {0}
  /\ MaxIpcDraws \in Nat \ {0}

VARIABLES
  bridge,   \* the globals of backend_bridge_stub.c
  ipc       \* the frame in the shared file

PacketTypes ==
  {"malformed", "init", "begin_frame", "draw", "present", "clear",
   "shutdown", "stretch_rect"}

\* No packet and no frame of the device has number 0.
NoClear == 0
NoFrame == 0

Prefix(s, n) == IF Len(s) <= n THEN s ELSE SubSeq(s, 1, n)

-----------------------------------------------------------------------------
\* g_frame_replay_state and the frame statistics, which are reset with it:
\* commands recorded, those stored, those for which there was no room, draw
\* packets among them, the last clear, the frame of the PRESENT packet.
FreshReplay ==
  [total |-> 0, stored |-> <<>>, dropped |-> 0, drawCount |-> 0,
   clear |-> NoClear, presentFrame |-> NoFrame]

\* Mutant: no capacity check.
RecordUnbounded(r, c) ==
  [r EXCEPT !.total = @ + 1, !.stored = Append(@, c)]

\* Mutant: when the array is full the newest command replaces the last one.
RecordOverwriting(r, c) ==
  IF Len(r.stored) < MaxStored
    THEN [r EXCEPT !.total = @ + 1, !.stored = Append(@, c)]
    ELSE [r EXCEPT !.total = @ + 1, !.dropped = @ + 1, !.stored[MaxStored] = c]

\* record_draw_command and record_stretch_rect_command.
Record(r, c) ==
  IF Len(r.stored) < MaxStored
    THEN [r EXCEPT !.total = @ + 1, !.stored = Append(@, c)]
    ELSE [r EXCEPT !.total = @ + 1, !.dropped = @ + 1]

RecordDraw(r, c) == [Record(r, c) EXCEPT !.drawCount = @ + 1]

-----------------------------------------------------------------------------
\* bridge_init: everything but the IPC mapping, which FrameIpc models.
Initialized ==
  [ready |-> TRUE, haveTarget |-> FALSE, lastFrame |-> 0, lastSeq |-> 0,
   replay |-> FreshReplay]

UpdateTarget(b) == IF b.ready THEN [b EXCEPT !.haveTarget = TRUE] ELSE b

\* Mutant: every pass of a frame starts the frame again.
BeginFrameEveryPass(b, f) ==
  [b EXCEPT !.lastFrame = f, !.replay = FreshReplay]

\* Mutant: the count of draw packets is not reset with the commands.
BeginFrameKeepingCount(b, f) ==
  IF b.ready /\ f # b.lastFrame
    THEN [b EXCEPT !.lastFrame = f,
                   !.replay = [FreshReplay EXCEPT !.drawCount = b.replay.drawCount]]
    ELSE b

\* bridge_begin_frame: the recorded commands go only when the number changes.
BeginFrame(b, f) ==
  IF b.ready /\ f # b.lastFrame
    THEN [b EXCEPT !.lastFrame = f, !.replay = FreshReplay]
    ELSE b

\* What an accepted packet does; INIT and SHUTDOWN packets only take a number.
Take(b, p) ==
  CASE p.type = "begin_frame" -> BeginFrame(b, p.frame)
    [] p.type = "draw" -> [b EXCEPT !.replay = RecordDraw(@, p.seq)]
    [] p.type = "stretch_rect" -> [b EXCEPT !.replay = Record(@, p.seq)]
    [] p.type = "clear" -> [b EXCEPT !.replay.clear = p.seq]
    [] p.type = "present" -> [b EXCEPT !.replay.presentFrame = p.frame]
    [] OTHER -> b

InOrder(b, p) == p.seq # 0 /\ (b.lastSeq = 0 \/ p.seq > b.lastSeq)

\* The checks on the header; a packet that passes them takes its number.
Admitted(b, p) == b.ready /\ p.type # "malformed" /\ InOrder(b, p)

\* Then the checks on the contents: size for the type, ids, upload refs.
Accepted(b, p) == Admitted(b, p) /\ p.valid

\* Mutant: a packet is taken whatever its number.
SubmitUnordered(b, p) ==
  IF b.ready /\ p.type # "malformed" /\ p.valid
    THEN Take([b EXCEPT !.lastSeq = p.seq], p) ELSE b

\* One packet through submit_packets.
Submit(b, p) ==
  LET numbered == [b EXCEPT !.lastSeq = p.seq] IN
  IF Accepted(b, p) THEN Take(numbered, p)
  ELSE IF Admitted(b, p) THEN numbered
  ELSE b

\* bridge_present returns 0.
CanPresent(b, f) ==
  b.ready /\ b.haveTarget /\ b.replay.presentFrame \in {NoFrame, f}

Presented(b, f) ==
  [b EXCEPT !.lastFrame = f, !.replay.presentFrame = NoFrame]

\* What bridge_present puts in the shared file.
FrameOf(b, f) ==
  [frame |-> f, draws |-> Prefix(b.replay.stored, MaxIpcDraws),
   clear |-> b.replay.clear]

NothingPublished == [frame |-> 0, draws |-> <<>>, clear |-> NoClear]

\* bridge_shutdown: the number of the last frame stays.
ShutDown(b) ==
  [b EXCEPT !.ready = FALSE, !.haveTarget = FALSE, !.lastSeq = 0,
            !.replay = [FreshReplay EXCEPT !.drawCount = b.replay.drawCount]]
=============================================================================
