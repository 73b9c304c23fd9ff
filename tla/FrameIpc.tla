------------------------------ MODULE FrameIpc ------------------------------
(***************************************************************************)
(* The shared file /tmp/dx9mt_metal_frame.bin between the d3d9.dll of a    *)
(* Wine process (the writer: bridge init, present and shutdown) and the    *)
(* native viewer (the reader: pollAndRender on a 120 Hz timer).            *)
(*                                                                         *)
(* A frame is many words: the header fields, the draw array and the bulk   *)
(* bytes.  Each word of memory is modelled by the number of the present    *)
(* that wrote it, so a snapshot whose words carry two numbers is torn.     *)
(* Both sides move one word at a time and in any order, which is what the  *)
(* compilers may do with the plain stores and the memcpy calls between the *)
(* accesses to the sequence word.                                          *)
(***************************************************************************)
EXTENDS Naturals, FiniteSets

CONSTANTS
  HeaderWords,        \* header fields other than the sequence word
  PayloadWords,       \* draw array and bulk region
  SeqMax,             \* 2^32 - 1: the sequence word is a uint32_t
  MaxFrames,          \* bound: presents in all sessions together
  MaxSessions,        \* bound: processes that map the file, one after another
  RestartDuringPoll,  \* may a new process map the file inside one viewer poll
  LateLoads           \* may the viewer's copies complete after its re-check

Words == HeaderWords \cup PayloadWords

ASSUME ConstantsAssumption ==
  /\ HeaderWords # {}
  /\ IsFiniteSet(Words)
  /\ HeaderWords \cap PayloadWords = {}
  /\ SeqMax \in Nat \ {0}
  /\ MaxFrames \in Nat
  /\ MaxSessions \in Nat
  /\ RestartDuringPoll \in BOOLEAN
  /\ LateLoads \in BOOLEAN

VARIABLES
  mem,      \* the file: the present that wrote each word, 0 when zeroed
  shSeq,    \* the file's sequence word
  wpc,      \* the writer: "off", "clearing", "idle" or "writing"
  pending,  \* words the writer has still to store
  ipcSeq,   \* g_metal_ipc_sequence of the writer's process
  frame,    \* number of the newest present begun, over all sessions
  sessions, \* processes that have mapped the file so far
  rpc,      \* the viewer: "idle", "header", "snapshot" or "accepted"
  rseq,     \* the sequence the poll started from
  hdrCopy,  \* header_copy
  snap,     \* s_frame_snapshot
  todo,     \* words of the current copy that are not loaded yet
  lastSeq,  \* _last_seq
  taken,    \* history: the frame whose header was checked, of the last accepted
  late,     \* history: the words of it that were still to be loaded then
  shown     \* the snapshot that render_frame has drawn last

memory == <<mem, shSeq>>
writer == <<wpc, pending, ipcSeq, frame, sessions>>
viewer == <<rpc, rseq, hdrCopy, snap, todo, lastSeq, taken, late, shown>>
vars == <<memory, writer, viewer>>

Zeroed(S) == [w \in S |-> 0]

\* ++g_metal_ipc_sequence on a uint32_t.
NextSequence(s) == IF s = SeqMax THEN 0 ELSE s + 1

\* The run target fills the file with zeros and starts the viewer first.
Init ==
  /\ mem = Zeroed(Words)
  /\ shSeq = 0
  /\ wpc = "off"
  /\ pending = {}
  /\ ipcSeq = 0
  /\ frame = 0
  /\ sessions = 0
  /\ rpc = "idle"
  /\ rseq = 0
  /\ hdrCopy = Zeroed(HeaderWords)
  /\ snap = Zeroed(Words)
  /\ todo = {}
  /\ lastSeq = 0
  /\ taken = 0
  /\ late = {}
  /\ shown = Zeroed(Words)

-----------------------------------------------------------------------------
\* The writer.

\* bridge_init maps the file and clears the header.  Magic and sequence are
\* the first eight bytes and go first; the other fields follow one by one.
OpenMapping ==
  /\ wpc = "off"
  /\ sessions < MaxSessions
  /\ RestartDuringPoll \/ rpc = "idle"
  /\ sessions' = sessions + 1
  /\ ipcSeq' = 0
  /\ shSeq' = 0
  /\ wpc' = "clearing"
  /\ pending' = HeaderWords
  /\ UNCHANGED <<mem, frame, viewer>>

ClearWord(w) ==
  /\ wpc = "clearing"
  /\ w \in pending
  /\ mem' = [mem EXCEPT ![w] = 0]
  /\ pending' = pending \ {w}
  /\ UNCHANGED <<shSeq, wpc, ipcSeq, frame, sessions, viewer>>

FinishOpen ==
  /\ wpc = "clearing"
  /\ pending = {}
  /\ wpc' = "idle"
  /\ UNCHANGED <<memory, pending, ipcSeq, frame, sessions, viewer>>

\* Mutant: the number of the previous frame stays in place during the writes.
BeginPresentKeepsSequence ==
  /\ wpc = "idle"
  /\ frame < MaxFrames
  /\ frame' = frame + 1
  /\ wpc' = "writing"
  /\ pending' = Words
  /\ UNCHANGED <<memory, ipcSeq, sessions, viewer>>

\* bridge_present: the sequence word becomes 0 before anything else is stored.
BeginPresent ==
  /\ wpc = "idle"
  /\ frame < MaxFrames
  /\ frame' = frame + 1
  /\ shSeq' = 0
  /\ wpc' = "writing"
  /\ pending' = Words
  /\ UNCHANGED <<mem, ipcSeq, sessions, viewer>>

WriteWord(w) ==
  /\ wpc = "writing"
  /\ w \in pending
  /\ mem' = [mem EXCEPT ![w] = frame]
  /\ pending' = pending \ {w}
  /\ UNCHANGED <<shSeq, wpc, ipcSeq, frame, sessions, viewer>>

\* The release store of the new sequence number, after every other store.
Publish ==
  /\ wpc = "writing"
  /\ pending = {}
  /\ ipcSeq' = NextSequence(ipcSeq)
  /\ shSeq' = NextSequence(ipcSeq)
  /\ wpc' = "idle"
  /\ UNCHANGED <<mem, pending, frame, sessions, viewer>>

\* bridge_shutdown unmaps the file between two presents; a process that is
\* killed stops anywhere.  Neither touches the file.
CloseMapping ==
  /\ wpc # "off"
  /\ wpc' = "off"
  /\ pending' = {}
  /\ UNCHANGED <<memory, ipcSeq, frame, sessions, viewer>>

-----------------------------------------------------------------------------
\* The viewer: one call of pollAndRender per pass.

\* Nothing new: the sequence word is 0 or the one rendered last.
PollNothing ==
  /\ rpc = "idle"
  /\ shSeq \in {0, lastSeq}
  /\ UNCHANGED vars

\* Mutant: the number is remembered when the pass starts.
PollStartRemembers ==
  /\ rpc = "idle"
  /\ shSeq \notin {0, lastSeq}
  /\ rseq' = shSeq
  /\ lastSeq' = shSeq
  /\ rpc' = "header"
  /\ todo' = HeaderWords
  /\ hdrCopy' = Zeroed(HeaderWords)
  /\ snap' = Zeroed(Words)
  /\ late' = {}
  /\ UNCHANGED <<memory, writer, taken, shown>>

PollStart ==
  /\ rpc = "idle"
  /\ shSeq \notin {0, lastSeq}
  /\ rseq' = shSeq
  /\ rpc' = "header"
  /\ todo' = HeaderWords
  /\ hdrCopy' = Zeroed(HeaderWords)
  /\ snap' = Zeroed(Words)
  /\ late' = {}
  /\ UNCHANGED <<memory, writer, lastSeq, taken, shown>>

CopyHeaderWord(w) ==
  /\ rpc = "header"
  /\ w \in todo
  /\ hdrCopy' = [hdrCopy EXCEPT ![w] = mem[w]]
  /\ todo' = todo \ {w}
  /\ UNCHANGED <<memory, writer, rpc, rseq, snap, lastSeq, taken, late, shown>>

\* The magic, draw-count and bulk-extent checks.  Every header the writer
\* completes passes them and a zeroed one never does; a mixture of two may do
\* either, depending on the sizes.
HeaderIsWhole == \E f \in 1..frame : \A w \in HeaderWords : hdrCopy[w] = f
HeaderIsZero == \A w \in HeaderWords : hdrCopy[w] = 0

RejectHeader ==
  /\ rpc = "header"
  /\ todo = {}
  /\ ~HeaderIsWhole
  /\ rpc' = "idle"
  /\ UNCHANGED <<memory, writer, rseq, hdrCopy, snap, todo, lastSeq, taken, late, shown>>

\* The header has passed, but there is no memory for a snapshot of its size.
RefuseSnapshot ==
  /\ rpc = "header"
  /\ todo = {}
  /\ ~HeaderIsZero
  /\ rpc' = "idle"
  /\ UNCHANGED <<memory, writer, rseq, hdrCopy, snap, todo, lastSeq, taken, late, shown>>

AcceptHeader ==
  /\ rpc = "header"
  /\ todo = {}
  /\ ~HeaderIsZero
  /\ rpc' = "snapshot"
  /\ todo' = Words
  /\ UNCHANGED <<memory, writer, rseq, hdrCopy, snap, lastSeq, taken, late, shown>>

\* One word of the memcpy into the private snapshot.  In a build where the
\* loads may be late, some of them complete after the re-check.
CopyWord(w) ==
  /\ rpc = "snapshot" \/ (LateLoads /\ rpc = "accepted")
  /\ w \in todo
  /\ snap' = [snap EXCEPT ![w] = mem[w]]
  /\ todo' = todo \ {w}
  /\ UNCHANGED <<memory, writer, rpc, rseq, hdrCopy, lastSeq, taken, late, shown>>

CopyDone == LateLoads \/ todo = {}

\* seq_after differs from seq: the pass is dropped and the next poll retries.
RecheckFails ==
  /\ rpc = "snapshot"
  /\ CopyDone
  /\ shSeq # rseq
  /\ rpc' = "idle"
  /\ todo' = {}
  /\ UNCHANGED <<memory, writer, rseq, hdrCopy, snap, lastSeq, taken, late, shown>>

\* What the copy is of, by a header that is whole.
FrameOf(header) == header[CHOOSE w \in HeaderWords : TRUE]

\* Mutant: the snapshot is accepted without comparing the two loads.
RecheckHoldsUnchecked ==
  /\ rpc = "snapshot"
  /\ CopyDone
  /\ rpc' = "accepted"
  /\ lastSeq' = rseq
  /\ taken' = FrameOf(hdrCopy)
  /\ late' = todo
  /\ UNCHANGED <<memory, writer, rseq, hdrCopy, snap, todo, shown>>

\* Mutant: the accepted number is not remembered.
RecheckHoldsForgets ==
  /\ rpc = "snapshot"
  /\ CopyDone
  /\ shSeq = rseq
  /\ rpc' = "accepted"
  /\ taken' = FrameOf(hdrCopy)
  /\ late' = todo
  /\ UNCHANGED <<memory, writer, rseq, hdrCopy, snap, todo, lastSeq, shown>>

RecheckHolds ==
  /\ rpc = "snapshot"
  /\ CopyDone
  /\ shSeq = rseq
  /\ rpc' = "accepted"
  /\ lastSeq' = rseq
  /\ taken' = FrameOf(hdrCopy)
  /\ late' = todo
  /\ UNCHANGED <<memory, writer, rseq, hdrCopy, snap, todo, shown>>

\* render_frame reads the snapshot, header included, and nothing else.
Render ==
  /\ rpc = "accepted"
  /\ todo = {}
  /\ shown' = snap
  /\ rpc' = "idle"
  /\ UNCHANGED <<memory, writer, rseq, hdrCopy, snap, todo, lastSeq, taken, late>>

\* Or it returns before the picture is presented: there is no drawable, command
\* buffer or encoder.  The number is remembered already, so the frame is not
\* tried again.
RenderNothing ==
  /\ rpc = "accepted"
  /\ rpc' = "idle"
  /\ todo' = {}
  /\ UNCHANGED <<memory, writer, rseq, hdrCopy, snap, lastSeq, taken, late, shown>>

-----------------------------------------------------------------------------
WriterNext ==
  \/ OpenMapping \/ FinishOpen \/ BeginPresent \/ Publish \/ CloseMapping
  \/ \E w \in Words : ClearWord(w) \/ WriteWord(w)

ViewerNext ==
  \/ PollStart \/ RejectHeader \/ RefuseSnapshot \/ AcceptHeader
  \/ RecheckFails \/ RecheckHolds \/ Render \/ RenderNothing
  \/ \E w \in Words : CopyHeaderWord(w) \/ CopyWord(w)

Next == WriterNext \/ ViewerNext \/ PollNothing

Spec == Init /\ [][Next]_vars

\* The viewer's timer keeps firing and a poll runs to its end.  The game owes
\* nothing: it may stop presenting, or die, at any point.
FairSpec == Spec /\ WF_vars(ViewerNext)

-----------------------------------------------------------------------------
\* Properties.

TypeOK ==
  /\ mem \in [Words -> 0..MaxFrames]
  /\ shSeq \in 0..SeqMax
  /\ wpc \in {"off", "clearing", "idle", "writing"}
  /\ pending \in SUBSET Words
  /\ ipcSeq \in 0..SeqMax
  /\ frame \in 0..MaxFrames
  /\ sessions \in 0..MaxSessions
  /\ rpc \in {"idle", "header", "snapshot", "accepted"}
  /\ rseq \in 0..SeqMax
  /\ hdrCopy \in [HeaderWords -> 0..MaxFrames]
  /\ snap \in [Words -> 0..MaxFrames]
  /\ todo \in SUBSET Words
  /\ lastSeq \in 0..SeqMax
  /\ taken \in 0..MaxFrames
  /\ late \in SUBSET Words
  /\ shown \in [Words -> 0..MaxFrames]

\* What render_frame receives is one frame: no two words of the snapshot come
\* from different presents, whatever the writer did during the copy
\* (pollAndRender's second load of the sequence word).
NoTornFrame == \A v, w \in Words : shown[v] = shown[w]

\* The header that render_frame takes sizes and offsets from is the one whose
\* extents were checked, although it was copied a second time with the frame.
ValidatedHeaderIsRendered ==
  rpc = "accepted" /\ todo = {} =>
    \A w \in HeaderWords : snap[w] = hdrCopy[w]

\* What is accepted, in every build: the header is the one of the frame taken,
\* words loaded before the re-check are of that frame, and words loaded after it
\* are of that frame or of a newer one (pollAndRender's memcpy and second load).
SnapshotIsTheFrameTaken ==
  rpc = "accepted" =>
    /\ \A w \in HeaderWords : hdrCopy[w] = taken
    /\ \A w \in Words \ late : snap[w] = taken
    /\ \A w \in Words \ todo : snap[w] >= taken

\* Memory for a snapshot is granted, from some time on.
MemoryIsGranted == <>[][~RefuseSnapshot]_vars

\* Liveness over restarts: a sequence number other than the one rendered last
\* cannot stay in the file for ever without being taken, if there is memory for it.
NewSequenceIsTaken ==
  MemoryIsGranted => []<>(shSeq \in {0, lastSeq} \/ wpc = "writing")

\* The refinement: a frame is offered while its sequence number is in the
\* file, and taken by the re-check that accepts it.
OfferedFrame == IF shSeq = 0 THEN 0 ELSE frame

Channel == INSTANCE FrameChannel
             WITH MayMix <- LateLoads, offered <- OfferedFrame, latest <- frame,
                  due <- rpc = "accepted", shown <- {shown[w] : w \in Words}

\* The viewer takes each frame at most once and never an older one after a newer
\* one, and what it draws then is that frame, whole; in a build with late loads
\* it may have parts of newer frames, and never of older ones.
ImplementsChannel == Channel!Spec

\* In one session a frame that the writer leaves in the file is also taken, if
\* there is memory for it, although passes that lose the race are dropped.
ImplementsLiveChannel ==
  [](sessions <= 1) /\ MemoryIsGranted => Channel!LeftIsTaken
=============================================================================
