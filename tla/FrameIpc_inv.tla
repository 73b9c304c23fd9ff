---------------------------- MODULE FrameIpc_inv ----------------------------
(***************************************************************************)
(* The inductive invariant of FrameIpc.  TLC checks it on the small        *)
(* instances, FrameFile_proofs proves it for all of them.                   *)
(***************************************************************************)
EXTENDS FrameIpc

\* While a sequence number is in the file the whole file is one frame, the
\* newest; it never wraps because it cannot outnumber the presents.
WriterInv ==
  /\ shSeq # 0 =>
       /\ shSeq = ipcSeq
       /\ wpc \in {"idle", "off"}
       /\ \A w \in Words : mem[w] = frame
  /\ ipcSeq <= frame
  /\ \A w \in Words : mem[w] <= frame
  /\ wpc = "writing" =>
       /\ ipcSeq < frame
       /\ \A w \in Words \ pending : mem[w] = frame

\* A pass started from a number that the writer has issued and will not issue
\* again while the pass lasts: while that number is still in the file, what
\* has been copied is the frame it stands for.
PollInv ==
  rpc # "idle" =>
    /\ wpc # "clearing"
    /\ rseq # 0
    /\ rseq <= ipcSeq
    /\ rpc \in {"header", "snapshot"} => rseq # lastSeq
    /\ rpc = "header" /\ shSeq = rseq =>
         \A w \in HeaderWords \ todo : hdrCopy[w] = frame
    /\ rpc = "snapshot" /\ shSeq = rseq =>
         /\ \A w \in HeaderWords : hdrCopy[w] = frame
         /\ \A w \in Words \ todo : snap[w] = frame
    /\ rpc = "accepted" =>
         /\ 0 < taken
         /\ todo \subseteq late
         /\ \A w \in Words : mem[w] >= taken
         /\ \A w \in Words \ todo : snap[w] <= frame
         /\ SnapshotIsTheFrameTaken

\* The frame taken last is known, and if it is the newest one then its number
\* is the one the viewer remembers.  The frame on screen is whole in a build
\* without late loads.
TakenInv ==
  /\ ~LateLoads => late = {} /\ NoTornFrame
  /\ taken <= frame
  /\ wpc = "writing" => taken < frame
  /\ shSeq # 0 /\ taken = frame => lastSeq = shSeq

IInv == TypeOK /\ WriterInv /\ PollInv /\ TakenInv
=============================================================================
