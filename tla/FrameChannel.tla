---------------------------- MODULE FrameChannel ----------------------------
(***************************************************************************)
(* What the shared-memory frame file promises, whatever its layout and     *)
(* protocol: the writer offers one complete frame at a time, may withdraw  *)
(* it, and never offers an older frame again; the viewer takes a frame     *)
(* only while it is offered and never goes back to an older one.  A frame  *)
(* that was taken is shown once or lost, but not taken again.              *)
(* FrameIpc implements this specification with a sequence word and a       *)
(* payload that is written and read piece by piece.                        *)
(***************************************************************************)
EXTENDS Naturals

CONSTANT
  MayMix    \* may a picture have parts of newer frames than the one taken

VARIABLES
  offered,  \* the frame the file holds, 0 when it holds none
  latest,   \* the number of the newest frame begun
  taken,    \* the newest frame that the viewer has taken, 0 when none
  due,      \* is the frame taken last still to be shown
  shown     \* the frames that the picture on the screen is made of

channelVars == <<offered, latest, taken, due, shown>>

Init ==
  /\ offered = 0
  /\ latest = 0
  /\ taken = 0
  /\ due = FALSE
  /\ shown = {0}

\* The writer starts on the next frame; the one on offer is gone.
Begin ==
  /\ latest' = latest + 1
  /\ offered' = 0
  /\ UNCHANGED <<taken, due, shown>>

\* The newest frame is complete.
Offer ==
  /\ offered = 0
  /\ latest > 0
  /\ offered' = latest
  /\ UNCHANGED <<latest, taken, due, shown>>

\* A new process takes the file over.
Withdraw ==
  /\ offered # 0
  /\ offered' = 0
  /\ UNCHANGED <<latest, taken, due, shown>>

\* The viewer takes what is offered, once.
Take ==
  /\ ~due
  /\ offered > taken
  /\ taken' = offered
  /\ due' = TRUE
  /\ UNCHANGED <<offered, latest, shown>>

\* It shows what it has taken and nothing else.
Show ==
  /\ due
  /\ shown' \in (SUBSET (taken..latest)) \ {{}}
  /\ MayMix \/ shown' = {taken}
  /\ due' = FALSE
  /\ UNCHANGED <<offered, latest, taken>>

\* Or it cannot show it; the frame is not taken again.
Lose ==
  /\ due
  /\ due' = FALSE
  /\ UNCHANGED <<offered, latest, taken, shown>>

Next == Begin \/ Offer \/ Withdraw \/ Take \/ Show \/ Lose

Spec == Init /\ [][Next]_channelVars

\* A frame that stays offered is taken.
LeftIsTaken == WF_channelVars(Take)
=============================================================================
