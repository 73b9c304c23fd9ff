--------------------------- MODULE FrameAssembly ---------------------------
(***************************************************************************)
(* What the frontend and the bridge together promise the game: everything  *)
(* drawn since the last Present, in the order of the calls and up to the   *)
(* capacity of the frame, is what the next Present shows, with the last    *)
(* clear; nothing else flushes it and nothing of it is shown twice.        *)
(***************************************************************************)
EXTENDS Naturals, Sequences

CONSTANTS
  Commands,   \* the commands the game may issue
  Capacity,   \* commands kept for one frame
  Shown,      \* commands that one frame shows
  NoClear

VARIABLES
  log,     \* the commands of the frame being built
  clear,   \* its last clear
  screen   \* what was presented last

assemblyVars == <<log, clear, screen>>

First(s, n) == IF Len(s) <= n THEN s ELSE SubSeq(s, 1, n)

Init ==
  /\ log = <<>>
  /\ clear = NoClear
  /\ screen = [draws |-> <<>>, clear |-> NoClear]

Issue(c) ==
  /\ Len(log) < Capacity
  /\ log' = Append(log, c)
  /\ UNCHANGED <<clear, screen>>

Clear(c) ==
  /\ clear' = c
  /\ UNCHANGED <<log, screen>>

Present ==
  /\ screen' = [draws |-> First(log, Shown), clear |-> clear]
  /\ log' = <<>>
  /\ clear' = NoClear

Next == Present \/ \E c \in Commands : Issue(c) \/ Clear(c)

Spec == Init /\ [][Next]_assemblyVars
=============================================================================
