--------------------------- MODULE ImmediateDraws ---------------------------
(***************************************************************************)
(* What Direct3D promises of a draw: it uses the data that the game has    *)
(* set at the time of the call, whatever the game does to that data before *)
(* the frame is shown.  A draw may be refused, but what is shown of a      *)
(* frame was drawn in it.                                                  *)
(***************************************************************************)
CONSTANT Contents   \* what a draw may use

VARIABLES
  drawn,   \* the contents of the draws of the frame being built
  screen   \* those of the frame presented last

immediateVars == <<drawn, screen>>

Init == drawn = {} /\ screen = {}

Draw(content) ==
  /\ drawn' = drawn \cup {content}
  /\ UNCHANGED screen

Present ==
  /\ screen' = drawn
  /\ drawn' = {}

Next == Present \/ \E content \in Contents : Draw(content)

Spec == Init /\ [][Next]_immediateVars
=============================================================================
