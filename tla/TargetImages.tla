---------------------------- MODULE TargetImages ----------------------------
(***************************************************************************)
(* What replaying a frame means for the surfaces of the game.  A frame     *)
(* starts from cleared surfaces and names the one that is presented.  Its  *)
(* commands are met in order; one adds to the image of its own surface and *)
(* changes no other, or is left out.  At the end the screen shows the      *)
(* surface that was named when the frame began, as it is then.             *)
(***************************************************************************)
EXTENDS Naturals, Sequences

CONSTANTS Surfaces, Nowhere   \* Nowhere: no surface is presented

VARIABLES
  presented, \* the surface the frame presents, or Nowhere
  at,        \* the number of the next command; 0 between frames
  image,     \* numbers of the commands on each surface since the frame began
  screen     \* those of the frame shown last

imageVars == <<presented, at, image, screen>>

Blank == [s \in Surfaces |-> <<>>]

Init == presented = Nowhere /\ at = 0 /\ image = Blank /\ screen = <<>>

Begin(s) ==
  /\ at = 0
  /\ presented' = s
  /\ at' = 1
  /\ image' = Blank
  /\ UNCHANGED screen

Command(s) ==
  /\ at > 0
  /\ image' = [image EXCEPT ![s] = Append(@, at)]
  /\ at' = at + 1
  /\ UNCHANGED <<presented, screen>>

LeaveOut ==
  /\ at > 0
  /\ at' = at + 1
  /\ UNCHANGED <<presented, image, screen>>

Show ==
  /\ at > 0
  /\ screen' = IF presented = Nowhere THEN <<>> ELSE image[presented]
  /\ at' = 0
  /\ UNCHANGED <<presented, image>>

Abandon ==
  /\ at > 0
  /\ at' = 0
  /\ image' = Blank
  /\ UNCHANGED <<presented, screen>>

Next ==
  \/ \E s \in Surfaces \cup {Nowhere} : Begin(s)
  \/ \E s \in Surfaces : Command(s)
  \/ LeaveOut
  \/ Show
  \/ Abandon

Spec == Init /\ [][Next]_imageVars
=============================================================================
