--------------------------- MODULE MCSurfaceCopies ---------------------------
(***************************************************************************)
(* SurfaceCopies with two textures of two levels, the levels of one of     *)
(* them render targets, and a wider surface without a texture.             *)
(***************************************************************************)
EXTENDS SurfaceCopies

CONSTANTS t, u, t0, t1, u0, u1, plain

Sized(w, h, isTarget, canLock) ==
  [width |-> w, height |-> h, format |-> "X8R8G8B8", target |-> isTarget,
   lockable |-> canLock]

MCDesc ==
  [s \in {t0, t1, u0, u1, plain} |->
     CASE s = t0 -> Sized(1, 2, FALSE, TRUE)
       [] s = t1 -> Sized(1, 1, FALSE, FALSE)
       [] s = u0 -> Sized(1, 2, TRUE, FALSE)
       [] s = u1 -> Sized(1, 1, TRUE, FALSE)
       [] s = plain -> Sized(2, 1, FALSE, FALSE)]

\* The last call is left out of what tells two states apart: no action and no
\* invariant reads it, and a property of steps is checked for each step taken.
Present == <<sysmem, locked, generation, sent, astray>>

\* Room for an update of both levels of u.
MCMaxGeneration == [x \in {t, u} |-> IF x = t THEN 2 ELSE 3]

MCLevels == [x \in {t, u} |-> IF x = t THEN <<t0, t1>> ELSE <<u0, u1>>]
=============================================================================
