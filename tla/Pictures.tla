------------------------------ MODULE Pictures ------------------------------
(***************************************************************************)
(* What the calls on surfaces promise: a surface is a picture, a function  *)
(* of coordinates, and a call puts at the coordinates the game names the   *)
(* pixels the game names.  There is no memory, no pitch and no allocation; *)
(* a surface that nobody has written to is blank.                          *)
(*                                                                         *)
(* A surface in a block format is no picture: what its memory gives to one *)
(* is any pixels, but still only where the call says.                      *)
(***************************************************************************)
EXTENDS Integers, Sequences

CONSTANTS
  Surfaces, Width, Height,
  Levels,          \* of each texture, the surfaces that are its levels
  Pixels, Blank

VARIABLES
  picture,         \* of each surface
  call             \* the last call that did something, as the game made it

pictureVars == <<picture, call>>

NoCall == [op |-> "none"]

Points(s) == (0..(Width[s] - 1)) \X (0..(Height[s] - 1))

Init ==
  /\ picture = [s \in Surfaces |-> [p \in Points(s) |-> Blank]]
  /\ call = NoCall

\* A rectangle has its right and bottom edges behind its last pixels.
Within(r) == (r.left..(r.right - 1)) \X (r.top..(r.bottom - 1))

\* A call for a rectangle that is empty or sticks out does nothing.
Lies(r, s) == Within(r) # {} /\ Within(r) \subseteq Points(s)

\* One colour over a rectangle; a pixel the game writes itself is one of its own.
Fill ==
  LET c == call' IN
  /\ c.op = "fill" /\ c.dst \in Surfaces /\ Lies(c.to, c.dst) /\ c.pixel \in Pixels
  /\ picture' = [picture EXCEPT ![c.dst] =
       [p \in Points(c.dst) |-> IF p \in Within(c.to) THEN c.pixel ELSE @[p]]]

\* Each pixel of the rectangle r is the nearest of rectangle q: as far from the
\* left and the top edge as its own distance, scaled.
Nearest(q, r, p) ==
  <<q.left + ((p[1] - r.left) * (q.right - q.left)) \div (r.right - r.left),
    q.top + ((p[2] - r.top) * (q.bottom - q.top)) \div (r.bottom - r.top)>>

Copy ==
  LET c == call' IN
  /\ c.op = "copy" /\ c.src \in Surfaces /\ c.dst \in Surfaces \ {c.src}
  /\ Lies(c.from, c.src) /\ Lies(c.to, c.dst)
  /\ picture' = [picture EXCEPT ![c.dst] =
       [p \in Points(c.dst) |->
          IF p \in Within(c.to) THEN picture[c.src][Nearest(c.from, c.to, p)] ELSE @[p]]]

\* A copy out of a surface that is no picture.
Paste ==
  LET c == call' IN
  /\ c.op = "copy" /\ c.src \notin Surfaces /\ c.dst \in Surfaces
  /\ Lies(c.to, c.dst)
  /\ DOMAIN picture' = Surfaces
  /\ \A s \in Surfaces \ {c.dst} : picture'[s] = picture[s]
  /\ \A p \in Points(c.dst) \ Within(c.to) : picture'[c.dst][p] = picture[c.dst][p]

\* The first levels of a texture become those of another one, and no other
\* picture changes; levels of a texture that are no pictures give anything.
UpdateLevels(t, u, n) ==
  LET updated(s) == \E l \in 1..n : Levels[u][l] = s
      from(s) == Levels[t][CHOOSE l \in 1..n : Levels[u][l] = s]
  IN  /\ call' = [op |-> "update", src |-> t, dst |-> u, levels |-> n]
      /\ t # u /\ n <= Len(Levels[u])
      /\ DOMAIN picture' = Surfaces
      /\ \A s \in Surfaces :
           /\ updated(s) /\ from(s) \in Surfaces =>
                /\ Width[from(s)] = Width[s] /\ Height[from(s)] = Height[s]
                /\ picture'[s] = picture[from(s)]
           /\ ~updated(s) => picture'[s] = picture[s]

\* A call for a surface that is no picture.
Elsewhere ==
  /\ call'.op \in {"fill", "copy"} /\ call'.dst \notin Surfaces
  /\ UNCHANGED picture

Next ==
  \/ Fill \/ Copy \/ Paste \/ Elsewhere
  \/ \E t, u \in DOMAIN Levels : \E n \in 1..Len(Levels[t]) : UpdateLevels(t, u, n)

Spec == Init /\ [][Next]_pictureVars
=============================================================================
