--------------------------- MODULE MCViewerReplay ---------------------------
(***************************************************************************)
(* ViewerReplay with two render targets of the game: the first is the      *)
(* surface of a texture, the second a back buffer without one.             *)
(***************************************************************************)
EXTENDS ViewerReplay, TLC

CONSTANTS s1, s2, t1, t2

MCSurfaces == {s1, s2}
MCTextures == {t1, t2}
OneLinked == s1 :> t1 @@ s2 :> None
BothLinked == s1 :> t1 @@ s2 :> t2
=============================================================================
