----------------------------- MODULE MCFrameIpc -----------------------------
(***************************************************************************)
(* FrameIpc on small instances: two header words, so that a header can be  *)
(* half old and half new, and two payload words.                           *)
(***************************************************************************)
EXTENDS FrameIpc_inv

CONSTANTS h1, h2, p1, p2
=============================================================================
