---------------------------- MODULE MCComObjects ----------------------------
(* A heap with one address for each kind of object and several for surfaces. *)
EXTENDS ComObjects, TLC

CONSTANTS root, dev, chain, tex, cube, vb, ib, decl, vs, ps, query

MCKind ==
  [o \in Objects |->
     CASE o = root -> "d3d9" [] o = dev -> "device" [] o = chain -> "swapchain"
       [] o = tex -> "texture" [] o = cube -> "cube" [] o = vb -> "vb"
       [] o = ib -> "ib" [] o = decl -> "vdecl" [] o = vs -> "vs"
       [] o = ps -> "ps" [] o = query -> "query" [] OTHER -> "surface"]

SurfacesAlike == Permutations(Surfaces)
=============================================================================
