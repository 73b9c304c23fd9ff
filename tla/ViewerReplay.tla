---------------------------- MODULE ViewerReplay ----------------------------
(***************************************************************************)
(* render_frame of the viewer: the commands of one frame are replayed in   *)
(* order into Metal render passes.  A pass has one colour attachment, the  *)
(* drawable or the texture kept for a render target, and perhaps a depth   *)
(* attachment; it stays open until a command needs another one.  The first *)
(* pass of a frame on a target clears it, later ones load it.  What is     *)
(* drawn off screen is linked to a texture for later commands to sample.   *)
(*                                                                         *)
(* The commands are any the frontend can send, picked as they are replayed.*)
(* Of textures the game uploads it is only kept whether the viewer has one;*)
(* shaders, pipelines and geometry only decide whether a draw happens.     *)
(***************************************************************************)
EXTENDS Naturals, Sequences

CONSTANTS
  Surfaces,        \* the game's render targets, by render_target_id
  Textures,        \* texture ids
  Linked,          \* render_target_texture_id of each surface, or None
  None,            \* the id 0
  Drawable,        \* the texture of the window, not one of Surfaces
  MaxCommands,     \* DX9MT_METAL_IPC_MAX_DRAWS, 2048
  MayFail,         \* may Metal refuse to create an encoder or a texture
  ReadsPresented   \* does the game read from the surface it presents

ASSUME ReplayAssumption ==
  /\ None \notin Surfaces \cup Textures
  /\ Drawable \notin Surfaces \cup {None}
  /\ Linked \in [Surfaces -> Textures \cup {None}]
  /\ MaxCommands \in Nat
  /\ MayFail \in BOOLEAN
  /\ ReadsPresented \in BOOLEAN

VARIABLES
  header,      \* of the frame being replayed: present_render_target_id, draw_count
  number,      \* the next command; 0 between frames
  passes,      \* the open encoder, the targets seen, and what their textures hold
  overrides,   \* s_texture_rt_overrides
  cached,      \* ids in s_texture_cache
  screen,      \* what was presented last
  executed,    \* history: numbers of the commands executed on each surface
  last         \* history: the attachments and the source of the last of them;
               \* depthOfFrame: the depth attachment was cleared for this frame

vars == <<header, number, passes, overrides, cached, screen, executed, last>>

Keys == Surfaces \cup {Drawable}
NoEncoder == [key |-> None, depth |-> FALSE]
Old == [cleared |-> FALSE, drawn |-> <<>>]      \* of an earlier frame
Cleared == [cleared |-> TRUE, drawn |-> <<>>]
NotDrawn == [kind |-> "none", at |-> 0, key |-> None, depth |-> FALSE,
             depthOfFrame |-> FALSE, reads |-> None, from |-> None]

\* Nothing is open, nothing has been seen; depth: which depth textures hold
\* values of this frame; refused: Metal gave no encoder for a pass of it.
FreshPasses ==
  [encoder |-> NoEncoder, seen |-> {}, colour |-> [k \in Keys |-> Old], depth |-> {},
   refused |-> FALSE]

NothingExecuted == [s \in Surfaces |-> <<>>]

Init ==
  /\ header = [primary |-> None, count |-> 0]
  /\ number = 0
  /\ passes = FreshPasses
  /\ overrides = [x \in Textures |-> None]
  /\ cached = {}
  /\ screen = Cleared
  /\ executed = NothingExecuted
  /\ last = NotDrawn

-----------------------------------------------------------------------------
\* Passes.

\* Commands for the surface that is presented go to the drawable.
KeyOf(s) == IF s = header.primary THEN Drawable ELSE s

\* A new pass on a target ends the one before.  The target counts as seen even
\* when Metal gives no encoder.
OpenPass(p, key, depth, ok) ==
  LET first == key \notin p.seen
  IN  [encoder |-> IF ok THEN [key |-> key, depth |-> depth] ELSE NoEncoder,
       seen |-> p.seen \cup {key},
       colour |-> IF ok /\ first
                    THEN [p.colour EXCEPT ![key] = Cleared] ELSE p.colour,
       depth |-> IF ok /\ first /\ depth THEN p.depth \cup {key} ELSE p.depth,
       refused |-> p.refused \/ ~ok]

\* Mutant: the number of the target is not compared.
AnyPass(p, key, depth, ok) ==
  IF p.encoder # NoEncoder THEN p ELSE OpenPass(p, key, depth, ok)

\* A draw goes on in the open pass when that has the same target.
PassFor(p, key, depth, ok) ==
  IF p.encoder.key = key THEN p ELSE OpenPass(p, key, depth, ok)

EndPass(p) == [p EXCEPT !.encoder = NoEncoder]

\* The command is encoded into the open pass.
Encoded(p, n) ==
  [p EXCEPT !.colour[p.encoder.key].drawn = Append(@, n)]

\* Metal keeps what it was asked for, unless it may fail.
Metal == IF MayFail THEN BOOLEAN ELSE {TRUE}

-----------------------------------------------------------------------------
\* A new frame, with a drawable to show it.
BeginFrame(primary, count) ==
  /\ number = 0
  /\ header' = [primary |-> primary, count |-> count]
  /\ number' = 1
  /\ passes' = FreshPasses
  /\ executed' = NothingExecuted
  /\ last' = NotDrawn
  /\ UNCHANGED <<overrides, cached, screen>>

MoreCommands == number \in 1..header.count

\* May a command of the game read from s.
Reads(s) == s = None \/ s # header.primary \/ ReadsPresented

\* The surface a texture id belongs to, if any.
SurfaceOf(x) ==
  IF \E s \in Surfaces : Linked[s] = x
    THEN CHOOSE s \in Surfaces : Linked[s] = x ELSE None

\* A command that is left out before a pass is touched: no geometry, no render
\* target id, no texture for the target or for the source.
SkipCommand ==
  /\ MoreCommands
  /\ number' = number + 1
  /\ UNCHANGED <<header, passes, overrides, cached, screen, executed, last>>

\* texture_for_draw_stage: an override first, then data that came with the
\* draw, then what is cached.  `resolved` is the key of the texture or "data".
Resolves(x, uploads) == overrides[x] # None \/ uploads \/ x \in cached

Caches(x, uploads) ==
  IF x # None /\ uploads /\ overrides[x] = None THEN cached \cup {x} ELSE cached

\* A draw that opens its pass and is then left out: the encoder or the vertex
\* declaration is missing, a texture is not there, or shaders or geometry are
\* not usable although the textures have been resolved.
DrawLeftOut(s, x, uploads, depth, ok) ==
  /\ MoreCommands
  /\ number' = number + 1
  /\ passes' = PassFor(passes, KeyOf(s), depth, ok)
  /\ cached' \in {cached, IF ok THEN Caches(x, uploads) ELSE cached}
  /\ UNCHANGED <<header, overrides, screen, executed, last>>

\* What is drawn off screen can be sampled from then on.
Link(s) ==
  IF KeyOf(s) # Drawable /\ Linked[s] # None
    THEN [overrides EXCEPT ![Linked[s]] = s] ELSE overrides

Executed(s) == [executed EXCEPT ![s] = Append(@, number)]

\* A draw that samples the texture x, or none.
Draw(s, x, uploads, depth) ==
  /\ MoreCommands
  /\ x # None => Resolves(x, uploads) /\ Reads(SurfaceOf(x))
  /\ LET open == PassFor(passes, KeyOf(s), depth, TRUE)
     IN  /\ passes' = Encoded(open, number)
         /\ last' = [kind |-> "draw", at |-> number, key |-> open.encoder.key,
                     depth |-> open.encoder.depth,
                     depthOfFrame |-> open.encoder.key \in open.depth,
                     reads |-> IF x = None THEN None ELSE SurfaceOf(x),
                     from |-> IF x = None THEN None ELSE overrides[x]]
  /\ number' = number + 1
  /\ cached' = Caches(x, uploads)
  /\ overrides' = Link(s)
  /\ executed' = Executed(s)
  /\ UNCHANGED <<header, screen>>

\* Mutant: the cache is asked first.
BlitSourceCacheFirst(q) ==
  IF Linked[q] \in cached THEN None
  ELSE IF Linked[q] # None /\ overrides[Linked[q]] # None THEN overrides[Linked[q]]
  ELSE q

\* The texture a blit reads: what is linked to the source's texture id, what is
\* cached for it (here None: data of the game), or the one kept for the source.
BlitSource(q) ==
  IF Linked[q] # None /\ overrides[Linked[q]] # None THEN overrides[Linked[q]]
  ELSE IF Linked[q] \in cached THEN None
  ELSE q

\* StretchRect always opens a pass of its own, without depth.
StretchRect(s, q, ok) ==
  /\ MoreCommands
  /\ Reads(q)
  /\ LET open == OpenPass(passes, KeyOf(s), FALSE, ok)
     IN  IF ok
           THEN /\ passes' = Encoded(open, number)
                /\ overrides' = Link(s)
                /\ executed' = Executed(s)
                /\ last' = [kind |-> "blit", at |-> number, key |-> KeyOf(s), depth |-> FALSE,
                            depthOfFrame |-> FALSE, reads |-> q,
                            from |-> BlitSource(q)]
           ELSE /\ passes' = open
                /\ UNCHANGED <<overrides, executed, last>>
  /\ number' = number + 1
  /\ UNCHANGED <<header, cached, screen>>

\* A blit whose sizes are zero is found out only after its pass has been opened.
StretchRectEmpty(s) ==
  /\ MoreCommands
  /\ passes' = EndPass(OpenPass(passes, KeyOf(s), FALSE, TRUE))
  /\ number' = number + 1
  /\ UNCHANGED <<header, overrides, cached, screen, executed, last>>

\* Mutant: the overlay is drawn into whatever pass is open.
OverlaidAnywhere(depth, ok) ==
  IF header.count > 0 THEN AnyPass(passes, Drawable, depth, ok) ELSE passes

\* The overlay bar needs a pass on the drawable; it is drawn when the frame has
\* commands.
Overlaid(depth, ok) ==
  IF header.count > 0 THEN PassFor(passes, Drawable, depth, ok) ELSE passes

FrameDone == number > header.count

\* Mutant: the target of the pass that is still open is shown.
CommitOpenPass(depth) ==
  /\ FrameDone
  /\ passes' = EndPass(Overlaid(depth, TRUE))
  /\ screen' = IF passes.encoder = NoEncoder
                 THEN passes'.colour[Drawable] ELSE passes'.colour[passes.encoder.key]
  /\ number' = 0
  /\ UNCHANGED <<header, overrides, cached, executed, last>>

\* presentDrawable and commit.
CommitFrame(depth) ==
  /\ FrameDone
  /\ passes' = EndPass(Overlaid(depth, TRUE))
  /\ screen' = passes'.colour[Drawable]
  /\ number' = 0
  /\ UNCHANGED <<header, overrides, cached, executed, last>>

\* Without an encoder for the overlay the command buffer is not committed.
AbandonFrame ==
  /\ FrameDone
  /\ MayFail
  /\ header.count > 0 /\ passes.encoder.key # Drawable
  /\ number' = 0
  /\ passes' = [FreshPasses EXCEPT !.refused = TRUE]
  /\ executed' = NothingExecuted
  /\ UNCHANGED <<header, overrides, cached, screen, last>>

Next ==
  \/ \E primary \in Surfaces \cup {None}, count \in 0..MaxCommands :
       BeginFrame(primary, count)
  \/ SkipCommand
  \/ \E s \in Surfaces, x \in Textures \cup {None}, uploads \in BOOLEAN,
        depth \in Metal, ok \in Metal : DrawLeftOut(s, x, uploads, depth, ok)
  \/ \E s \in Surfaces, x \in Textures \cup {None}, uploads \in BOOLEAN,
        depth \in Metal : Draw(s, x, uploads, depth)
  \/ \E s, q \in Surfaces, ok \in Metal : StretchRect(s, q, ok)
  \/ \E s \in Surfaces : StretchRectEmpty(s)
  \/ \E depth \in Metal : CommitFrame(depth)
  \/ AbandonFrame

Spec == Init /\ [][Next]_vars

-----------------------------------------------------------------------------
\* Properties.

Contents == [cleared : BOOLEAN, drawn : Seq(Nat)]
PassState ==
  [encoder : [key : Keys \cup {None}, depth : BOOLEAN], seen : SUBSET Keys,
   colour : [Keys -> Contents], depth : SUBSET Keys, refused : BOOLEAN]

\* The state holds values of the expected kind, and an open pass is one of
\* the targets of the frame.
TypeOK ==
  /\ header \in [primary : Surfaces \cup {None}, count : 0..MaxCommands]
  /\ number \in Nat
  /\ passes \in PassState
  /\ overrides \in [Textures -> Surfaces \cup {None}]
  /\ cached \in SUBSET Textures
  /\ screen \in Contents
  /\ executed \in [Surfaces -> Seq(Nat)]

\* render_frame: pass changes lose nothing and mix nothing.  Every surface holds
\* exactly the commands executed for it in the frame, in order, wherever they
\* were interrupted by commands for other surfaces, and they lie on a cleared
\* target unless Metal refused a pass.
SurfacesHoldTheFrame ==
  \A s \in Surfaces :
    /\ passes.colour[KeyOf(s)].drawn = executed[s]
    /\ executed[s] # <<>> /\ ~passes.refused => passes.colour[KeyOf(s)].cleared

\* texture_for_draw_stage and StretchRect: a command that reads a surface drawn
\* earlier in the frame reads the texture those commands went to.
LastReadIsCurrent ==
  LET q == last.reads
      drawnBefore == \E i \in DOMAIN executed[q] : executed[q][i] < last.at
  IN  q # None /\ drawnBefore => last.from = KeyOf(q)

\* The overlay's pass makes up for a frame that never touched the drawable:
\* what is shown of a frame with commands lies on a cleared target.
FramesWithCommandsAreCleared ==
  number = 0 /\ header.count > 0 /\ ~passes.refused => screen.cleared

\* The open pass is on a target seen in this frame, only seen targets hold
\* commands, and they are cleared unless Metal refused a pass.
PassesOK(p) ==
  /\ p \in PassState
  /\ p.encoder.key # None => p.encoder.key \in p.seen
  /\ \A k \in Keys : p.colour[k].drawn # <<>> => k \in p.seen
  /\ ~p.refused => \A k \in p.seen : p.colour[k].cleared

\* No two surfaces belong to the same texture.
OwnTextures ==
  \A s, r \in Surfaces : Linked[s] = Linked[r] /\ Linked[s] # None => s = r

\* What was drawn off screen in this frame is linked.
LinksAreCurrent ==
  \A s \in Surfaces :
    executed[s] # <<>> /\ s # header.primary /\ Linked[s] # None
      => overrides[Linked[s]] = s

\* The inductive invariant of render_frame: what holds of its passes, its links
\* and its history between two commands.
IInv ==
  /\ TypeOK
  /\ PassesOK(passes)
  /\ \A s \in Surfaces : passes.colour[KeyOf(s)].drawn = executed[s]
  /\ header.primary = None => passes.colour[Drawable].drawn = <<>>
  /\ FramesWithCommandsAreCleared
  /\ OwnTextures => LinksAreCurrent
  /\ last.reads \in Surfaces \cup {None}
  /\ last.at \in Nat
  /\ number # 0 => last.at < number

\* render_frame shows what a replay of the frame means (TargetImages): each
\* frame from cleared surfaces, every command on its own surface or nowhere,
\* and on the screen the commands of the surface named by the frame's present
\* and of no other, those of no earlier frame, and none when it names none.
Meaning == INSTANCE TargetImages WITH
  presented <- header.primary, at <- number, image <- executed,
  screen <- screen.drawn, Nowhere <- None

ImplementsImages == Meaning!Spec

\* docs/insights.md:180: depth and target routing must not leak from one draw
\* into the next.  Every draw has the depth attachment its pipeline is made for,
\* with values of its own frame.  The code does not keep this: a draw goes on in
\* the pass of a blit to its target, which has no depth, and after a blit loads
\* the depth values of an earlier frame.
DrawsHaveDepth == last.kind = "draw" => last.depth /\ last.depthOfFrame

\* README.md:53: the viewer replays Clear.  What is shown lies on a cleared
\* target.  Kept only for frames with commands (FramesWithCommandsAreCleared):
\* without any, no pass is opened.
ClearIsShown == screen.cleared
=============================================================================
