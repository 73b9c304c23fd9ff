------------------------- MODULE ViewerReplay_proofs -------------------------
(***************************************************************************)
(* ViewerReplay for any surfaces, textures, links and number of commands,  *)
(* with and without failing encoders.                                      *)
(***************************************************************************)
EXTENDS ViewerReplay, TLAPS

\* A pass on a target keeps what every target holds.
SameDrawn(p, q) == \A k \in Keys : q.colour[k].drawn = p.colour[k].drawn

LEMMA OpenPassOK ==
  ASSUME NEW p, PassesOK(p), NEW key \in Keys, NEW depth \in BOOLEAN,
         NEW ok \in BOOLEAN
  PROVE  /\ PassesOK(OpenPass(p, key, depth, ok))
         /\ SameDrawn(p, OpenPass(p, key, depth, ok))
         /\ key \in OpenPass(p, key, depth, ok).seen
         /\ ok => OpenPass(p, key, depth, ok).encoder.key = key
<1> DEFINE q == OpenPass(p, key, depth, ok)
<1>1. None \notin Keys
  BY ReplayAssumption DEF Keys
<1>2. /\ q.encoder \in [key : Keys \cup {None}, depth : BOOLEAN]
      /\ q.seen = p.seen \cup {key} /\ q.seen \in SUBSET Keys
      /\ q.depth \in SUBSET Keys /\ q.refused \in BOOLEAN
      /\ q.refused <=> p.refused \/ ~ok
      /\ q.encoder.key \in {key, None}
      /\ ok => q.encoder.key = key
  BY DEF OpenPass, PassesOK, PassState, NoEncoder
<1>3. CASE ok /\ key \notin p.seen
  <2>1. q.colour = [p.colour EXCEPT ![key] = Cleared]
    BY <1>3 DEF OpenPass
  <2>2. Cleared \in Contents /\ Cleared.drawn = <<>> /\ Cleared.cleared
    BY DEF Cleared, Contents
  <2>3. q.colour \in [Keys -> Contents]
    BY <2>1, <2>2 DEF PassesOK, PassState
  <2>4. SameDrawn(p, q)
    <3>1. /\ p.colour \in [Keys -> Contents] /\ p.colour[key].drawn = <<>>
      BY <1>3 DEF PassesOK, PassState
    <3>2. QED
      BY <2>1, <2>2, <3>1 DEF SameDrawn
  <2>5. ~q.refused => \A k \in q.seen : q.colour[k].cleared
    BY <1>2, <2>1, <2>2 DEF PassesOK, PassState
  <2>6. q \in PassState
    BY <1>2, <2>3 DEF OpenPass, PassState
  <2>7. QED
    BY <1>2, <2>4, <2>5, <2>6 DEF PassesOK, SameDrawn
<1>4. CASE ~(ok /\ key \notin p.seen)
  <2>1. q.colour = p.colour
    BY <1>4 DEF OpenPass
  <2>2. q \in PassState
    BY <1>2, <2>1 DEF OpenPass, PassState, PassesOK
  <2>3. ~q.refused => \A k \in q.seen : q.colour[k].cleared
    BY <1>2, <1>4, <2>1 DEF PassesOK
  <2>4. QED
    BY <1>2, <2>1, <2>2, <2>3 DEF PassesOK, SameDrawn
<1>5. QED
  BY <1>3, <1>4

LEMMA PassForOK ==
  ASSUME NEW p, PassesOK(p), NEW key \in Keys, NEW depth \in BOOLEAN,
         NEW ok \in BOOLEAN
  PROVE  /\ PassesOK(PassFor(p, key, depth, ok))
         /\ SameDrawn(p, PassFor(p, key, depth, ok))
         /\ ok => PassFor(p, key, depth, ok).encoder.key = key
         /\ ok => key \in PassFor(p, key, depth, ok).seen
<1>1. CASE p.encoder.key = key
  BY <1>1, ReplayAssumption DEF PassFor, SameDrawn, PassesOK, Keys
<1>2. CASE p.encoder.key # key
  BY <1>2, OpenPassOK DEF PassFor
<1>3. QED
  BY <1>1, <1>2
\* What is encoded is added to the target of the open pass.
AddedTo(q, p, key, n) ==
  /\ PassesOK(q)
  /\ q.colour[key].drawn = Append(p.colour[key].drawn, n)
  /\ \A k \in Keys \ {key} : q.colour[k] = p.colour[k]

LEMMA EncodedOK ==
  ASSUME NEW p, PassesOK(p), NEW key \in Keys, p.encoder.key = key,
         NEW n \in Nat
  PROVE  AddedTo(Encoded(p, n), p, key, n)
<1> DEFINE q == Encoded(p, n)
           c == [p.colour[key] EXCEPT !.drawn = Append(@, n)]
<1>1. key \in p.seen
  BY ReplayAssumption DEF PassesOK, Keys
<1>2. /\ p.colour \in [Keys -> Contents] /\ p.colour[key] \in Contents
      /\ p.colour[key].drawn \in Seq(Nat)
  BY DEF PassesOK, PassState, Contents
<1> DEFINE longer == Append(p.colour[key].drawn, n)
<1>0. longer \in Seq(Nat)
  BY <1>2
<1>3. /\ c \in Contents /\ c.drawn = Append(p.colour[key].drawn, n)
      /\ c.cleared = p.colour[key].cleared
  <2>1. c = [p.colour[key] EXCEPT !.drawn = longer]
    OBVIOUS
  <2> HIDE DEF longer, c
  <2>2. /\ c \in Contents /\ c.drawn = longer
        /\ c.cleared = p.colour[key].cleared
    BY <1>0, <1>2, <2>1 DEF Contents
  <2>3. QED
    BY <2>2 DEF longer
<1>4. /\ q = [p EXCEPT !.colour = [p.colour EXCEPT ![key] = c]]
      /\ p \in PassState
  BY DEF Encoded, PassesOK
<1> HIDE DEF c
<1>5. /\ q.colour = [p.colour EXCEPT ![key] = c]
      /\ q.encoder = p.encoder /\ q.seen = p.seen /\ q.depth = p.depth
      /\ q.refused = p.refused
  BY <1>4 DEF PassState
<1>6. q \in PassState
  <2>1. [p.colour EXCEPT ![key] = c] \in [Keys -> Contents]
    BY <1>2, <1>3
  <2>2. QED
    BY <1>4, <2>1 DEF PassState
<1> HIDE DEF q
<1>7. q.colour[key] = c /\ \A k \in Keys \ {key} : q.colour[k] = p.colour[k]
  BY <1>2, <1>5
<1>8. PassesOK(q)
  BY <1>1, <1>3, <1>5, <1>6, <1>7 DEF PassesOK
<1>9. QED
  BY <1>3, <1>7, <1>8 DEF q, AddedTo

LEMMA FreshPassesOK ==
  /\ PassesOK(FreshPasses)
  /\ \A k \in Keys : FreshPasses.colour[k].drawn = <<>>
<1>1. Old \in Contents /\ Old.drawn = <<>>
  BY DEF Old, Contents
<1>2. FreshPasses.colour = [k \in Keys |-> Old] /\ FreshPasses.seen = {}
  BY DEF FreshPasses
<1>3. FreshPasses \in PassState /\ FreshPasses.encoder.key = None
  BY <1>1 DEF FreshPasses, PassState, NoEncoder
<1>4. QED
  BY <1>1, <1>2, <1>3 DEF PassesOK

LEMMA KeysDiffer ==
  /\ \A s \in Surfaces : KeyOf(s) \in Keys
  /\ \A s, r \in Surfaces : KeyOf(s) = KeyOf(r) => s = r
  /\ \A s \in Surfaces : KeyOf(s) = Drawable <=> s = header.primary
BY ReplayAssumption DEF KeyOf, Keys

LEMMA InvInit == Init => IInv
<1> SUFFICES ASSUME Init PROVE IInv
  OBVIOUS
<1>1. PassesOK(passes) /\ \A k \in Keys : passes.colour[k].drawn = <<>>
  BY FreshPassesOK DEF Init
<1>2. Cleared \in Contents
  BY DEF Cleared, Contents
<1>3. executed \in [Surfaces -> Seq(Nat)] /\ \A s \in Surfaces : executed[s] = <<>>
  BY DEF Init, NothingExecuted
<1>4. TypeOK
  BY <1>1, <1>2, <1>3, ReplayAssumption DEF Init, TypeOK, PassesOK
<1>5. last.reads = None /\ last.at = 0 /\ number = 0 /\ header.count = 0
  BY DEF Init, NotDrawn
<1>6. \A s \in Surfaces : passes.colour[KeyOf(s)].drawn = executed[s]
  BY <1>1, <1>3, KeysDiffer
<1>7. passes.colour[Drawable].drawn = <<>>
  BY <1>1 DEF Keys
<1>8. QED
  BY <1>1, <1>3, <1>4, <1>5, <1>6, <1>7
     DEF IInv, FramesWithCommandsAreCleared, LinksAreCurrent

\* A command that is encoded into a pass on the target of its surface.
LEMMA CommandKeepsInv ==
  ASSUME IInv, MoreCommands, NEW s \in Surfaces, NEW open, PassesOK(open),
         SameDrawn(passes, open), open.encoder.key = KeyOf(s),
         passes' = Encoded(open, number), executed' = Executed(s),
         overrides' = Link(s), number' = number + 1,
         UNCHANGED <<header, screen>>, cached' \in SUBSET Textures,
         last'.at = number, last'.reads \in Surfaces \cup {None}
  PROVE  IInv'
<1>1. /\ KeyOf(s) \in Keys /\ number \in Nat /\ number' \in Nat /\ number' # 0
      /\ last'.at < number'
  BY KeysDiffer DEF IInv, TypeOK, MoreCommands
<1>2. /\ PassesOK(passes')
      /\ passes'.colour[KeyOf(s)].drawn = Append(open.colour[KeyOf(s)].drawn, number)
      /\ \A k \in Keys \ {KeyOf(s)} : passes'.colour[k] = open.colour[k]
  <2> DEFINE target == KeyOf(s)
  <2>1. target \in Keys /\ open.encoder.key = target /\ number \in Nat
    BY <1>1
  <2> HIDE DEF target
  <2>2. /\ PassesOK(Encoded(open, number))
        /\ Encoded(open, number).colour[target].drawn
             = Append(open.colour[target].drawn, number)
        /\ \A k \in Keys \ {target} :
             Encoded(open, number).colour[k] = open.colour[k]
    <3>1. PassesOK(open)
      OBVIOUS
    <3>2. AddedTo(Encoded(open, number), open, target, number)
      BY <2>1, <3>1, EncodedOK, Zenon
    <3>3. QED
      BY <3>2 DEF AddedTo
  <2>3. passes' = Encoded(open, number)
    OBVIOUS
  <2>4. QED
    BY <2>2, <2>3 DEF target
<1>3. /\ executed' \in [Surfaces -> Seq(Nat)]
      /\ executed'[s] = Append(executed[s], number)
      /\ \A r \in Surfaces \ {s} : executed'[r] = executed[r]
  BY <1>1 DEF IInv, TypeOK, Executed
<1>4. overrides' \in [Textures -> Surfaces \cup {None}]
  BY ReplayAssumption DEF IInv, TypeOK, Link
<1>5. PassesOK(passes)'
  BY <1>2 DEF PassesOK, PassState, Contents, Keys
<1>6. TypeOK'
  BY <1>1, <1>3, <1>4, <1>5 DEF IInv, TypeOK, PassesOK
<1>7. ASSUME NEW r \in Surfaces
      PROVE  (passes.colour[KeyOf(r)].drawn = executed[r])'
  <2>1. /\ KeyOf(r)' = KeyOf(r) /\ KeyOf(r) \in Keys
        /\ open.colour[KeyOf(r)].drawn = executed[r]
    BY KeysDiffer DEF IInv, KeyOf, SameDrawn
  <2>2. CASE r = s
    BY <1>2, <1>3, <2>1, <2>2
  <2>3. CASE r # s
    BY <1>2, <1>3, <2>1, <2>3, KeysDiffer, SMTT(60)
  <2>4. QED
    BY <2>2, <2>3
<1>8. (header.primary = None => passes.colour[Drawable].drawn = <<>>)'
  <2> SUFFICES ASSUME header.primary = None
               PROVE  passes'.colour[Drawable].drawn = <<>>
    OBVIOUS
  <2>1. Drawable \in Keys \ {KeyOf(s)}
    BY ReplayAssumption, KeysDiffer DEF Keys
  <2>2. QED
    BY <1>2, <2>1 DEF IInv, SameDrawn
<1>9. (OwnTextures => LinksAreCurrent)'
  <2> SUFFICES ASSUME OwnTextures, NEW r \in Surfaces, executed'[r] # <<>>,
                      r # header.primary, Linked[r] # None
               PROVE  overrides'[Linked[r]] = r
    BY DEF LinksAreCurrent, OwnTextures
  <2>1. Linked[r] \in Textures /\ Linked[s] \in Textures \cup {None}
    BY ReplayAssumption
  <2>2. CASE r = s
    BY <2>1, <2>2, KeysDiffer DEF Link, IInv, TypeOK
  <2>3. CASE r # s
    <3>1. overrides[Linked[r]] = r
      BY <1>3, <2>3 DEF IInv, LinksAreCurrent
    <3>2. Linked[r] # Linked[s]
      BY <2>3 DEF OwnTextures
    <3>3. QED
      BY <2>1, <3>1, <3>2 DEF Link, IInv, TypeOK
  <2>4. QED
    BY <2>2, <2>3
<1>10. QED
  BY <1>1, <1>5, <1>6, <1>7, <1>8, <1>9 DEF IInv, FramesWithCommandsAreCleared

\* A step that executes no command, perhaps after it has opened a pass.
LEMMA SameContentsKeepInv ==
  ASSUME IInv, PassesOK(passes'), SameDrawn(passes, passes'), number' \in Nat,
         number' # 0 => last.at < number', cached' \in SUBSET Textures,
         screen' \in Contents, FramesWithCommandsAreCleared',
         UNCHANGED <<header, overrides, executed, last>>
  PROVE  IInv'
<1>2. PassesOK(passes)'
  BY DEF PassesOK, PassState, Contents, Keys
<1>3. TypeOK'
  BY <1>2 DEF IInv, TypeOK, PassesOK
<1>4. ASSUME NEW k \in Keys
      PROVE  passes'.colour[k].drawn = passes.colour[k].drawn
  BY DEF SameDrawn
<1>5. ASSUME NEW r \in Surfaces
      PROVE  (passes.colour[KeyOf(r)].drawn = executed[r])'
  BY <1>4, KeysDiffer DEF IInv, KeyOf
<1>6. (header.primary = None => passes.colour[Drawable].drawn = <<>>)'
  BY <1>4 DEF IInv, Keys
<1>8. QED
  BY <1>2, <1>3, <1>5, <1>6 DEF IInv, OwnTextures, LinksAreCurrent

\* A command that is left out.
LEMMA LeavingOutKeepsInv ==
  ASSUME IInv, MoreCommands, PassesOK(passes'), SameDrawn(passes, passes'),
         number' = number + 1, cached' \in SUBSET Textures,
         UNCHANGED <<header, overrides, screen, executed, last>>
  PROVE  IInv'
<1>1. number' \in Nat /\ number' # 0 /\ last.at < number' /\ screen' \in Contents
  BY DEF IInv, TypeOK, MoreCommands
<1>2. FramesWithCommandsAreCleared'
  BY <1>1 DEF FramesWithCommandsAreCleared
<1>3. QED
  BY <1>1, <1>2, SameContentsKeepInv

LEMMA NumberCounts ==
  ASSUME IInv, MoreCommands
  PROVE  number \in Nat /\ number \in 1..MaxCommands
BY ReplayAssumption DEF IInv, TypeOK, MoreCommands

LEMMA DoneCounts ==
  ASSUME IInv, FrameDone
  PROVE  number > 0
BY ReplayAssumption DEF IInv, TypeOK, FrameDone

\* A frame that begins or is abandoned: no pass and no command.
LEMMA NothingReplayedIsOK ==
  ASSUME IInv, header' \in [primary : Surfaces \cup {None}, count : 0..MaxCommands],
         number' \in Nat,
         passes' \in {FreshPasses, [FreshPasses EXCEPT !.refused = TRUE]},
         executed' = NothingExecuted, UNCHANGED <<overrides, cached, screen>>,
         last'.reads \in Surfaces \cup {None}, last'.at \in Nat,
         number' # 0 => last'.at < number',
         number' = 0 => passes' = [FreshPasses EXCEPT !.refused = TRUE]
  PROVE  IInv'
<1>1. /\ PassesOK(passes') /\ (number' = 0 => passes'.refused)
      /\ \A k \in Keys : passes'.colour[k].drawn = <<>>
  <2> DEFINE q == [FreshPasses EXCEPT !.refused = TRUE]
  <2>1. FreshPasses \in PassState
    BY FreshPassesOK DEF PassesOK
  <2>2. /\ q \in PassState /\ q.encoder = FreshPasses.encoder /\ q.refused
        /\ q.seen = FreshPasses.seen /\ q.colour = FreshPasses.colour
    BY <2>1 DEF PassState
  <2>3. FreshPasses.seen = {} /\ FreshPasses.encoder.key = None
    BY DEF FreshPasses, NoEncoder
  <2>4. PassesOK(q) /\ \A k \in Keys : q.colour[k].drawn = <<>>
    BY <2>2, <2>3, FreshPassesOK DEF PassesOK
  <2>5. QED
    BY <2>2, <2>4, FreshPassesOK
<1>2. PassesOK(passes)'
  BY <1>1 DEF PassesOK, PassState, Contents, Keys
<1>3. executed' \in [Surfaces -> Seq(Nat)] /\ \A s \in Surfaces : executed'[s] = <<>>
  BY DEF NothingExecuted
<1>4. TypeOK'
  BY <1>2, <1>3 DEF IInv, TypeOK, PassesOK
<1>5. \A s \in Surfaces : KeyOf(s)' \in Keys
  BY ReplayAssumption DEF KeyOf, Keys
<1>6. Drawable \in Keys
  BY DEF Keys
<1>7. QED
  BY <1>1, <1>2, <1>3, <1>4, <1>5, <1>6
     DEF IInv, FramesWithCommandsAreCleared, LinksAreCurrent

LEMMA MetalKeeps == \A ok \in Metal : ok \in BOOLEAN
BY ReplayAssumption DEF Metal

\* What a source is and how it is found: always a surface or data.
LEMMA SourceIsSurface == \A x : SurfaceOf(x) \in Surfaces \cup {None}
BY DEF SurfaceOf

\* Ending a pass changes no content.
LEMMA EndPassOK ==
  ASSUME NEW p, PassesOK(p)
  PROVE  /\ PassesOK(EndPass(p)) /\ SameDrawn(p, EndPass(p))
         /\ EndPass(p).colour = p.colour /\ EndPass(p).seen = p.seen
         /\ EndPass(p).refused = p.refused
BY DEF EndPass, PassesOK, PassState, NoEncoder, SameDrawn

\* The overlay keeps the commands of the drawable, which it clears if no other
\* pass did.
LEMMA OverlayKeepsDrawable ==
  ASSUME IInv, NEW depth \in Metal
  PROVE  LET q == Overlaid(depth, TRUE)
         IN  /\ PassesOK(q) /\ SameDrawn(passes, q)
             /\ header.count > 0 => Drawable \in q.seen
<1>1. Drawable \in Keys /\ depth \in BOOLEAN /\ PassesOK(passes)
  BY MetalKeeps DEF Keys, IInv
<1>2. LET q == PassFor(passes, Drawable, depth, TRUE)
      IN  /\ PassesOK(q) /\ SameDrawn(passes, q) /\ Drawable \in q.seen
  <2> DEFINE q == PassFor(passes, Drawable, depth, TRUE)
  <2> HIDE DEF q
  <2>1. PassesOK(q) /\ SameDrawn(passes, q) /\ Drawable \in q.seen
    BY <1>1, PassForOK DEF q
  <2>2. QED
    BY <2>1 DEF q
<1>3. QED
  BY <1>1, <1>2 DEF Overlaid, SameDrawn

LEMMA CommittedPasses ==
  ASSUME IInv, NEW depth \in Metal, CommitFrame(depth)
  PROVE  /\ PassesOK(passes') /\ SameDrawn(passes, passes')
         /\ header.count > 0 => Drawable \in passes'.seen
<1> DEFINE q == Overlaid(depth, TRUE)
<1>1. /\ PassesOK(q) /\ SameDrawn(passes, q)
      /\ header.count > 0 => Drawable \in q.seen
  BY OverlayKeepsDrawable
<1>2. passes' = EndPass(q)
  BY DEF CommitFrame
<1> HIDE DEF q
<1>3. QED
  BY <1>1, <1>2, EndPassOK DEF SameDrawn

LEMMA InvNext == IInv /\ [Next]_vars => IInv'
<1> SUFFICES ASSUME IInv, [Next]_vars PROVE IInv'
  OBVIOUS
<1> USE NumberCounts, MetalKeeps, KeysDiffer
<1>1. ASSUME NEW primary \in Surfaces \cup {None}, NEW count \in 0..MaxCommands,
             BeginFrame(primary, count)
      PROVE  IInv'
  BY <1>1, NothingReplayedIsOK DEF BeginFrame, NotDrawn, IInv, TypeOK
<1>2. CASE SkipCommand
  <2>1. PassesOK(passes) /\ SameDrawn(passes, passes)
    BY DEF IInv, SameDrawn
  <2>2. QED
    BY <1>2, <2>1, LeavingOutKeepsInv DEF SkipCommand, IInv, TypeOK
<1>3. ASSUME NEW s \in Surfaces, NEW x \in Textures \cup {None},
             NEW uploads \in BOOLEAN, NEW depth \in Metal, NEW ok \in Metal,
             DrawLeftOut(s, x, uploads, depth, ok)
      PROVE  IInv'
  <2>1. PassesOK(passes') /\ SameDrawn(passes, passes')
    BY <1>3, PassForOK DEF DrawLeftOut, IInv
  <2>2. cached' \in SUBSET Textures
    BY <1>3 DEF DrawLeftOut, Caches, IInv, TypeOK
  <2>3. QED
    BY <1>3, <2>1, <2>2, LeavingOutKeepsInv DEF DrawLeftOut
<1>4. ASSUME NEW s \in Surfaces, NEW x \in Textures \cup {None},
             NEW uploads \in BOOLEAN, NEW depth \in Metal,
             Draw(s, x, uploads, depth)
      PROVE  IInv'
  <2> DEFINE open == PassFor(passes, KeyOf(s), depth, TRUE)
  <2>1. PassesOK(open) /\ SameDrawn(passes, open) /\ open.encoder.key = KeyOf(s)
    <3>1. KeyOf(s) \in Keys /\ depth \in BOOLEAN /\ PassesOK(passes)
      BY DEF IInv
    <3> HIDE DEF open
    <3>2. QED
      BY <3>1, PassForOK, ZenonT(40) DEF open
  <2>2. cached' \in SUBSET Textures
    BY <1>4 DEF Draw, Caches, IInv, TypeOK
  <2>3. last'.at = number /\ last'.reads \in Surfaces \cup {None}
    BY <1>4, SourceIsSurface DEF Draw
  <2>4. /\ passes' = Encoded(open, number) /\ executed' = Executed(s)
        /\ overrides' = Link(s) /\ number' = number + 1 /\ MoreCommands
        /\ UNCHANGED <<header, screen>>
    BY <1>4 DEF Draw
  <2> HIDE DEF open
  <2>5. QED
    BY <2>1, <2>2, <2>3, <2>4, CommandKeepsInv
<1>5. ASSUME NEW s \in Surfaces, NEW q \in Surfaces, NEW ok \in Metal,
             StretchRect(s, q, ok)
      PROVE  IInv'
  <2> DEFINE open == OpenPass(passes, KeyOf(s), FALSE, ok)
  <2>1. /\ PassesOK(open) /\ SameDrawn(passes, open)
        /\ ok => open.encoder.key = KeyOf(s)
    <3>1. KeyOf(s) \in Keys /\ ok \in BOOLEAN /\ PassesOK(passes)
      BY DEF IInv
    <3> HIDE DEF open
    <3>2. QED
      BY <3>1, OpenPassOK DEF open
  <2>2. CASE ok
    <3>1. last'.at = number /\ last'.reads \in Surfaces \cup {None}
      BY <1>5, <2>2 DEF StretchRect
    <3>2. /\ passes' = Encoded(open, number) /\ executed' = Executed(s)
          /\ overrides' = Link(s) /\ number' = number + 1 /\ MoreCommands
          /\ UNCHANGED <<header, screen>> /\ cached' \in SUBSET Textures
      BY <1>5, <2>2 DEF StretchRect, IInv, TypeOK
    <3> HIDE DEF open
    <3>3. QED
      BY <2>1, <2>2, <3>1, <3>2, CommandKeepsInv
  <2>3. CASE ~ok
    <3>1. /\ passes' = open /\ number' = number + 1 /\ MoreCommands
          /\ cached' \in SUBSET Textures
          /\ UNCHANGED <<header, overrides, screen, executed, last>>
      BY <1>5, <2>3 DEF StretchRect, IInv, TypeOK
    <3> HIDE DEF open
    <3>2. QED
      BY <2>1, <3>1, LeavingOutKeepsInv
  <2>4. QED
    BY <2>2, <2>3
<1>6. ASSUME NEW s \in Surfaces, StretchRectEmpty(s)
      PROVE  IInv'
  <2> DEFINE open == OpenPass(passes, KeyOf(s), FALSE, TRUE)
  <2>1. PassesOK(open) /\ SameDrawn(passes, open)
    BY OpenPassOK DEF IInv
  <2>2. PassesOK(EndPass(open)) /\ SameDrawn(passes, EndPass(open))
    <3> HIDE DEF open
    <3>1. QED
      BY <2>1, EndPassOK DEF SameDrawn
  <2>3. passes' = EndPass(open) /\ cached' \in SUBSET Textures
    BY <1>6 DEF StretchRectEmpty, IInv, TypeOK
  <2>4. QED
    BY <1>6, <2>2, <2>3, LeavingOutKeepsInv DEF StretchRectEmpty
<1>7. ASSUME NEW depth \in Metal, CommitFrame(depth)
      PROVE  IInv'
  <2>1. /\ PassesOK(passes') /\ SameDrawn(passes, passes')
        /\ screen' = passes'.colour[Drawable] /\ number' = 0
        /\ header.count > 0 => Drawable \in passes'.seen
        /\ UNCHANGED <<header, overrides, cached, executed, last>>
    BY <1>7, CommittedPasses DEF CommitFrame
  <2>2. screen' \in Contents /\ FramesWithCommandsAreCleared'
    BY <2>1 DEF FramesWithCommandsAreCleared, PassesOK, PassState, Keys
  <2>3. QED
    BY <2>1, <2>2, SameContentsKeepInv DEF IInv, TypeOK
<1>8. CASE AbandonFrame
  BY <1>8, NothingReplayedIsOK DEF AbandonFrame, IInv, TypeOK
<1>9. CASE UNCHANGED vars
  <2>1. /\ passes' = passes /\ number' = number /\ cached' = cached
        /\ screen' = screen
        /\ UNCHANGED <<header, overrides, executed, last>>
    BY <1>9 DEF vars
  <2>2. PassesOK(passes') /\ SameDrawn(passes, passes')
    BY <2>1 DEF IInv, SameDrawn
  <2>3. FramesWithCommandsAreCleared'
    BY <2>1 DEF IInv, FramesWithCommandsAreCleared
  <2>4. QED
    BY <2>1, <2>2, <2>3, SameContentsKeepInv DEF IInv, TypeOK
<1>10. QED
  BY <1>1, <1>2, <1>3, <1>4, <1>5, <1>6, <1>7, <1>8, <1>9 DEF Next

\* Types: every pass and every link is of a surface of the game or the window.
THEOREM TypeCorrect == Spec => []TypeOK
<1>1. IInv => TypeOK
  BY DEF IInv
<1>2. QED
  BY InvInit, InvNext, <1>1, PTL DEF Spec

\* The inductive invariant of render_frame holds of every frame.
THEOREM InvHolds == Spec => []IInv
BY InvInit, InvNext, PTL DEF Spec

\* Pass changes lose nothing and mix nothing, for any number of surfaces and
\* commands in any order.
THEOREM SurfacesHold == Spec => []SurfacesHoldTheFrame
<1>1. IInv => SurfacesHoldTheFrame
  BY KeysDiffer DEF IInv, SurfacesHoldTheFrame, PassesOK
<1>2. QED
  BY InvInit, InvNext, <1>1, PTL DEF Spec

\* A frame with commands is shown over a cleared drawable.
THEOREM ShownCleared == Spec => []FramesWithCommandsAreCleared
<1>1. IInv => FramesWithCommandsAreCleared
  BY DEF IInv
<1>2. QED
  BY InvInit, InvNext, <1>1, PTL DEF Spec

\* render_frame implements the meaning of a frame.
THEOREM ImagesRefined == Spec => ImplementsImages
<1>1. Init => Meaning!Init
  BY DEF Init, Meaning!Init, Meaning!Blank, NothingExecuted, Cleared
<1>2. IInv /\ [Next]_vars => [Meaning!Next]_(Meaning!imageVars)
  <2> SUFFICES ASSUME IInv, [Next]_vars
               PROVE  [Meaning!Next]_(Meaning!imageVars)
    OBVIOUS
  <2>1. ASSUME NEW primary \in Surfaces \cup {None}, NEW count \in 0..MaxCommands,
               BeginFrame(primary, count)
        PROVE  Meaning!Begin(primary)
    BY <2>1 DEF BeginFrame, Meaning!Begin, Meaning!Blank, NothingExecuted
  <2>2. ASSUME NEW s \in Surfaces, MoreCommands, number' = number + 1,
               executed' = Executed(s), UNCHANGED <<header, screen>>
        PROVE  Meaning!Next
    <3>1. number > 0
      BY <2>2, NumberCounts
    <3>2. Meaning!Command(s)
      BY <2>2, <3>1 DEF Executed, Meaning!Command
    <3>3. QED
      BY <3>2 DEF Meaning!Next
  <2>3. ASSUME NEW depth \in Metal, CommitFrame(depth)
        PROVE  Meaning!Show
    <3>1. screen'.drawn = passes.colour[Drawable].drawn
      BY <2>3, CommittedPasses DEF CommitFrame, SameDrawn, Keys
    <3>2. header.primary \in Surfaces \cup {None}
      BY DEF IInv, TypeOK
    <3>3. screen'.drawn = IF header.primary = None THEN <<>> ELSE executed[header.primary]
      BY <3>1, <3>2, ReplayAssumption DEF IInv, KeyOf
    <3>4. number > 0
      BY <2>3, DoneCounts DEF CommitFrame
    <3>5. QED
      BY <2>3, <3>3, <3>4 DEF CommitFrame, Meaning!Show
  <2>4. CASE AbandonFrame
    <3>1. number > 0
      BY <2>4, DoneCounts DEF AbandonFrame
    <3>2. QED
      BY <2>4, <3>1 DEF AbandonFrame, Meaning!Next, Meaning!Abandon, Meaning!Blank,
         NothingExecuted
  <2>5. ASSUME MoreCommands, number' = number + 1, UNCHANGED <<header, executed, screen>>
        PROVE  Meaning!Next
    <3>1. number > 0
      BY <2>5, NumberCounts
    <3>2. QED
      BY <2>5, <3>1 DEF Meaning!Next, Meaning!LeaveOut
  <2>6. CASE SkipCommand
    BY <2>5, <2>6 DEF SkipCommand
  <2>7. CASE \E s \in Surfaces, x \in Textures \cup {None}, uploads \in BOOLEAN,
                depth \in Metal, ok \in Metal : DrawLeftOut(s, x, uploads, depth, ok)
    BY <2>5, <2>7 DEF DrawLeftOut
  <2>8. CASE \E s \in Surfaces, x \in Textures \cup {None}, uploads \in BOOLEAN,
                depth \in Metal : Draw(s, x, uploads, depth)
    BY <2>2, <2>8 DEF Draw
  <2>9. CASE \E s, q \in Surfaces, ok \in Metal : StretchRect(s, q, ok)
    <3>1. PICK s \in Surfaces, q \in Surfaces, ok \in Metal : StretchRect(s, q, ok)
      BY <2>9
    <3>2. CASE ok
      BY <2>2, <3>1, <3>2 DEF StretchRect
    <3>3. CASE ~ok
      BY <2>5, <3>1, <3>3 DEF StretchRect
    <3>4. QED
      BY <3>2, <3>3
  <2>10. CASE \E s \in Surfaces : StretchRectEmpty(s)
    BY <2>5, <2>10 DEF StretchRectEmpty
  <2>11. CASE UNCHANGED vars
    BY <2>11 DEF vars, Meaning!imageVars
  <2>12. CASE \E primary \in Surfaces \cup {None}, count \in 0..MaxCommands :
                BeginFrame(primary, count)
    BY <2>1, <2>12 DEF Meaning!Next
  <2>13. CASE \E depth \in Metal : CommitFrame(depth)
    BY <2>3, <2>13 DEF Meaning!Next
  <2>14. QED
    BY <2>4, <2>6, <2>7, <2>8, <2>9, <2>10, <2>11, <2>12, <2>13 DEF Next
<1>3. QED
  BY InvInit, InvNext, <1>1, <1>2, PTL DEF Spec, ImplementsImages, Meaning!Spec

\* What a command finds drawn before it was drawn when it began.
LEMMA DrawnEarlier ==
  ASSUME IInv, MoreCommands, NEW s \in Surfaces, NEW q \in Surfaces,
         executed' = Executed(s),
         \E i \in DOMAIN executed'[q] : executed'[q][i] < number
  PROVE  executed[q] # <<>>
<1> SUFFICES ASSUME executed[q] = <<>> PROVE FALSE
  OBVIOUS
<1>1. number \in Nat /\ executed \in [Surfaces -> Seq(Nat)]
  BY NumberCounts DEF IInv, TypeOK
<1>2. executed'[q] = <<>> \/ executed'[q] = Append(<<>>, number)
  BY <1>1 DEF Executed
<1>3. Append(<<>>, number) = <<number>>
  BY <1>1
<1>4. QED
  BY <1>1, <1>2, <1>3

LEMMA ReadKeptStep ==
  ASSUME LastReadIsCurrent, UNCHANGED <<header, executed, last>>
  PROVE  LastReadIsCurrent'
BY DEF LastReadIsCurrent, KeyOf

LEMMA ReadsNext ==
  ASSUME OwnTextures, ~ReadsPresented, IInv, LastReadIsCurrent, [Next]_vars
  PROVE  LastReadIsCurrent'
<1>1. ASSUME NEW s \in Surfaces, MoreCommands, executed' = Executed(s),
             UNCHANGED header, last'.at = number,
             last'.reads \in Surfaces => Reads(last'.reads),
             last'.reads \in Surfaces /\ executed[last'.reads] # <<>>
               /\ last'.reads # header.primary => last'.from = last'.reads,
             last'.reads \in Surfaces \cup {None}
      PROVE  LastReadIsCurrent'
  <2> SUFFICES ASSUME last'.reads # None,
                      \E i \in DOMAIN executed'[last'.reads] :
                        executed'[last'.reads][i] < last'.at
               PROVE  last'.from = KeyOf(last'.reads)
    BY <1>1 DEF LastReadIsCurrent, KeyOf
  <2>1. last'.reads \in Surfaces /\ executed[last'.reads] # <<>>
    BY <1>1, DrawnEarlier
  <2>2. last'.reads # header.primary
    BY <1>1, <2>1, ReplayAssumption DEF Reads
  <2>3. QED
    BY <1>1, <2>1, <2>2 DEF KeyOf
<1>2. LinksAreCurrent
  BY DEF IInv
<1>3. ASSUME NEW s \in Surfaces, NEW x \in Textures \cup {None},
             NEW uploads \in BOOLEAN, NEW depth \in Metal,
             Draw(s, x, uploads, depth)
      PROVE  LastReadIsCurrent'
  <2>1. CASE x = None
    <3>1. last'.reads = None /\ last'.at = number
      BY <1>3, <2>1 DEF Draw
    <3>2. QED
      BY <3>1 DEF LastReadIsCurrent
  <2>2. CASE x # None
    <3>1. /\ last'.reads = SurfaceOf(x) /\ last'.from = overrides[x]
          /\ last'.at = number /\ Reads(SurfaceOf(x)) /\ MoreCommands
          /\ executed' = Executed(s) /\ UNCHANGED header
      BY <1>3, <2>2 DEF Draw
    <3>2. SurfaceOf(x) \in Surfaces => Linked[SurfaceOf(x)] = x
      BY ReplayAssumption DEF SurfaceOf
    <3>3. QED
      BY <1>1, <1>2, <2>2, <3>1, <3>2, SourceIsSurface DEF LinksAreCurrent
  <2>3. QED
    BY <2>1, <2>2
<1>4. ASSUME NEW s \in Surfaces, NEW q \in Surfaces, NEW ok \in Metal,
             StretchRect(s, q, ok)
      PROVE  LastReadIsCurrent'
  <2>1. CASE ok
    <3>1. /\ last'.reads = q /\ last'.from = BlitSource(q) /\ Reads(q)
          /\ last'.at = number /\ MoreCommands
          /\ executed' = Executed(s) /\ UNCHANGED header
      BY <1>4, <2>1 DEF StretchRect
    <3>2. None \notin cached /\ q # None
      BY ReplayAssumption DEF IInv, TypeOK
    <3>3. executed[q] # <<>> /\ q # header.primary => BlitSource(q) = q
      BY <1>2, <3>2 DEF BlitSource, LinksAreCurrent
    <3>4. QED
      BY <1>1, <3>1, <3>3
  <2>2. CASE ~ok
    BY <1>4, <2>2, ReadKeptStep DEF StretchRect
  <2>3. QED
    BY <2>1, <2>2
<1>5. ASSUME NEW primary, NEW count, BeginFrame(primary, count)
      PROVE  LastReadIsCurrent'
  BY <1>5 DEF BeginFrame, NotDrawn, LastReadIsCurrent
<1>6. ASSUME executed' = NothingExecuted, UNCHANGED last
      PROVE  LastReadIsCurrent'
  BY <1>6 DEF NothingExecuted, LastReadIsCurrent, IInv
<1>7. CASE SkipCommand \/ UNCHANGED vars
  BY <1>7, ReadKeptStep DEF SkipCommand, vars
<1>8. ASSUME NEW s, NEW x, NEW uploads, NEW depth, NEW ok,
             DrawLeftOut(s, x, uploads, depth, ok)
      PROVE  LastReadIsCurrent'
  BY <1>8, ReadKeptStep DEF DrawLeftOut
<1>9. ASSUME NEW s, StretchRectEmpty(s)
      PROVE  LastReadIsCurrent'
  BY <1>9, ReadKeptStep DEF StretchRectEmpty
<1>10. (\E depth \in Metal : CommitFrame(depth)) \/ AbandonFrame
         => LastReadIsCurrent'
  BY <1>6, ReadKeptStep DEF CommitFrame, AbandonFrame
<1>11. QED
  BY <1>3, <1>4, <1>5, <1>7, <1>8, <1>9, <1>10 DEF Next

\* A command that reads what the frame drew off screen before reads exactly the
\* texture it was drawn into, if no two surfaces share a texture and the game
\* does not read the surface it presents.
THEOREM ReadsCurrent ==
  ASSUME OwnTextures, ~ReadsPresented
  PROVE  Spec => []LastReadIsCurrent
<1>1. Init => LastReadIsCurrent
  BY DEF Init, NotDrawn, LastReadIsCurrent
<1>2. IInv /\ LastReadIsCurrent /\ [Next]_vars => LastReadIsCurrent'
  BY ReadsNext
<1>3. QED
  BY InvInit, InvNext, <1>1, <1>2, PTL DEF Spec
=============================================================================
