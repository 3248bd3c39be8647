------------------------------ MODULE Render --------------------------------
(***************************************************************************)
(* How the PPU draws a frame (breeze_core/ppu: rendering.rs, bg.rs,        *)
(* sprites.rs and Ppu::update): dot by dot, from a line of each background *)
(* rendered when it is first looked up and a line of sprites collected at  *)
(* the first dot.  Between two dots the program stores to registers, VRAM, *)
(* OAM and CGRAM as it likes.                                              *)
(*                                                                         *)
(* What a program has set up is one of Setups; gen counts the changes, so  *)
(* that a rendered dot can be told from what it would be now.  A dot has   *)
(* no colour here: which layer it comes from, when that was rendered and   *)
(* whether colour math is applied to it are what the properties are about. *)
(***************************************************************************)
EXTENDS Sprites, Screen

CONSTANTS
  Height,        \* lines 1 to Height - 1 are drawn: 224
  Setups,        \* settings of a program, see SetupType
  MaxChanges     \* bound of the model: changes of settings

VARIABLES
  x, line,       \* Ppu::x and scanline
  regs, gen,     \* what the program has set up; how often it changed that
  cache,         \* bg_cache: of a background, whether it is valid, and its dots
  spriteLine,    \* sprite_render_state: of a dot, the sprite and its priority
  rangeOver, timeOver,   \* the flags of overflow
  shown,         \* the dot drawn last: its layer, colour math and what is there
  begun,         \* history: a background was looked up at the first dot of the line
  collected,     \* history: sprites were collected on this line
  origin         \* history: what they were collected from

renderVars == <<x, line, regs, gen, cache, spriteLine, rangeOver, timeOver, shown,
          begun, collected, origin>>

Bgs == 1..4
OBJ == 5
BACKDROP == 6
BLACK == 0                \* forced blank
Layers == Bgs \cup {OBJ}
CLEAR == -1               \* a transparent dot of a background

\* A mask: which windows it uses, which it inverts, and how it combines them.
MaskType == [on : SUBSET {1, 2}, inv : SUBSET {1, 2}, op : {"or", "and", "xor", "xnor"}]

SetupType ==
  [blank : BOOLEAN, mode : 0..7, front : BOOLEAN,     \* BGMODE: BG 3 in front
   tm : SUBSET Layers, ts : SUBSET Layers,            \* on the main screen, the subscreen
   tmw : SUBSET Layers, tsw : SUBSET Layers,          \* that use their mask
   window : [{1, 2} -> (0..Width) \X (0..Width)],
   mask : [Layers \cup {BACKDROP} -> MaskType],       \* the last one is for colours
   math : SUBSET (Layers \cup {BACKDROP}),            \* CGADSUB
   region : {"all", "inside", "outside", "none"},     \* CGWSEL: where it applies
   sub : BOOLEAN,                                     \* with the subscreen
   pic : [Bgs -> {CLEAR, 0, 1}],                      \* what VRAM has: a priority
   first : 0..(Sprite - 1), oam : [0..(Sprite - 1) -> SpriteType]]

ASSUME RenderAssumption ==
  /\ Width < Dots /\ Height \in 2..(Lines - 1)
  /\ MaxChanges \in Nat
  /\ Setups \subseteq SetupType

-----------------------------------------------------------------------------
(* Layers.                                                                 *)

S(prio) == <<OBJ, prio>>
B(bg, prio) == <<bg, prio>>

BG3First(r) == IF r.mode = 1 /\ r.front THEN <<B(3, 1)>> ELSE <<>>
BG3Later(r) == IF r.mode = 1 /\ ~r.front THEN <<B(3, 1)>> ELSE <<>>

\* Mutant: in mode 0 the sprites of priority 1 are behind BG 3 and 4.
OrderSwapped(r) ==
  <<S(3), B(1, 1), B(2, 1), S(2), B(1, 0), B(2, 0), B(3, 1), B(4, 1), S(1), S(0), B(3, 0), B(4, 0)>>

\* The layers of a mode from front to back.  The extension of mode 7 is not
\* implemented: the renderer asserts that it is off.
Order(r) ==
  CASE r.mode = 0 -> <<S(3), B(1, 1), B(2, 1), S(2), B(1, 0), B(2, 0),
                       S(1), B(3, 1), B(4, 1), S(0), B(3, 0), B(4, 0)>>
    [] r.mode = 1 -> BG3First(r) \o <<S(3), B(1, 1), B(2, 1), S(2), B(1, 0), B(2, 0), S(1)>>
                     \o BG3Later(r) \o <<S(0), B(3, 0)>>
    [] r.mode \in 2..5 -> <<S(3), B(1, 1), S(2), B(2, 1), S(1), B(1, 0), S(0), B(2, 0)>>
    [] r.mode = 6 -> <<S(3), B(1, 1), S(2), S(1), B(1, 0), S(0)>>
    [] r.mode = 7 -> <<S(3), S(2), S(1), B(1, 0), S(0)>>

-----------------------------------------------------------------------------
(* Windows.                                                                *)

Inside(r, w) == r.window[w][1] <= x /\ x < r.window[w][2]

\* Mask::check
Masked(r, layer) ==
  LET m == r.mask[layer]
      In(w) == Inside(r, w) # (w \in m.inv)
  IN  CASE m.on = {} -> FALSE
        [] m.on = {1} -> In(1)
        [] m.on = {2} -> In(2)
        [] OTHER -> CASE m.op = "or" -> In(1) \/ In(2)
                      [] m.op = "and" -> In(1) /\ In(2)
                      [] m.op = "xor" -> In(1) # In(2)
                      [] m.op = "xnor" -> In(1) = In(2)

ColorMathEnabled(layer, opaque) ==
  /\ ~(layer = OBJ /\ opaque)
  /\ layer \in regs.math
  /\ CASE regs.region = "all" -> TRUE
       [] regs.region = "inside" -> Masked(regs, BACKDROP)
       [] regs.region = "outside" -> ~Masked(regs, BACKDROP)
       [] regs.region = "none" -> FALSE

-----------------------------------------------------------------------------
(* The lines of the backgrounds.                                           *)

\* What rendering a background gives: in mode 7 there is no priority.
Fresh(bg) ==
  [prio |-> IF regs.mode = 7 /\ regs.pic[bg] # CLEAR THEN 0 ELSE regs.pic[bg],
   gen |-> gen, now |-> TRUE]

\* Mutant: at the first dot, a valid line is taken for one of this line.
PixelCached(bg) == IF cache[bg].valid THEN cache[bg].row[x] ELSE Fresh(bg)

\* What a lookup finds at x.  At the first dot every lookup invalidates first.
Pixel(bg) == IF x = 0 \/ ~cache[bg].valid THEN Fresh(bg) ELSE cache[bg].row[x]

\* The backgrounds that are valid after a dot, given those looked up for it
\* and the last of them (a set of one).  At the first dot each lookup
\* invalidates what the one before has rendered.
ValidAfter(looked, last) ==
  IF x = 0 /\ looked # {} THEN last ELSE {bg \in Bgs : cache[bg].valid} \cup looked

\* Mutant: what is valid is rendered again.
RenderedAlways(looked) == looked

\* The backgrounds rendered from x to the end of the line.
Rendered(looked) == {bg \in looked : x = 0 \/ ~cache[bg].valid}

CacheAfter(looked, last) ==
  [bg \in Bgs |->
    [valid |-> bg \in ValidAfter(looked, last),
     row |-> [i \in 0..(Width - 1) |-> IF bg \in Rendered(looked) /\ i >= x
                                       THEN Fresh(bg) ELSE cache[bg].row[i]]]]

-----------------------------------------------------------------------------
(* A dot.                                                                  *)

\* get_raw_pixel with the screen's layers and masks: the places of Order
\* that are not transparent, not of another priority, and not masked.
Hits(sprites, on, masks) ==
  {k \in DOMAIN Order(regs) :
     LET layer == Order(regs)[k][1]
         prio == Order(regs)[k][2]
     IN  /\ layer \in on
         /\ prio = IF layer = OBJ THEN sprites[x].prio ELSE Pixel(layer).prio
         /\ ~(layer \in masks /\ Masked(regs, layer))}

\* The backgrounds looked up are those enabled down to the first hit.
RawPixel(sprites, on, masks) ==
  LET hits == Hits(sprites, on, masks)
      places == {k \in DOMAIN Order(regs) : /\ Order(regs)[k][1] \in Bgs \cap on
                                            /\ \A h \in hits : k <= h}
      BgAt(ks) == {Order(regs)[k][1] : k \in ks}
  IN  [layer |-> IF hits = {} THEN BACKDROP
                 ELSE Order(regs)[CHOOSE k \in hits : \A h \in hits : k <= h][1],
       looked |-> BgAt(places),
       last |-> BgAt({k \in places : \A j \in places : j <= k})]

\* What a dot shows, which backgrounds were looked up for it, and whether
\* colour math was applied.  The subscreen comes after the main screen.
Draw(sprites) ==
  LET main == RawPixel(sprites, regs.tm, regs.tmw)
      math == ColorMathEnabled(main.layer, sprites[x].opaque)
      sub == RawPixel(sprites, regs.ts, regs.tsw)
      both == math /\ regs.sub
  IN  [layer |-> main.layer, math |-> math,
       looked |-> main.looked \cup (IF both THEN sub.looked ELSE {}),
       last |-> IF both /\ sub.looked # {} THEN sub.last ELSE main.last]

\* render_pixel
RenderPixel ==
  LET sprites == IF x = 0 THEN SpriteLine(regs.oam, regs.first, line) ELSE spriteLine
      dot == Draw(sprites)
  IN  IF regs.blank
      THEN /\ shown' = [layer |-> BLACK, math |-> FALSE, pix |-> NoSprite, x |-> x]
           /\ UNCHANGED <<cache, spriteLine, rangeOver, timeOver, begun, collected, origin>>
      ELSE /\ spriteLine' = sprites
           /\ rangeOver' = (rangeOver \/ (x = 0 /\ RangeOver(regs.oam, regs.first, line)))
           /\ timeOver' = (timeOver \/ (x = 0 /\ TimeOver(regs.oam, regs.first, line)))
           /\ cache' = CacheAfter(dot.looked, dot.last)
           /\ shown' = [layer |-> dot.layer, math |-> dot.math, x |-> x,
                        pix |-> IF dot.layer \in Bgs THEN Pixel(dot.layer)
                                ELSE IF dot.layer = OBJ THEN sprites[x] ELSE NoSprite]
           /\ begun' = (begun \/ (x = 0 /\ dot.looked # {}))
           /\ collected' = (collected \/ x = 0)
           /\ origin' = IF x = 0 THEN [oam |-> regs.oam, first |-> regs.first, line |-> line]
                        ELSE origin

InHBlank == x >= Width
InVBlank == line = 0 \/ line >= Height

\* History: a line that is not the one drawn any more.
Ended(row) == [i \in 0..(Width - 1) |-> [row[i] EXCEPT !.now = FALSE]]

\* Ppu::update.  Flags of overflow would be reset at the first dot of line
\* 0, which is never drawn.
Update ==
  /\ x' = NextDot(x) /\ line' = NextLine(x, line)
  /\ \/ ~InHBlank /\ ~InVBlank /\ RenderPixel
     \/ /\ InHBlank \/ InVBlank
        /\ shown' = shown
        /\ UNCHANGED <<spriteLine, rangeOver, timeOver, origin>>
        /\ IF x + 1 = Dots    \* history: a line ends
           THEN /\ begun' = FALSE /\ collected' = FALSE
                /\ cache' = [bg \in Bgs |-> [valid |-> cache[bg].valid, row |-> Ended(cache[bg].row)]]
           ELSE UNCHANGED <<begun, collected, cache>>
  /\ UNCHANGED <<regs, gen>>

\* The program, or the restoration of a saved state, which leaves the cached
\* lines as they are.
Configure(setup) ==
  /\ gen < MaxChanges /\ setup # regs
  /\ regs' = setup
  /\ gen' = gen + 1
  /\ UNCHANGED <<x, line, cache, spriteLine, rangeOver, timeOver, shown,
                 begun, collected, origin>>

-----------------------------------------------------------------------------
RenderInit ==
  /\ x = 0 /\ line = 0
  /\ regs \in Setups /\ gen = 0
  /\ cache = [bg \in Bgs |-> [valid |-> FALSE,
                row |-> [i \in 0..(Width - 1) |-> [prio |-> CLEAR, gen |-> 0, now |-> FALSE]]]]
  /\ spriteLine = [i \in 0..(Width - 1) |-> NoSprite]
  /\ rangeOver = FALSE /\ timeOver = FALSE
  /\ shown = [layer |-> BLACK, math |-> FALSE, pix |-> NoSprite, x |-> 0]
  /\ begun = FALSE /\ collected = FALSE
  /\ origin = [oam |-> regs.oam, first |-> regs.first, line |-> 0]

RenderNext == Update \/ \E setup \in Setups : Configure(setup)

RenderSpec == RenderInit /\ [][RenderNext]_renderVars

-----------------------------------------------------------------------------
\* A dot of a background belongs to the line that is drawn, whatever was
\* enabled, blanked, masked or covered when, if a background was looked up
\* at the first dot of the line; if none was, it may be of an earlier line.
BackgroundOfThisLine == begun /\ shown.layer \in Bgs => shown.pix.now

\* Once a background has been looked up after the first dot, no store of
\* the program in the middle of the line changes what it shows there.
LineIsRenderedOnce ==
  [][\A bg \in Bgs : x # 0 /\ line' = line /\ cache[bg].valid => cache'[bg] = cache[bg]]_renderVars

\* The sprite of a dot is the one first in priority among those the PPU
\* takes and whose tile it loads, on the line it draws; sprites beyond the
\* limits are missed at the back of the range and at the front of the tiles.
\* Tiles count as the code loads them: in the order they are stored, a flipped
\* sprite's from the right, and whether on the screen or not.
SpritesInPriority ==
  collected =>
    /\ origin.line = line
    /\ \A i \in 0..(Width - 1) :
         spriteLine[i].sprite = FrontSprite(origin.oam, origin.first, line, i)
    /\ InFront(origin.oam, origin.first, line, Sprite) > RangeMax => rangeOver
    /\ TilesBehind(origin.oam, origin.first, line, -1) > TimeMax => timeOver

\* How far behind a layer is, as the table of the modes has it.
Depth(layer, prio) ==
  CASE layer = OBJ -> (IF regs.mode \in {0, 1} THEN 3 ELSE 2) * (3 - prio)
    [] layer \in 3..4 -> IF BG3First(regs) # <<>> /\ prio = 1 THEN -1 ELSE 3 * (3 - prio) + layer - 2
    [] OTHER -> IF regs.mode \in {0, 1} THEN 3 * (1 - prio) + layer
                ELSE 4 * (1 - prio) + 2 * layer - 1

BgsOfMode == CASE regs.mode = 0 -> 1..4 [] regs.mode = 1 -> 1..3
               [] regs.mode \in 2..5 -> 1..2 [] OTHER -> {1}

\* The layers that have a dot at x, with its priority.  After a switch to
\* mode 7 within a line a dot rendered before, with priority, is not drawn.
Candidates ==
  {<<bg, Pixel(bg).prio>> :
     bg \in {b \in BgsOfMode : Pixel(b).prio \in IF regs.mode = 7 THEN {0} ELSE {0, 1}}}
    \cup (IF spriteLine'[x] = NoSprite THEN {} ELSE {<<OBJ, spriteLine'[x].prio>>})

\* What is shown is in front of every other layer that has a dot there, is
\* on the main screen and is not masked.
FrontmostShown ==
  [][x' # x /\ ~InHBlank /\ ~InVBlank /\ ~regs.blank =>
       LET dots == {c \in Candidates : /\ c[1] \in regs.tm
                                       /\ ~(c[1] \in regs.tmw /\ Masked(regs, c[1]))}
       IN  IF dots = {} THEN shown'.layer = BACKDROP
           ELSE \E c \in dots : /\ shown'.layer = c[1]
                                 /\ \A d \in dots \ {c} : Depth(c[1], c[2]) < Depth(d[1], d[2])]_renderVars
=============================================================================
