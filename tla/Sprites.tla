------------------------------ MODULE Sprites -------------------------------
(***************************************************************************)
(* The sprites of a line (breeze_core/ppu/sprites.rs, oam.rs): which of    *)
(* them the PPU takes, which of their tiles it loads, and which sprite a   *)
(* dot of the line shows.                                                  *)
(*                                                                         *)
(* A sprite is the entry OAM has for it: position, size, flips, priority,  *)
(* whether its palette is one of the first four (opaque), and what its     *)
(* character data is told apart by: the dots, as <<column, row>> from its  *)
(* upper left corner before flipping, that are transparent.                *)
(***************************************************************************)
EXTENDS Integers, Sequences, FiniteSets, SequencesExt

CONSTANTS
  Sprite,     \* number of sprites: 128
  RangeMax,   \* sprites taken for a line: 32
  TimeMax,    \* tiles loaded for a line: 34
  TileSize,   \* 8
  Width,      \* dots of a line: 256
  Sizes       \* <<width, height>> of small (FALSE) and large (TRUE) sprites

ASSUME SpritesAssumption ==
  /\ Sprite \in Nat \ {0} /\ RangeMax \in Nat /\ TimeMax \in Nat
  /\ TileSize \in Nat \ {0} /\ Width \in Nat \ {0}
  /\ \A large \in BOOLEAN : \A d \in 1..2 : Sizes[large][d] \in Nat \ {0}
                                            /\ Sizes[large][d] % TileSize = 0

SpriteType ==
  [x : -Width..(Width - 1), y : Nat, large : BOOLEAN, prio : 0..3, opaque : BOOLEAN,
   hflip : BOOLEAN, vflip : BOOLEAN, clear : SUBSET (Nat \X Nat)]

SpriteWidth(s) == Sizes[s.large][1]
SpriteHeight(s) == Sizes[s.large][2]

-----------------------------------------------------------------------------
(* Range.                                                                  *)

\* A sprite at -256 counts as one at 0.
SpriteOnScanline(s, line) ==
  /\ -SpriteWidth(s) < (IF s.x = -Width THEN 0 ELSE s.x)
  /\ s.y <= line /\ line < s.y + SpriteHeight(s)

\* The sprite in place p of priority.
At(first, p) == (first + p) % Sprite

\* The sprites on the line, from the first in priority: of those in the first
\* n places, and of all.
OnLine(oam, first, line) ==
  LET found[n \in 0..Sprite] ==
        IF n = 0 THEN <<>>
        ELSE LET i == At(first, n - 1)
             IN  IF SpriteOnScanline(oam[i], line) THEN Append(found[n - 1], i) ELSE found[n - 1]
  IN  found[Sprite]

Prefix(s, n) == SubSeq(s, 1, IF Len(s) < n THEN Len(s) ELSE n)

\* Mutant: the sprites that are taken are the last ones.
VisibleLast(oam, first, line) ==
  LET all == OnLine(oam, first, line)
  IN  SubSeq(all, IF Len(all) > RangeMax THEN Len(all) - RangeMax + 1 ELSE 1, Len(all))

Visible(oam, first, line) == Prefix(OnLine(oam, first, line), RangeMax)

RangeOver(oam, first, line) == Len(OnLine(oam, first, line)) > RangeMax

-----------------------------------------------------------------------------
(* Time.                                                                   *)

\* How many tiles a sprite has in a row.
TilesWide(s) == SpriteWidth(s) \div TileSize

\* The tiles of a sprite in a row, in the order they are stored.
RowOf(oam, i) == [t \in 1..TilesWide(oam[i]) |-> [sprite |-> i, tile |-> t - 1]]

\* The last sprite comes first, so that the tiles that are left out are
\* those of sprites in front.
TilesOf(oam, visible) == FlattenSeq([k \in 1..Len(visible) |-> RowOf(oam, Reverse(visible)[k])])

LoadedTiles(oam, first, line) == Prefix(TilesOf(oam, Visible(oam, first, line)), TimeMax)

TimeOver(oam, first, line) == Len(TilesOf(oam, Visible(oam, first, line))) > TimeMax

-----------------------------------------------------------------------------
(* The line.                                                               *)

\* Where on the screen a tile starts.
TileX(s, tile) ==
  s.x + TileSize * (IF s.hflip THEN TilesWide(s) - tile - 1 ELSE tile)

\* The dot of the sprite a dot of a tile on the screen shows.  Tile and dot
\* within the tile are flipped one by one.
DotOf(s, tile, off, line) ==
  LET dy == line - s.y
      row == IF s.vflip THEN (SpriteHeight(s) - dy - 1) \div TileSize ELSE dy \div TileSize
      y == dy % TileSize
  IN  << TileSize * tile + (IF s.hflip THEN TileSize - off - 1 ELSE off),
         TileSize * row + (IF s.vflip THEN TileSize - y - 1 ELSE y) >>

\* Whether a loaded tile has a dot at x that is not transparent.
Covers(oam, t, line, x) ==
  LET s == oam[t.sprite]
      off == x - TileX(s, t.tile)
  IN  off \in 0..(TileSize - 1) /\ DotOf(s, t.tile, off, line) \notin s.clear

NoSprite == [sprite |-> -1, prio |-> -1, opaque |-> FALSE]

\* Tiles are drawn in the order they were loaded, over each other.
SpriteLine(oam, first, line) ==
  LET loaded == LoadedTiles(oam, first, line)
  IN  [x \in 0..(Width - 1) |->
        LET covering == {k \in DOMAIN loaded : Covers(oam, loaded[k], line, x)}
        IN  IF covering = {} THEN NoSprite
            ELSE LET i == loaded[Max(covering)].sprite
                 IN  [sprite |-> i, prio |-> oam[i].prio, opaque |-> oam[i].opaque]]

-----------------------------------------------------------------------------
(* What the line promises, stated by the place p of a sprite in priority.  *)

\* How many sprites in front of place p are on the line.
InFront(oam, first, line, p) ==
  Cardinality({q \in 0..(p - 1) : SpriteOnScanline(oam[At(first, q)], line)})

InRange(oam, first, line, p) ==
  SpriteOnScanline(oam[At(first, p)], line) /\ InFront(oam, first, line, p) < RangeMax

\* The tiles loaded before those of place p: all of the sprites in range behind it.
TilesBehind(oam, first, line, p) ==
  LET behind == {q \in (p + 1)..(Sprite - 1) : InRange(oam, first, line, q)}
  IN  Cardinality(UNION {{q} \X (1..TilesWide(oam[At(first, q)])) : q \in behind})

\* Whether place p has a dot at x: its mirror image, if flipped, has one
\* there, and the tile it is in is one of the first TimeMax.
HasDot(oam, first, line, x, p) ==
  LET s == oam[At(first, p)]
      dx == IF s.hflip THEN SpriteWidth(s) - 1 - (x - s.x) ELSE x - s.x
      dy == IF s.vflip THEN SpriteHeight(s) - 1 - (line - s.y) ELSE line - s.y
  IN  /\ InRange(oam, first, line, p)
      /\ dx \in 0..(SpriteWidth(s) - 1) /\ <<dx, dy>> \notin s.clear
      /\ TilesBehind(oam, first, line, p) + dx \div TileSize < TimeMax

\* The sprite shown is the first in priority that has a dot there.
FrontSprite(oam, first, line, x) ==
  LET places == {p \in 0..(Sprite - 1) : HasDot(oam, first, line, x, p)}
  IN  IF places = {} THEN -1
      ELSE At(first, CHOOSE p \in places : \A q \in places : p <= q)

=============================================================================
