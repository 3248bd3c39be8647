------------------------------ MODULE MCRender ------------------------------
(* Three sprites of up to two tiles of two dots on a line of three dots; two *)
(* sprites and three tiles are taken.  Lines 1 and 2 are drawn.              *)
EXTENDS Render

MCSizes == [large \in BOOLEAN |-> IF large THEN <<4, 4>> ELSE <<2, 2>>]

Obj(at, large, prio, clear) ==
  [x |-> at, y |-> 1, large |-> large, prio |-> prio, opaque |-> prio = 3,
   hflip |-> FALSE, vflip |-> FALSE, clear |-> clear]

\* All on line 1, the last one before the left edge.
Crowd == [i \in 0..2 |->
  CASE i = 0 -> [Obj(0, TRUE, 1, {<<0, 0>>, <<3, 3>>}) EXCEPT !.hflip = TRUE]
    [] i = 1 -> [Obj(0, TRUE, 3, {<<1, 3>>, <<2, 2>>}) EXCEPT !.vflip = TRUE]
    [] i = 2 -> Obj(-1, FALSE, 2, {<<1, 1>>})]

\* One off the line, one at the position that counts as 0.
Edges == [i \in 0..2 |->
  CASE i = 0 -> Obj(-3, FALSE, 0, {}) [] i = 1 -> [Obj(1, FALSE, 0, {<<0, 0>>}) EXCEPT !.y = 2]
    [] i = 2 -> Obj(2, TRUE, 2, {<<0, 0>>})]

NoMask == [on |-> {}, inv |-> {}, op |-> "or"]

Base ==
  [blank |-> FALSE, mode |-> 0, front |-> FALSE, tm |-> Layers, ts |-> {}, tmw |-> {}, tsw |-> {},
   window |-> <<<<0, 1>>, <<1, 3>>>>, mask |-> [l \in Layers \cup {BACKDROP} |-> NoMask],
   math |-> {}, region |-> "all", sub |-> FALSE, pic |-> <<0, 1, 1, 0>>, first |-> 0, oam |-> Crowd]

Masking(op, inv) == [on |-> {1, 2}, inv |-> inv, op |-> op]

MCSetups ==
  { Base,
    [Base EXCEPT !.blank = TRUE],
    \* sprites alone, mixed with a subscreen of backgrounds
    [Base EXCEPT !.tm = {OBJ}, !.ts = Bgs, !.math = {OBJ, BACKDROP}, !.sub = TRUE, !.first = 1],
    \* backgrounds 1 and 3 from the second dot on
    [Base EXCEPT !.mode = 1, !.front = TRUE, !.tm = {1, 3}, !.tmw = {3}, !.pic = <<1, CLEAR, 1, CLEAR>>,
                 !.mask = [@ EXCEPT ![3] = Masking("xnor", {1})]],
    [Base EXCEPT !.mode = 3, !.tmw = {1, OBJ}, !.first = 2, !.oam = Edges, !.pic = <<1, 0, 1, 1>>,
                 !.mask = [@ EXCEPT ![1] = [on |-> {1}, inv |-> {1}, op |-> "or"],
                                    ![OBJ] = Masking("and", {2})]],
    [Base EXCEPT !.mode = 7, !.oam = Edges, !.pic = <<1, 1, CLEAR, CLEAR>>],
    [Base EXCEPT !.mode = 6, !.tm = {1, OBJ}, !.ts = {1}, !.sub = TRUE, !.math = {1, 6},
                 !.region = "inside", !.mask = [@ EXCEPT ![6] = Masking("or", {})]],
    [Base EXCEPT !.mode = 1, !.tm = {4}] }
=============================================================================
