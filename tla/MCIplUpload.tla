---------------------------- MODULE MCIplUpload ----------------------------
(* Bytes of three bits, so that a comparison is between -4 and 3.  The      *)
(* first upload has a block longer than a page, which takes the pointer     *)
(* from page 3 to page 4, where its high byte is negative, and a second one *)
(* of a single byte; the second upload ends exactly where its index wraps.  *)
EXTENDS IplUpload

MCReady == <<2, 3>>

Bytes(n) == [k \in 1..n |-> k % ByteSize]

Blk(d, n) == [dest |-> d, data |-> Bytes(n)]

MCUploads ==
  {[blocks |-> <<Blk(26, 10), Blk(12, 1)>>, entry |-> 26],
   [blocks |-> <<Blk(9, 8), Blk(47, 2)>>, entry |-> 9]}
=============================================================================
