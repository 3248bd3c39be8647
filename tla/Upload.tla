------------------------------- MODULE Upload -------------------------------
(***************************************************************************)
(* What an upload to the sound processor promises: the bytes of a list of  *)
(* blocks reach its memory one after the other, each once and where its    *)
(* block has to be, and when all are there the program is entered.         *)
(***************************************************************************)
EXTENDS Naturals, Sequences

CONSTANTS
  Uploads,  \* [blocks : sequences of [dest, data], entry]
  Empty,    \* the memory before the first byte
  None      \* not entered yet

VARIABLES
  upload,      \* the upload under way
  ram,         \* the memory it goes to
  block, off,  \* the next byte: offset off in a block
  entered      \* the address at which the program was entered

uvars == <<upload, ram, block, off, entered>>

InBlocks == block <= Len(upload.blocks)

Begin ==
  /\ upload \in Uploads /\ ram = Empty
  /\ block = 1 /\ off = 0 /\ entered = None

Arrive ==
  /\ InBlocks /\ entered = None
  /\ LET b == upload.blocks[block]
     IN  /\ ram' = [ram EXCEPT ![b.dest + off] = b.data[off + 1]]
         /\ IF off + 1 = Len(b.data) THEN block' = block + 1 /\ off' = 0
                                     ELSE block' = block /\ off' = off + 1
  /\ UNCHANGED <<upload, entered>>

Enter ==
  /\ ~InBlocks /\ entered = None
  /\ entered' = upload.entry
  /\ UNCHANGED <<upload, ram, block, off>>

UploadSpec == Begin /\ [][Arrive \/ Enter]_uvars
=============================================================================
