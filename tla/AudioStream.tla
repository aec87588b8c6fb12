----------------------------- MODULE AudioStream -----------------------------
(***************************************************************************)
(* What the listener is promised.  Songs are put end to end on one stream, *)
(* and the decoder is fed from its head, block by block: no block is lost, *)
(* repeated or reordered.  The one thing that may remove sound is a cut,   *)
(* which silences everything that has not reached the decoder yet.         *)
(***************************************************************************)
EXTENDS Sequences

CONSTANTS Song,     \* the songs there are
          Block,    \* the 512-byte blocks there are
          Content,  \* Content[s]: the blocks of song s, in order
          Silence   \* what the decoder holds before the first block

VARIABLES pending,  \* the blocks still to reach the decoder
          heard     \* the block the decoder was fed last

StreamInit == pending = << >> /\ heard = Silence

BeginSong(s) == pending' = pending \o Content[s] /\ UNCHANGED heard

Hear ==
  /\ pending # << >>
  /\ heard' = Head(pending)
  /\ pending' = Tail(pending)

CutSound == pending' = << >> /\ UNCHANGED heard

StreamNext == (\E s \in Song : BeginSong(s)) \/ Hear \/ CutSound

StreamSpec == StreamInit /\ [][StreamNext]_<<pending, heard>>
=============================================================================
