----------------------------- MODULE MCEditFlow -----------------------------
(* EditFlow with two edits of a document just uploaded, or edited 9 times. *)
EXTENDS EditFlow

EarlierEdits == {0, 9}
NoEarlier == {0}
=============================================================================
