-------------------------- MODULE MCFileDownloads --------------------------
(* Small instances of FileDownloads: two files and two TDLib ids, which name *)
(* the files the other way round after a restart.                           *)
EXTENDS FileDownloads, TLC

CONSTANTS photo, video, id1, id2, c1, r1, r2

InOrder == (id1 :> photo) @@ (id2 :> video)

EitherWay == {InOrder, (id1 :> video) @@ (id2 :> photo)}

(* The progress of the photo can be seen, the video comes in one piece. *)
Sizes == (photo :> 2) @@ (video :> 1)

Ones == (photo :> 1) @@ (video :> 1)

OneWay == {InOrder}

(* Swapping the files together with their ids, and the rows. *)
Swap == (photo :> video) @@ (video :> photo) @@ (id1 :> id2) @@ (id2 :> id1)

RowSwaps == Permutations({r1, r2})

Symmetry == RowSwaps \cup {p @@ Swap : p \in RowSwaps}

=============================================================================
