--------------------------- MODULE MCAssetStorage ---------------------------
(* AssetStorage for TLC: contents on both sides of every limit. *)
EXTENDS AssetStorage, TLC

CONSTANTS r1, r2

\* Empty, text, not text, at both limits and beyond them, with and without the
\* stream of a video.
SmallContents ==
    {[size |-> 0, is |-> "text"], [size |-> 1, is |-> "text"], [size |-> 1, is |-> "rights"],
     [size |-> 1, is |-> "noise"], [size |-> 2, is |-> "movie"], [size |-> 1, is |-> "sound"],
     [size |-> 3, is |-> "text"]}

Interchangeable == Permutations(Requests)
=============================================================================
