------------------------------- MODULE MCImages -------------------------------
(* An instance of Images for TLC. *)
EXTENDS Images

\* Nothing is left to do but to embed the caption.
PixelsDone == \A j \in {caption, imageEmbed} : state[j] = "succeeded"

\* What is promised of an image is promised of its row, and a row that was
\* pruned does not come back: no script is followed beyond that.  A second
\* script, and a script beside the pruning, are followed on an image that is
\* done up to its caption's embedding, the one job two scripts meet at.
Explored ==
  /\ captionStatus = "none" => ops = 0
  /\ (ops = 2 \/ (ops = 1 /\ pruning # "no")) => PixelsDone

===============================================================================
