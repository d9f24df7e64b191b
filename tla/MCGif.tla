-------------------------------- MODULE MCGif --------------------------------
EXTENDS Gif

(* A tag of no quads that ends its packet, one of a single quad that does, *)
(* and an image that another tag follows.                                  *)
MCTags ==
  {[tag |-> TRUE, n |-> 0, eop |-> TRUE, image |-> FALSE],
   [tag |-> TRUE, n |-> 1, eop |-> TRUE, image |-> FALSE],
   [tag |-> TRUE, n |-> 1, eop |-> FALSE, image |-> TRUE]}
=============================================================================
