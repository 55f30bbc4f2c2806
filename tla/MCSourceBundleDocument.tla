----------------------- MODULE MCSourceBundleDocument -----------------------
(***************************************************************************)
(* Two documents of one bundle.  They are alike, so that only the order in  *)
(* which they connect is left out: the first is the one that connects first.*)
(* Two things go wrong at most: two faults, or a fault and an edit of a     *)
(* program outside the product.                                             *)
(***************************************************************************)
EXTENDS SourceBundleDocument

CONSTANTS t0, t1

InOrder == client'[2].st # "new" => client[1].st # "new"
TwoGoWrong == edits' + faults' <= 2

MCSpec == Init /\ [][Next /\ InOrder /\ TwoGoWrong]_vars
=============================================================================
