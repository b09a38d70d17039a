------------------------------ MODULE MCEditor ------------------------------
(***************************************************************************)
(* Instances of Editor for TLC.                                            *)
(***************************************************************************)
EXTENDS Editor

\* A colour rotator over a picture, with parameters that are not the default.
Rotated == [root |-> 1,
            heap |-> <<[ColourRotator EXCEPT !.kids = <<2>>,
                            !.data = [override |-> TRUE, harmonic |-> 500]],
                       StaticFrame("foreign")>>]
=============================================================================
