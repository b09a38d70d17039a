---------------------------- MODULE MCShowEngine ----------------------------
(***************************************************************************)
(* Instances of ShowEngine for TLC.                                        *)
(***************************************************************************)
EXTENDS ShowEngine

CONSTANTS a, b, c, d,   \* frame sources
          f1, f2        \* show files

\* f1 is a show with a hole in it.
TwoFiles == f1 :> <<[pos |-> 1, frame |-> a]>> @@ f2 :> <<[pos |-> 0, frame |-> b]>>

OneNamed == <<f1>>

\* One ILDA file, one that cannot be read and then one that can, or none.
SomeImports == {<<c>>, <<Empty, c>>}
NoImports == {}
=============================================================================
