-------------------------- MODULE MCFrameSequencer --------------------------
(***************************************************************************)
(* An instance of FrameSequencer for TLC.                                  *)
(***************************************************************************)
EXTENDS FrameSequencer

\* Three children, the middle one empty.
WithEmpty == [c \in 0..2 |-> IF c = 1 THEN 0 ELSE 1]

\* A head alone with every mode and with repeats; a head and the editor's
\* preview without Pingpong.
AloneOrWithout ==
    {[playing |-> {"head"}, modes |-> Modes, repeats |-> 0..MaxRepeats],
     [playing |-> {"head", "preview"}, modes |-> Modes \ {"Pingpong"}, repeats |-> {0}]}
=============================================================================
