-------------------------- MODULE MCControlSurface --------------------------
(***************************************************************************)
(* Instances of ControlSurface for TLC.                                    *)
(***************************************************************************)
EXTENDS ControlSurface

\* What the entries of headControls that nobody sets hold: no control.
Uninitialised == {-1}

\* The second half of a key event of a surface on another channel.
ForeignTraffic == {[channel |-> Channel + 1, number |-> 47, value |-> 64]}
=============================================================================
