----------------------------- MODULE MCResampler -----------------------------
(***************************************************************************)
(* Instances of Resampler for TLC.                                         *)
(***************************************************************************)
EXTENDS Resampler

\* 12000 points per second to 30000, the default, and back, and a rate that is
\* refused.
UpDownAndRefused == {<<2, 5>>, <<5, 2>>, <<1, 6>>}
=============================================================================
