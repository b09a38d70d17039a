-------------------------- MODULE MCHeadSelection --------------------------
(***************************************************************************)
(* An instance of HeadSelection for TLC.                                   *)
(***************************************************************************)
EXTENDS HeadSelection

\* Each of MANUAL and ONCE is used without the other, so that the property
\* that excludes the one is still checked with the other.
EitherHabit == {{"ONCE", "LOOP"}, {"LOOP", "MANUAL", "BEAT"}}
=============================================================================
