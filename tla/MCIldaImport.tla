---------------------------- MODULE MCIldaImport ----------------------------
(***************************************************************************)
(* Instances of IldaImport for TLC.                                        *)
(***************************************************************************)
EXTENDS IldaImport

Sec(format, items) == [format |-> format, items |-> items]

\* A palette of three colours.  Tables that cover it and that do not, frames
\* that use its last colour, empty frames and tables, a table that is refused,
\* unknown formats and something that is no section.
MCDefault == <<"d0", "d1", "d2">>
MCTooMany == <<"many">>
MCSections == {Sec(0, <<0>>), Sec(1, <<1, 2>>), Sec(0, <<>>),
               Sec(2, <<"t0", "t1">>), Sec(2, <<"u0", "u1", "u2">>),
               Sec(3, <<"x0">>), Sec(3, <<"y0", "y1">>), Sec(3, <<>>), Sec(3, MCTooMany),
               Sec(5, <<"f0">>), Sec(9, <<"exact">>), Sec(9, <<"beyond">>), Sec(9, <<"short">>),
               Sec(99, <<>>)}
MCSecond == [sections |-> <<Sec(1, <<1, 2>>)>>, cut |-> "none"]
=============================================================================
