------------------------------ MODULE ByteStream ------------------------------
(***************************************************************************)
(* What a show file promises to the program that saves and loads it,       *)
(* whatever compression, buffers and disks do: a load gets the bytes that  *)
(* were saved, in their order and from the first one on, and is told of an *)
(* end only where the end is.  It may get fewer, when the file is not      *)
(* whole or could not be read.                                             *)
(***************************************************************************)
EXTENDS Integers, Sequences, SequencesExt

CONSTANT Text    \* the bytes of the show as XML

VARIABLES
    put,      \* what has been handed over to be saved
    loading,  \* is a load under way?
    got,      \* what it has got
    ended     \* has it been told that this is all?

Init == put = <<>> /\ loading = FALSE /\ got = <<>> /\ ended = FALSE

\* More of the text is handed over.
Put == /\ ~loading
       /\ \E n \in Len(put)..Len(Text) : put' = SubSeq(Text, 1, n)
       /\ UNCHANGED <<loading, got, ended>>

\* A load starts at the beginning.
Open == /\ ~loading /\ loading' = TRUE
        /\ got' = <<>> /\ ended' = FALSE
        /\ UNCHANGED put

\* It gets more; an end is announced only with the last byte.
Get == /\ loading /\ ~ended
       /\ \E n \in Len(got)..Len(put) : got' = SubSeq(put, 1, n)
       /\ ended' \in {FALSE, got' = put}
       /\ UNCHANGED <<put, loading>>

\* It may stop anywhere, and keeps what it has got.
Close == /\ loading /\ loading' = FALSE
         /\ ended' = FALSE
         /\ UNCHANGED <<put, got>>

Next == Put \/ Open \/ Get \/ Close

Spec == Init /\ [][Next]_<<put, loading, got, ended>>
=============================================================================
