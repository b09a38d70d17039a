---------------------------- MODULE PlaybackList ----------------------------
(***************************************************************************)
(* One PlaybackList whose member functions are called one at a time: the   *)
(* list of sources a laser head plays, as its own code maintains it.       *)
(* HeadSelection.tla lets three threads call it.                           *)
(*                                                                         *)
(* indicator is what the user sees of it: the grid cells Engine's          *)
(* selectionChangedData has coloured red.                                  *)
(***************************************************************************)
EXTENDS PlaybackListCalls

CONSTANTS
    SelectionModes,   \* the modes the user picks from the two combo boxes
    StepModes

ASSUME ModesAssumption == /\ SelectionModes \subseteq AllSelectionModes
                          /\ StepModes \subseteq AllStepModes

VARIABLES
    pl,          \* the object
    indicator    \* the positions whose indicator is lit

vars == <<pl, indicator>>

Init == pl = NewList /\ indicator = {}

\* The call leaves the object as one of "results".
Calls(results) == /\ pl' \in results
                  /\ indicator' = Shown(indicator, pl'.out)

Fresh == [pl EXCEPT !.out = <<>>]

select(pos, active) == Calls(Select(Fresh, pos, active))
setSelectionMode(mode) == Calls({[Truncated(Fresh, mode) EXCEPT !.selMode = mode]})
setStepMode(mode) == Calls({[Fresh EXCEPT !.stepMode = mode]})
manualStepClicked == Calls(Step(Fresh, "MANUAL"))
beatDetected == Calls(Step(Fresh, "BEAT"))
clear == Calls({Clear(Fresh)})
getNextFramesource == Calls(GetNextFramesource(Fresh))

UserCall == \/ \E pos \in Slots, active \in BOOLEAN : select(pos, active)
            \/ \E mode \in SelectionModes : setSelectionMode(mode)
            \/ \E mode \in StepModes : setStepMode(mode)
            \/ manualStepClicked
            \/ beatDetected
            \/ clear

Next == UserCall \/ getNextFramesource

Spec == Init /\ [][Next]_vars

\* The head asks for another source whenever the present one ends.
FairSpec == Spec /\ WF_vars(getNextFramesource)
-----------------------------------------------------------------------------
\* Every field of the object keeps its type.
TypeOK == pl \in Objects /\ indicator \in SUBSET Slots

\* What is being played is the front of the list: currentIndex is never left
\* behind by a call that erases, rotates, shuffles or replaces the front.
CurrentIsFront == pl.cur # NoSlot => pl.sel # <<>> /\ pl.cur = Head(pl.sel)

\* select() never lets a position into the list twice, so erasing one
\* occurrence (playbacklist.cpp:42-55) really deselects it.
NoDuplicates == IsInjective(pl.sel)

\* In SINGLE mode the list never holds a second entry, whichever mode it was
\* filled in.
SingleHoldsOne == pl.selMode = "SINGLE" => Len(pl.sel) <= 1

\* A source that is playing and leaves the list is dumped: the head is told
\* to stop projecting it by the very call that removes it.
RemovalDumps ==
    [][pl.cur # NoSlot /\ pl.cur \notin Selected(pl')
          => Dump \in Range(pl'.out)]_vars

\* No indicator stays lit for a position that has left the list, whichever
\* way it left: every removal is reported, after any report of its selection.
\* (The converse fails in ONCE mode, where next(false) reports the removal of
\* a front it has not removed.)
LitIsSelected == indicator \subseteq Selected(pl)

\* Once the user leaves the list alone in LOOP mode (no shuffling), every
\* selected source is played again and again.
LoopPlaysEverySelection ==
    \A p \in Slots :
        /\ <>[][getNextFramesource]_vars
        /\ <>[](/\ p \in Selected(pl)
                /\ pl.stepMode = "LOOP"
                /\ pl.selMode # "SHUFFLE")
        => []<>(pl.cur = p)
=============================================================================
