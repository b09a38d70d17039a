-------------------------- MODULE PlaybackListCalls --------------------------
(***************************************************************************)
(* What the member functions of class PlaybackList (playbacklist.cpp) do   *)
(* to the object, as operators.  An object is a record                     *)
(*                                                                         *)
(*   sel       the vector selections                                       *)
(*   cur       currentIndex, with NoSlot for -1                            *)
(*   selMode, stepMode                                                     *)
(*   out       the signals emitted by the call, in the order of emission   *)
(*                                                                         *)
(* random_shuffle makes calls nondeterministic, so a call is the SET of    *)
(* objects it can leave behind.  The signal load() is connected nowhere    *)
(* and is left out.                                                        *)
(***************************************************************************)
EXTENDS Integers, SequencesExt

CONSTANTS
    Slots,      \* positions of the engine's sources vector that can be selected
    NoSlot      \* the -1 of currentIndex

ASSUME NoSlotAssumption == NoSlot \notin Slots

AllSelectionModes == {"SINGLE", "MULTIPLE", "SHUFFLE"}
AllStepModes == {"ONCE", "LOOP", "MANUAL", "BEAT"}

On(pos)  == [type |-> "selectionChanged", pos |-> pos, active |-> TRUE]
Off(pos) == [type |-> "selectionChanged", pos |-> pos, active |-> FALSE]
Dump     == [type |-> "dumpCurrentSelection", pos |-> NoSlot, active |-> FALSE]
Signals  == {On(p) : p \in Slots} \cup {Off(p) : p \in Slots} \cup {Dump}

\* The grid's indicators after the signals of one call have been handled in order:
\* the last one about a position decides.
Shown(lit, signals) ==
    {p \in Slots :
        \/ \E i \in DOMAIN signals :
              /\ signals[i] = On(p)
              /\ \A j \in DOMAIN signals : j > i => signals[j] # Off(p)
        \/ p \in lit /\ \A i \in DOMAIN signals : signals[i] # Off(p)}

Objects == [sel : Seq(Slots), cur : Slots \cup {NoSlot},
            selMode : AllSelectionModes, stepMode : AllStepModes,
            out : Seq(Signals)]

\* The constructor.
NewList == [sel |-> <<>>, cur |-> NoSlot,
            selMode |-> "SINGLE", stepMode |-> "LOOP", out |-> <<>>]

\* Mutation of isSelected: the loop starts at the second entry.
isSelectedSkipsFront(l, pos) == \E i \in 2..Len(l.sel) : l.sel[i] = pos

Selected(l) == Range(l.sel)
isSelected(l, pos) == pos \in Selected(l)

Emit(l, signal) == [l EXCEPT !.out = Append(@, signal)]
-----------------------------------------------------------------------------
(***************************************************************************)
(* next() and select() call each other, but next(false) calls nothing, so  *)
(* the recursion is three levels deep and is written out as three          *)
(* operators: next(false), select(pos, false), next(running).              *)
(***************************************************************************)
\* Mutation of Rotate: the front entry is not moved.
RotateNothing(s) == s

Rotate(s) == Append(Tail(s), Head(s))

Reorderings(s) ==
    {[i \in DOMAIN s |-> s[f[i]]] : f \in Bijection(DOMAIN s, DOMAIN s)}

\* LOOP, MANUAL and BEAT: the front entry goes to the back, SHUFFLE shuffles.
StepOn(l) ==
    {[l EXCEPT !.sel = s] :
        s \in IF l.selMode = "SHUFFLE" THEN Reorderings(Rotate(l.sel))
                                       ELSE {Rotate(l.sel)}}

\* next(false).  In ONCE mode the front entry is reported as deselected
\* although it stays in the list.
NextIdle(l) ==
    IF l.sel = <<>> THEN {l}
    ELSE IF l.stepMode = "ONCE" THEN {Emit(l, Off(Head(l.sel)))}
    ELSE StepOn(l)

\* Mutation of Deselect: currentIndex keeps the erased position.
DeselectKeepsCurrent(l, pos) ==
    IF ~isSelected(l, pos) THEN {l}
    ELSE LET i == CHOOSE k \in DOMAIN l.sel : l.sel[k] = pos
             erased == Emit([l EXCEPT !.sel = RemoveAt(l.sel, i)], Off(pos))
         IN  IF i = 1 THEN NextIdle(Emit(erased, Dump)) ELSE {erased}

\* Mutation of Deselect: the head is not told to dump the erased front.
DeselectSilently(l, pos) ==
    IF ~isSelected(l, pos) THEN {l}
    ELSE LET i == CHOOSE k \in DOMAIN l.sel : l.sel[k] = pos
             erased == Emit([l EXCEPT !.sel = RemoveAt(l.sel, i)], Off(pos))
         IN  IF i = 1 THEN NextIdle([erased EXCEPT !.cur = NoSlot]) ELSE {erased}

\* select(pos, false)
Deselect(l, pos) ==
    IF ~isSelected(l, pos) THEN {l}
    ELSE LET i == CHOOSE k \in DOMAIN l.sel : l.sel[k] = pos
             erased == Emit([l EXCEPT !.sel = RemoveAt(l.sel, i)], Off(pos))
         IN  IF i = 1 THEN NextIdle(Emit([erased EXCEPT !.cur = NoSlot], Dump))
                      ELSE {erased}

\* Mutation of NextSource: reports currentIndex, which select() has reset.
NextSourceReportsCurrent(l, running) ==
    IF running /\ l.sel # <<>> /\ l.stepMode = "ONCE"
    THEN {Emit(m, Off(m.cur)) : m \in Deselect(l, Head(l.sel))}
    ELSE NextIdle(l)

\* next(running)
NextSource(l, running) ==
    IF running /\ l.sel # <<>> /\ l.stepMode = "ONCE"
    THEN {Emit(m, Off(Head(l.sel))) : m \in Deselect(l, Head(l.sel))}
    ELSE NextIdle(l)

\* The value next() returns.
FrontOf(l) == IF l.sel = <<>> THEN NoSlot ELSE Head(l.sel)
-----------------------------------------------------------------------------
\* The tail of select(pos, true), once pos is known not to be in the list.
AddSelection(l, pos) ==
    IF l.selMode = "SINGLE"
    THEN LET allOff == [i \in DOMAIN l.sel |-> Off(l.sel[i])]
             only == [l EXCEPT !.sel = <<pos>>, !.cur = NoSlot,
                               !.out = Append(@ \o allOff, Dump)]
         IN  {Emit(m, On(pos)) : m \in NextIdle(only)}
    ELSE {Emit([l EXCEPT !.sel = Append(@, pos)], On(pos))}

\* Mutation of Select: a position in the list is not taken out first.
SelectAppends(l, pos, active) ==
    IF active THEN AddSelection(l, pos) ELSE Deselect(l, pos)

\* select(pos, active).  A position that is already in the list is taken out
\* first, and then added again.
Select(l, pos, active) ==
    IF active THEN UNION {AddSelection(m, pos) : m \in Deselect(l, pos)}
              ELSE Deselect(l, pos)

\* Mutation of TruncateTo: while (size() > 2).
TruncateToTwo(l) ==
    IF Len(l.sel) > 2 THEN [l EXCEPT !.sel = SubSeq(l.sel, 1, 2)] ELSE l

\* Mutation of TruncateTo: the entries go without a selectionChanged().
TruncateSilently(l) ==
    IF Len(l.sel) > 1 THEN [l EXCEPT !.sel = <<Head(l.sel)>>] ELSE l

\* The locked part of setSelectionMode(mode): SINGLE keeps the front entry.
TruncateTo(l) ==
    LET n == Len(l.sel)
    IN  IF n > 1
        THEN [l EXCEPT !.sel = <<Head(l.sel)>>,
                       !.out = @ \o [i \in 1..(n - 1) |-> Off(l.sel[n + 1 - i])]]
        ELSE l

Truncated(l, mode) == IF mode = "SINGLE" THEN TruncateTo(l) ELSE l

\* clear() leaves the front entry selected.
Clear(l) == Emit([TruncateTo(l) EXCEPT !.cur = NoSlot], Dump)

\* manualStepClicked() and beatDetected(): "mode" is the one they react to.
Step(l, mode) ==
    IF l.stepMode = mode
    THEN {Emit([m EXCEPT !.cur = FrontOf(m)], Dump) : m \in NextSource(l, TRUE)}
    ELSE {l}

\* Mutation of WantsNext: currentIndex = -1 is not looked at.
WantsNextByMode(l) == l.stepMode \in {"ONCE", "LOOP"}

\* getNextFramesource() asks next() for another source in these cases.
WantsNext(l) == l.stepMode \in {"ONCE", "LOOP"} \/ l.cur = NoSlot

GetNextFramesource(l) ==
    IF WantsNext(l)
    THEN {[m EXCEPT !.cur = FrontOf(m)] : m \in NextSource(l, l.cur # NoSlot)}
    ELSE {l}
=============================================================================
