---------------------------- MODULE HeadSelection ----------------------------
(***************************************************************************)
(* One head's PlaybackList as the running program uses it: called from     *)
(* three threads, its signals travelling through Qt's event queues.        *)
(*                                                                         *)
(*   engine thread  Engine::clicked (isSelected, then select), and the     *)
(*                  indicators (selectionChangedData)                      *)
(*   GUI thread     the mode combo boxes (ButtonWindow::selectionModeData, *)
(*                  stepModeData) and the F1 key (Engine::manualNext)      *)
(*   head thread    LaserHead::dataRequested, manual, dump and the relay   *)
(*                  selectionChangedData                                   *)
(*                                                                         *)
(* The mutex of PlaybackList makes each locked section one step; what the  *)
(* code does outside of it (the assignments to currentIndex and to the     *)
(* modes) is a step of its own.  A locked section sees one value of each   *)
(* mode.  A signal is delivered at once if it is emitted in the receiver's *)
(* thread and through the receiver's event queue otherwise: LaserHead and  *)
(* its list live in the head thread, Engine in the engine thread.          *)
(*                                                                         *)
(* The projection itself is LaserHead.tla; here pb is just the position    *)
(* whose playback is loaded, and a source may go on for as long as it      *)
(* likes.                                                                  *)
(***************************************************************************)
EXTENDS PlaybackListCalls

CONSTANTS
    SelectionModes,     \* the selection modes the user picks
    Habits,     \* sets of step modes; a user picks step modes from one of them
    MaxQueue    \* bound: the user and the timer wait while this many events are queued

ASSUME SelectionAssumption == /\ SelectionModes \subseteq AllSelectionModes
                              /\ Habits \subseteq SUBSET AllStepModes
                              /\ MaxQueue \in Nat

VARIABLES
    pl,         \* the PlaybackList (out is empty between steps)
    headPC,     \* where the head thread is
    running,    \* the argument of the pending next(running)
    result,     \* what next() returned, not yet assigned to currentIndex
    pb,         \* the position loaded for projection
    headQueue,  \* events posted to the head thread
    engineQueue,\* selectionChanged events posted to the engine thread
    indicator,  \* the lit grid cells
    click,      \* the clicked() in progress: position and what isSelected said
    newMode,    \* the selection mode about to be assigned, or "none"
    habit       \* the step modes this user picks, the same all along

threadVars == <<headPC, running, result, pb>>
queues == <<headQueue, engineQueue, indicator>>
vars == <<pl, threadVars, queues, click, newMode, habit>>

Data   == [type |-> "dataRequested", pos |-> NoSlot, active |-> FALSE]
Manual == [type |-> "manual", pos |-> NoSlot, active |-> FALSE]
NoClick == [pos |-> NoSlot, active |-> FALSE]

Events == Signals \cup {Data, Manual}
IsSelectionChanged(e) == e.type = "selectionChanged"

Init == /\ pl = NewList
        /\ headPC = "idle" /\ running = FALSE /\ result = NoSlot /\ pb = NoSlot
        /\ headQueue = <<>> /\ engineQueue = <<>> /\ indicator = {}
        /\ click = NoClick /\ newMode = "none"
        /\ habit \in Habits

\* The selectionChanged() among the signals of a call of next(), which asks
\* for a dump at most once.
Relayed(signals) ==
    IF Dump \in Range(signals)
    THEN RemoveAt(signals, CHOOSE i \in DOMAIN signals : signals[i] = Dump)
    ELSE signals

\* The list as a call left it, and where its signals go when the call was
\* made in the head thread: the relay posts to the engine, dump() runs.
InHeadThread(l) ==
    /\ pl' = [l EXCEPT !.out = <<>>]
    /\ engineQueue' = engineQueue \o Relayed(l.out)
    /\ pb' = IF Dump \in Range(l.out) THEN NoSlot ELSE pb

\* ... and when it was made in another thread: everything is posted.
InOtherThread(l) ==
    /\ pl' = [l EXCEPT !.out = <<>>]
    /\ headQueue' = headQueue \o l.out

Room == Len(headQueue) + Len(engineQueue) < MaxQueue
-----------------------------------------------------------------------------
(***************************************************************************)
(* Engine thread.                                                          *)
(***************************************************************************)
\* clicked(pos), first half: isSelected(pos).
ClickedTest(pos) ==
    /\ click = NoClick /\ Room
    /\ click' = [pos |-> pos, active |-> ~isSelected(pl, pos)]
    /\ UNCHANGED <<pl, threadVars, queues, newMode>>

\* Second half: select(pos, !isSelected).
ClickedSelect ==
    /\ click # NoClick
    /\ \E l \in Select(pl, click.pos, click.active) : InOtherThread(l)
    /\ click' = NoClick
    /\ UNCHANGED <<threadVars, engineQueue, indicator, newMode>>

\* selectionChangedData(pos, active) colours the indicator.
EngineEvent ==
    /\ click = NoClick /\ engineQueue # <<>>
    /\ LET e == Head(engineQueue)
       IN  indicator' = IF e.active THEN indicator \cup {e.pos}
                                    ELSE indicator \ {e.pos}
    /\ engineQueue' = Tail(engineQueue)
    /\ UNCHANGED <<pl, threadVars, headQueue, click, newMode>>
-----------------------------------------------------------------------------
(***************************************************************************)
(* GUI thread.                                                             *)
(***************************************************************************)
\* setSelectionMode(mode): the locked truncation ...
TruncateForMode(mode) ==
    /\ newMode = "none" /\ Room
    /\ InOtherThread(Truncated(pl, mode))
    /\ newMode' = mode
    /\ UNCHANGED <<threadVars, engineQueue, indicator, click>>

\* ... and the assignment after the lock has been given up.
AssignMode ==
    /\ newMode # "none"
    /\ pl' = [pl EXCEPT !.selMode = newMode]
    /\ newMode' = "none"
    /\ UNCHANGED <<threadVars, queues, click>>

setStepMode(mode) ==
    /\ newMode = "none"
    /\ pl' = [pl EXCEPT !.stepMode = mode]
    /\ UNCHANGED <<threadVars, queues, click, newMode>>

manualNext ==
    /\ newMode = "none" /\ Room
    /\ headQueue' = Append(headQueue, Manual)
    /\ UNCHANGED <<pl, threadVars, engineQueue, indicator, click, newMode>>
-----------------------------------------------------------------------------
(***************************************************************************)
(* Head thread.                                                            *)
(***************************************************************************)
\* The driver's timer posts a request for data (bound: one at a time).
RequestMoreData ==
    /\ Data \notin Range(headQueue) /\ Room
    /\ headQueue' = Append(headQueue, Data)
    /\ UNCHANGED <<pl, threadVars, engineQueue, indicator, click, newMode>>

HeadTakes(e) == /\ headPC = "idle" /\ headQueue # <<>> /\ Head(headQueue) = e
                /\ headQueue' = Tail(headQueue)

\* The loaded playback still has frames: dataRequested() asks for no source.
dataRequestedPlaying ==
    /\ HeadTakes(Data) /\ pb # NoSlot
    /\ UNCHANGED <<pl, threadVars, engineQueue, indicator, click, newMode>>

\* nextFrame() returned null, or nothing is loaded: getNextFramesource() tests
\* the modes and currentIndex, without the lock.
dataRequestedEnded ==
    /\ HeadTakes(Data)
    /\ headPC' = IF WantsNext(pl) THEN "next" ELSE "return"
    /\ running' = (WantsNext(pl) /\ pl.cur # NoSlot)
    /\ UNCHANGED <<pl, result, pb, engineQueue, indicator, click, newMode>>

\* next(running), locked.
getNext ==
    /\ headPC = "next"
    /\ \E l \in NextSource(pl, running) : InHeadThread(l) /\ result' = FrontOf(l)
    /\ headPC' = "assign" /\ running' = FALSE
    /\ UNCHANGED <<headQueue, indicator, click, newMode>>

\* currentIndex = the value next() returned.
assignCurrent ==
    /\ headPC = "assign"
    /\ pl' = [pl EXCEPT !.cur = result]
    /\ headPC' = "return" /\ result' = NoSlot
    /\ UNCHANGED <<running, pb, queues, click, newMode>>

\* return currentIndex, and loadFrameSource() of that position's playback.
loadCurrent ==
    /\ headPC = "return"
    /\ pb' = pl.cur
    /\ headPC' = "idle"
    /\ UNCHANGED <<pl, running, result, queues, click, newMode>>

\* manual() in MANUAL mode: next(true) ...
manualStep ==
    /\ HeadTakes(Manual) /\ pl.stepMode = "MANUAL"
    /\ \E l \in NextSource(pl, TRUE) : InHeadThread(l) /\ result' = FrontOf(l)
    /\ headPC' = "stepped"
    /\ UNCHANGED <<running, indicator, click, newMode>>

\* ... then currentIndex is assigned and dump() runs.
manualAssign ==
    /\ headPC = "stepped"
    /\ pl' = [pl EXCEPT !.cur = result]
    /\ pb' = NoSlot
    /\ headPC' = "idle" /\ result' = NoSlot
    /\ UNCHANGED <<running, queues, click, newMode>>

\* manual() in the other modes does nothing.
manualIgnored ==
    /\ HeadTakes(Manual) /\ pl.stepMode # "MANUAL"
    /\ UNCHANGED <<pl, threadVars, engineQueue, indicator, click, newMode>>

\* dump(), posted by a select() in the engine thread.
dump ==
    /\ HeadTakes(Dump)
    /\ pb' = NoSlot
    /\ UNCHANGED <<pl, headPC, running, result, engineQueue, indicator, click,
                   newMode>>

\* selectionChangedData(): the relay to the engine.
relay ==
    /\ headPC = "idle" /\ headQueue # <<>> /\ IsSelectionChanged(Head(headQueue))
    /\ engineQueue' = Append(engineQueue, Head(headQueue))
    /\ headQueue' = Tail(headQueue)
    /\ UNCHANGED <<pl, threadVars, indicator, click, newMode>>
-----------------------------------------------------------------------------
UserStep == /\ \/ \E pos \in Slots : ClickedTest(pos)
               \/ \E mode \in SelectionModes : TruncateForMode(mode)
               \/ \E mode \in habit : setStepMode(mode)
               \/ manualNext
            /\ UNCHANGED habit

EngineStep == (ClickedSelect \/ EngineEvent) /\ UNCHANGED habit

GuiStep == AssignMode /\ UNCHANGED habit

TimerStep == RequestMoreData /\ UNCHANGED habit

HeadStep == /\ \/ dataRequestedPlaying \/ dataRequestedEnded
               \/ getNext \/ assignCurrent \/ loadCurrent
               \/ manualStep \/ manualAssign \/ manualIgnored
               \/ dump \/ relay
            /\ UNCHANGED habit

ThreadStep == EngineStep \/ GuiStep \/ TimerStep \/ HeadStep

Next == UserStep \/ ThreadStep

Spec == Init /\ [][Next]_vars

\* Threads run, the timer ticks; the user need not do anything.
Fairness == WF_vars(EngineStep) /\ WF_vars(GuiStep) /\ WF_vars(TimerStep)
              /\ WF_vars(HeadStep)

FairSpec == Spec /\ Fairness
-----------------------------------------------------------------------------
\* Every variable keeps its type, the events in flight included.
TypeOK == /\ pl \in Objects /\ pl.out = <<>>
          /\ headPC \in {"idle", "next", "assign", "return", "stepped"}
          /\ running \in BOOLEAN
          /\ {result, pb} \subseteq Slots \cup {NoSlot}
          /\ headQueue \in Seq(Events) /\ engineQueue \in Seq(Signals)
          /\ indicator \subseteq Slots
          /\ click \in [pos : Slots \cup {NoSlot}, active : BOOLEAN]
          /\ newMode \in AllSelectionModes \cup {"none"}
          /\ habit \in Habits

\* The check in clicked() and the select() after it are two locked sections,
\* and the head removes entries in between, yet no position is ever in the
\* list twice.
NoDuplicates == IsInjective(pl.sel)

\* Everything in flight has arrived.
Settled == /\ headPC = "idle" /\ click = NoClick /\ newMode = "none"
           /\ \A i \in DOMAIN headQueue : ~IsSelectionChanged(headQueue[i])
           /\ engineQueue = <<>>

\* Once the signals have arrived the indicators are the selection, whatever
\* the three threads did meanwhile.  In ONCE, next(false) reports the front
\* entry as deselected and keeps it, so a user of ONCE is left out.
IndicatorsSettle ==
    Settled /\ "ONCE" \notin habit => indicator = Selected(pl)

\* A position that is projected though it is no longer in the list is about
\* to be dumped: the stop order is in the head's queue.  Users of MANUAL and
\* BEAT are left out: the assignment of next()'s result can overwrite the
\* currentIndex that a deselection has just reset, and in these two modes
\* getNextFramesource() goes on with currentIndex without asking next().
DeselectedIsStopped ==
    headPC = "idle" /\ pb # NoSlot /\ pb \notin Selected(pl)
      /\ {"MANUAL", "BEAT"} \cap habit = {}
        => Dump \in Range(headQueue)

\* When the user leaves a head alone that has something selected, it does not
\* stay dark: no order of the events left in the queues parks it for good.
\* A user of ONCE is left out, as ONCE uses its selections up.
SelectedGetsProjected ==
    "ONCE" \notin habit /\ <>[][ThreadStep]_vars /\ <>[](pl.sel # <<>>) => []<>(pb # NoSlot)
=============================================================================
