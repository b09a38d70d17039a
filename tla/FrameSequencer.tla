--------------------------- MODULE FrameSequencer ---------------------------
(***************************************************************************)
(* A FrameSequencer (framesequencer.cpp) with StaticFrame children         *)
(* (staticframe.cpp) and the playbacks that step through it: one per head  *)
(* that projects it, in that head's thread, and those of the preview cells *)
(* and the editor in the GUI thread, where its controls are handled too.   *)
(* The playbacks share mode, newMode and repeats without a lock, so        *)
(* nextFrame() is split where it reads or writes them: there is a step for *)
(* adopting a mode, one for the test for the end, and one for each call of *)
(* a child.                                                                *)
(*                                                                         *)
(* A child is the number of frames it gives before it gives a null frame;  *)
(* it rewinds itself when it does.  The children do not change here.       *)
(***************************************************************************)
EXTENDS Integers, SequencesExt

CONSTANTS
    NumChildren,
    ChildFrames,   \* frames each child gives (its repeats)
    Playbacks,
    InGui,         \* the playbacks that belong to the GUI thread
    Modes,         \* the modes of a sequencer the user picks
    Habits,        \* what runs and is picked together: playbacks, modes, repeats
    MaxRepeats     \* the most repeats the user asks for (1000 in the code)

Children == 0..(NumChildren - 1)

ASSUME SequencerAssumption ==
    /\ NumChildren \in Nat \ {0}
    /\ ChildFrames \in [Children -> Nat]
    /\ InGui \subseteq Playbacks
    /\ Modes \subseteq {"Sequential", "Random", "Pingpong"}
    /\ Habits \subseteq [playing : SUBSET Playbacks, modes : SUBSET Modes,
                         repeats : SUBSET (0..MaxRepeats)]
    /\ MaxRepeats \in Nat

VARIABLES
    mode, newMode, repeats,   \* the FrameSequencer
    pb,                       \* the playbacks: [pc, pos, done, tbl, given]
    shown,                    \* the child whose frame a playback was given last, or None
    habit                     \* who runs and what the user picks, the same all along

source == <<mode, newMode, repeats>>
vars == <<source, pb, shown, habit>>

None == -1

\* Entry pos of an index_tbl is tbl[pos + 1].  Pingpong goes there and back.
TableSize(m) == IF m = "Pingpong" THEN 2 * NumChildren - 1 ELSE NumChildren
InOrder == [i \in 1..NumChildren |-> i - 1]
ThereAndBack == [i \in 1..(2 * NumChildren - 1) |->
                    IF i <= NumChildren THEN i - 1 ELSE 2 * NumChildren - 1 - i]

\* What reset_index() can leave in the table.
Tables(m) == CASE m = "Sequential" -> {InOrder}
               [] m = "Random" -> {[i \in DOMAIN InOrder |-> InOrder[f[i]]] :
                                      f \in Bijection(DOMAIN InOrder, DOMAIN InOrder)}
               [] m = "Pingpong" -> {ThereAndBack}

\* The tables index() can leave: it fills the table again if its size is wrong.
Repaired(tbl) == IF Len(tbl) = TableSize(mode) THEN {tbl} ELSE Tables(mode)

\* createPlayback() and reset(), which leaves the children as they are.
NewPlayback == [pc |-> "idle", pos |-> 0, done |-> 0, tbl |-> <<>>,
                given |-> [c \in Children |-> 0]]
Reset(b, t) == [b EXCEPT !.pos = 0, !.done = 0, !.tbl = t]

Init == /\ mode = "Sequential" /\ newMode = "Sequential" /\ repeats = 0
        /\ pb \in [Playbacks -> {Reset(NewPlayback, t) : t \in Tables("Sequential")}]
        /\ shown = [p \in Playbacks |-> None]
        /\ habit \in Habits
-----------------------------------------------------------------------------
\* StaticFrame::nextFrame(): a frame, or null and a rewind.
Gives(given, c) == given[c] < ChildFrames[c]

Asked(given, c) == [given EXCEPT ![c] = IF Gives(given, c) THEN @ + 1 ELSE 0]

\* A playback of the GUI thread runs when nothing else does in that thread.
GuiFree == \A p \in InGui : pb[p].pc = "idle"
MayStart(p) == pb[p].pc = "idle" /\ (p \in InGui => GuiFree)

\* The GUI of the sequencer: modeChangedData() and repeatsChangedData().
modeChangedData(m) ==
    /\ GuiFree
    /\ newMode' = m
    /\ UNCHANGED <<mode, repeats, pb, shown>>

repeatsChangedData(r) ==
    /\ GuiFree
    /\ repeats' = r
    /\ UNCHANGED <<mode, newMode, pb, shown>>

\* The holder takes a new playback of the source and resets it (LaserHead).
Load(p) ==
    /\ MayStart(p)
    /\ \E t \in Tables(mode) : pb' = [pb EXCEPT ![p] = Reset(NewPlayback, t)]
    /\ shown' = [shown EXCEPT ![p] = None]
    /\ UNCHANGED source

\* The holder rewinds the playback it has (ScreenDisplay).
reset(p) ==
    /\ MayStart(p)
    /\ \E t \in Tables(mode) : pb' = [pb EXCEPT ![p] = Reset(@, t)]
    /\ UNCHANGED <<source, shown>>
-----------------------------------------------------------------------------
(***************************************************************************)
(* nextFrame().                                                            *)
(***************************************************************************)
At(p, pc) == pb[p].pc = pc

\* if (mode != newMode) { mode = newMode; reset_index(pb); }
AdoptMode(p) ==
    /\ MayStart(p)
    /\ mode' = newMode
    /\ \E t \in IF mode = newMode THEN {pb[p].tbl} ELSE Tables(newMode) :
          pb' = [pb EXCEPT ![p].pc = "test", ![p].tbl = t]
    /\ UNCHANGED <<newMode, repeats, shown>>

\* The test for the end comes before the child at pos is asked.  (The size
\* is unsigned, but a table that has been reset is not empty.)
RunOut(p) == pb[p].pos >= Len(pb[p].tbl) - 1

GoOn(p) ==
    /\ At(p, "test") /\ ~RunOut(p)
    /\ pb' = [pb EXCEPT ![p].pc = "ask"]
    /\ UNCHANGED <<source, shown>>

\* Finished repeating: reset, return null.
Finish(p) ==
    /\ At(p, "test") /\ RunOut(p) /\ pb[p].done >= repeats
    /\ \E t \in Tables(mode) : pb' = [pb EXCEPT ![p] = [Reset(@, t) EXCEPT !.pc = "idle"]]
    /\ shown' = [shown EXCEPT ![p] = None]
    /\ UNCHANGED source

\* Another round: a new table, and the children are rewound.
Repeat(p) ==
    /\ At(p, "test") /\ RunOut(p) /\ pb[p].done < repeats
    /\ \E t \in Tables(mode) :
          pb' = [pb EXCEPT ![p] =
                    [NewPlayback EXCEPT !.done = pb[p].done + 1, !.tbl = t, !.pc = "ask"]]
    /\ UNCHANGED <<source, shown>>

\* index(pb) at position pos, and the child there is asked for a frame,
\* after a reset if "rewind".  An index beyond the table is undefined: "wild".
AskChild(p, pos, rewind) ==
    \E t \in Repaired(pb[p].tbl) :
        IF pos >= Len(t)
        THEN /\ pb' = [pb EXCEPT ![p].pc = "wild", ![p].tbl = t, ![p].pos = pos]
             /\ UNCHANGED shown
        ELSE LET c == t[pos + 1]
                 before == IF rewind THEN [pb[p].given EXCEPT ![c] = 0] ELSE pb[p].given
             IN  /\ pb' = [pb EXCEPT ![p] =
                              [@ EXCEPT !.pos = pos, !.tbl = t,
                                        !.pc = IF Gives(before, c) THEN "idle" ELSE "advance",
                                        !.given = Asked(before, c)]]
                 /\ shown' = IF Gives(before, c) THEN [shown EXCEPT ![p] = c] ELSE shown

\* The child at pos: its frame is returned, or the sequence moves on.
Ask(p) ==
    /\ At(p, "ask")
    /\ AskChild(p, pb[p].pos, FALSE)
    /\ UNCHANGED source

\* Mutation of Advance: while (pos < size()).
AdvancePastEnd(p) ==
    /\ At(p, "advance") /\ pb[p].pos < Len(pb[p].tbl)
    /\ AskChild(p, pb[p].pos + 1, TRUE)
    /\ UNCHANGED source

\* Mutation of Advance: pos is not incremented.
AdvanceStays(p) ==
    /\ At(p, "advance") /\ pb[p].pos < Len(pb[p].tbl) - 1
    /\ AskChild(p, pb[p].pos, TRUE)
    /\ UNCHANGED source

\* Mutation of Advance: a step that is empty ends the round.
AdvanceOnce(p) ==
    /\ At(p, "advance") /\ pb[p].pos < Len(pb[p].tbl) - 1
    /\ pb' = [pb EXCEPT ![p].pos = Len(pb[p].tbl) - 1, ![p].pc = "test"]
    /\ UNCHANGED <<source, shown>>

\* while (pos < size() - 1): the next step that has a frame.
Advance(p) ==
    /\ At(p, "advance") /\ pb[p].pos < Len(pb[p].tbl) - 1
    /\ AskChild(p, pb[p].pos + 1, TRUE)
    /\ UNCHANGED source

\* There is none: round again.
EndOfTable(p) ==
    /\ At(p, "advance") /\ pb[p].pos >= Len(pb[p].tbl) - 1
    /\ pb' = [pb EXCEPT ![p].pc = "test"]
    /\ UNCHANGED <<source, shown>>
-----------------------------------------------------------------------------
Inside(p) == \/ GoOn(p) \/ Finish(p) \/ Repeat(p)
             \/ Ask(p) \/ Advance(p) \/ EndOfTable(p)

nextFrame(p) == /\ p \in habit.playing
                /\ AdoptMode(p) \/ Inside(p)
                /\ UNCHANGED habit

Holder(p) == p \in habit.playing /\ (Load(p) \/ reset(p)) /\ UNCHANGED habit

Controls == /\ \/ \E m \in habit.modes : modeChangedData(m)
               \/ \E r \in habit.repeats : repeatsChangedData(r)
            /\ UNCHANGED habit

Next == Controls \/ \E p \in Playbacks : nextFrame(p) \/ Holder(p)

Spec == Init /\ [][Next]_vars

\* The holders keep asking for frames, and a call that has begun goes on.
FairSpec == Spec /\ \A p \in Playbacks : WF_vars(nextFrame(p))
-----------------------------------------------------------------------------
\* Every variable keeps its type; a playback never counts more rounds than
\* the user could ask for.
TypeOK ==
    /\ mode \in Modes \cup {"Sequential"} /\ newMode \in Modes \cup {"Sequential"}
    /\ repeats \in 0..MaxRepeats /\ habit \in Habits
    /\ shown \in [Playbacks -> Children \cup {None}]
    /\ pb \in [Playbacks -> [pc : {"idle", "test", "ask", "advance", "wild"},
                            pos : Nat, done : 0..MaxRepeats, tbl : Seq(Children),
                            given : [Children -> Nat]]]
    /\ \A p \in Playbacks, c \in Children : pb[p].given[c] <= ChildFrames[c]

\* One playback has the sequencer to itself.
Alone == \E p \in Playbacks : habit.playing = {p}

\* index() reads within the table it has just checked, as its second
\* assertion (framesequencer.cpp:197) takes for granted: pos never outlives
\* the table it was made for, whichever playback adopts a mode.  Leaving
\* Pingpong makes the table shorter under another playback's pos, so its
\* users are left out unless the playback is alone.
IndexInTable ==
    Alone \/ "Pingpong" \notin habit.modes => \A p \in Playbacks : pb[p].pc # "wild"

\* nextFrame() returns, however many steps are empty and whatever the user
\* changes or other playbacks adopt meanwhile.
NextFrameReturns == \A p \in Playbacks : pb[p].pc # "idle" ~> pb[p].pc = "idle"

\* Left alone, a sequence of several children shows every one that has
\* frames again and again, the empty ones in between notwithstanding.
EveryChildShown ==
    \A p \in Playbacks, c \in Children :
        ChildFrames[c] > 0 /\ <>[][nextFrame(p)]_vars => []<>(shown[p] = c)
=============================================================================
