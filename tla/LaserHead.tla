------------------------------ MODULE LaserHead ------------------------------
(***************************************************************************)
(* A LaserHead (head.cpp) feeding its driver from the head thread while    *)
(* the GUI thread kills and restarts it.                                   *)
(*                                                                         *)
(* dataRequested() is split at every access to the fields that kill()      *)
(* writes from the other thread without a lock: killed, pb, frame_index    *)
(* and pointBuf.  So is kill().  Two threads inside the shared_ptr pb at   *)
(* once, or a dereference of a pb nulled after it was tested, end the      *)
(* program ("crashed").                                                    *)
(*                                                                         *)
(* A playback is the number of frames it still has to give, so a source is *)
(* the number of frames it gives from a reset; 0 is an empty slot.  Which  *)
(* source the list offers is HeadSelection.tla; here it is any.  A frame   *)
(* is a number of points.  The driver is the dummy driver seen from the    *)
(* head (DummyDriver.tla opens it up).                                     *)
(***************************************************************************)
EXTENDS Integers

CONSTANTS
    SourceLengths,  \* frames of the sources in the engine's slots
    FramePoints,    \* points of a resampled frame
    BufferSize,     \* BUFFER_SZ of the driver
    LowWater,       \* dataRequested() tops up while more than this much is free
    Drain           \* points the driver consumes per timer tick

None == -1

ASSUME HeadAssumption ==
    /\ SourceLengths \subseteq Nat
    /\ FramePoints \in Nat \ {0}
    /\ BufferSize \in Nat /\ LowWater \in 0..(BufferSize - 1) /\ Drain \in Nat \ {0}

VARIABLES
    killed,
    pb,           \* frames left in the loaded playback, or None
    pointBuf,     \* size of the vector
    frame_index,
    fill,         \* points in the driver's buffer
    pc,           \* where dataRequested() is; "idle" in the event loop
    offset,       \* the frame_index passed to ILDANewPoints
    t,            \* what ILDANewPoints returned
    fp,           \* is a frame in hand?
    candidate,    \* the playback about to be loaded
    requested,    \* ILDARequestMoreData is in the head's event queue
    dumping,      \* dumpCurrentSelection is in the head's event queue
    guiPC,        \* where the GUI thread is in kill()
    late          \* history: playbacks started since the kill

shared == <<killed, pb, pointBuf, frame_index>>
locals == <<offset, t, fp, candidate>>
events == <<requested, dumping>>
vars == <<shared, fill, pc, locals, events, guiPC, late>>

Init == /\ killed = FALSE /\ pb = None /\ pointBuf = 0 /\ frame_index = 0
        /\ fill = 0
        /\ pc = "idle" /\ offset = 0 /\ t = 0 /\ fp = FALSE /\ candidate = None
        /\ requested = FALSE /\ dumping = FALSE
        /\ guiPC = "idle" /\ late = 0

Minimum(a, b) == IF a < b THEN a ELSE b
-----------------------------------------------------------------------------
(***************************************************************************)
(* Head thread: dataRequested().                                           *)
(***************************************************************************)
dataRequested ==
    /\ pc = "idle" /\ requested
    /\ requested' = FALSE
    /\ pc' = "test"
    /\ UNCHANGED <<shared, fill, locals, dumping, guiPC, late>>

\* while (driver->ILDABufferFillStatus() > 300); frame_index is read for the call.
TestSpace ==
    /\ pc = "test"
    /\ IF BufferSize - fill > LowWater
       THEN pc' = "give" /\ offset' = frame_index
       ELSE pc' = "idle" /\ UNCHANGED offset
    /\ UNCHANGED <<shared, fill, t, fp, candidate, events, guiPC, late>>

\* ILDANewPoints(pointBuf, offset): pts.size() - offset is unsigned, so it is
\* huge once the vector has been cleared behind the offset.
Offered == IF pointBuf >= offset THEN Minimum(BufferSize - fill, pointBuf - offset)
                                 ELSE BufferSize - fill

GivePoints ==
    /\ pc = "give"
    /\ t' = Offered
    /\ fill' = fill + Offered
    /\ pc' = "advance"
    /\ UNCHANGED <<shared, offset, fp, candidate, events, guiPC, late>>

\* frame_index += t
Advance ==
    /\ pc = "advance"
    /\ frame_index' = frame_index + t
    /\ pc' = "check"
    /\ UNCHANGED <<killed, pb, pointBuf, fill, locals, events, guiPC, late>>

\* The frame is used up: clear, and ask the playback for another.
CheckEnd ==
    /\ pc = "check"
    /\ IF frame_index >= pointBuf
       THEN /\ pointBuf' = 0 /\ frame_index' = 0
            /\ fp' = FALSE
            /\ pc' = IF pb # None THEN "frame" ELSE "choose"
       ELSE /\ pc' = "test"
            /\ UNCHANGED <<pointBuf, frame_index, fp>>
    /\ UNCHANGED <<killed, pb, fill, offset, t, candidate, events, guiPC, late>>

\* fp = pb->nextFrame(), "after" is where dataRequested() goes with a frame
\* in hand and "without" where it goes when there is none.
NextFrame(at, after, without) ==
    /\ pc = at
    /\ IF pb = None
       THEN pc' = "crashed" /\ UNCHANGED <<pb, fp>>
       ELSE IF pb > 0
            THEN pb' = pb - 1 /\ fp' = TRUE /\ pc' = after
            ELSE pc' = without /\ UNCHANGED <<pb, fp>>
    /\ UNCHANGED <<killed, pointBuf, frame_index, fill, offset, t, candidate,
                   events, guiPC, late>>

FirstFrame == NextFrame("frame", "show", "choose")

\* getNextFramesource() and engine->getPlayback(s), reset.
ChooseSource ==
    /\ pc = "choose"
    /\ candidate' \in SourceLengths \cup {None}
    /\ pc' = "load"
    /\ UNCHANGED <<shared, fill, offset, t, fp, events, guiPC, late>>

\* Mutation of TestKilled: killed is not looked at.
TestKilledForgotten ==
    /\ pc = "load"
    /\ pc' = "store"
    /\ UNCHANGED <<shared, fill, locals, events, guiPC, late>>

\* Mutation of TestKilled: a killed head keeps the playback that has ended.
TestKilledKeepsPlayback ==
    /\ pc = "load"
    /\ pc' = IF killed THEN "again" ELSE "store"
    /\ UNCHANGED <<shared, fill, locals, events, guiPC, late>>

\* loadFrameSource(p, false): if (!killed) ...
TestKilled ==
    /\ pc = "load"
    /\ IF ~killed THEN pc' = "store" /\ UNCHANGED pb
                  ELSE pc' = "again" /\ pb' = None
    /\ UNCHANGED <<killed, pointBuf, frame_index, fill, locals, events, guiPC, late>>

\* ... pb = f
StorePlayback ==
    /\ pc = "store"
    /\ pb' = candidate
    /\ late' = IF killed /\ candidate # None THEN late + 1 ELSE late
    /\ pc' = "again"
    /\ UNCHANGED <<killed, pointBuf, frame_index, fill, locals, events, guiPC>>

\* if (pb) for the second time.
AskAgain ==
    /\ pc = "again"
    /\ pc' = IF pb # None THEN "frame2" ELSE "show"
    /\ UNCHANGED <<shared, fill, locals, events, guiPC, late>>

SecondFrame == NextFrame("frame2", "show", "show")

\* if (fp) pointBuf = resampler.run(p)
ShowFrame ==
    /\ pc = "show"
    /\ pointBuf' = IF fp THEN FramePoints ELSE pointBuf
    /\ pc' = "more"
    /\ UNCHANGED <<killed, pb, frame_index, fill, locals, events, guiPC, late>>

\* if (!pb) break
MoreOrBreak ==
    /\ pc = "more"
    /\ pc' = IF pb = None THEN "idle" ELSE "test"
    /\ UNCHANGED <<shared, fill, locals, events, guiPC, late>>

\* dump() between two calls of dataRequested(): loadFrameSource(null, true).
dump ==
    /\ pc = "idle" /\ dumping
    /\ dumping' = FALSE
    /\ pb' = None /\ frame_index' = 0 /\ pointBuf' = 0
    /\ UNCHANGED <<killed, fill, pc, locals, requested, guiPC, late>>

\* Both threads are inside an access to the shared_ptr pb.
TornPointer ==
    /\ pc \in {"frame", "frame2", "store"} /\ guiPC = "drop"
    /\ pc' = "crashed"
    /\ UNCHANGED <<shared, fill, locals, events, guiPC, late>>
-----------------------------------------------------------------------------
(***************************************************************************)
(* GUI thread: userKill() and userRestart() call Engine::kill and restart, *)
(* which call each head's.  The dummy driver ignores ILDAShutter().        *)
(***************************************************************************)
Alive == pc # "crashed"

kill ==
    /\ Alive /\ guiPC = "idle"
    /\ killed' = TRUE
    /\ guiPC' = "drop"
    /\ UNCHANGED <<pb, pointBuf, frame_index, fill, pc, locals, events, late>>

\* loadFrameSource(null, true) in the GUI thread, field by field.
KillDrops ==
    /\ Alive /\ guiPC = "drop"
    /\ pb' = None
    /\ guiPC' = "rewind"
    /\ UNCHANGED <<killed, pointBuf, frame_index, fill, pc, locals, events, late>>

KillRewinds ==
    /\ Alive /\ guiPC = "rewind"
    /\ frame_index' = 0
    /\ guiPC' = "clear"
    /\ UNCHANGED <<killed, pb, pointBuf, fill, pc, locals, events, late>>

KillClears ==
    /\ Alive /\ guiPC = "clear"
    /\ pointBuf' = 0
    /\ guiPC' = "idle"
    /\ UNCHANGED <<killed, pb, frame_index, fill, pc, locals, events, late>>

restart ==
    /\ Alive /\ guiPC = "idle" /\ killed
    /\ killed' = FALSE /\ late' = 0
    /\ UNCHANGED <<pb, pointBuf, frame_index, fill, pc, locals, events, guiPC>>
-----------------------------------------------------------------------------
(***************************************************************************)
(* Engine thread: the driver's timer, and select() asking for a dump.      *)
(***************************************************************************)
timeout ==
    /\ Alive
    /\ fill' = IF fill > Drain THEN fill - Drain ELSE 0
    /\ requested' = TRUE
    /\ UNCHANGED <<shared, pc, locals, dumping, guiPC, late>>

DumpRequested ==
    /\ Alive /\ ~dumping
    /\ dumping' = TRUE
    /\ UNCHANGED <<shared, fill, pc, locals, requested, guiPC, late>>

\* The process is gone.
Gone == ~Alive /\ UNCHANGED vars
-----------------------------------------------------------------------------
HeadStep == \/ dataRequested \/ TestSpace \/ GivePoints \/ Advance \/ CheckEnd
            \/ FirstFrame \/ ChooseSource \/ TestKilled \/ StorePlayback
            \/ AskAgain \/ SecondFrame \/ ShowFrame \/ MoreOrBreak
            \/ dump

FinishKill == KillDrops \/ KillRewinds \/ KillClears

Next == \/ HeadStep \/ TornPointer
        \/ kill \/ FinishKill \/ restart
        \/ timeout \/ DumpRequested
        \/ Gone

Spec == Init /\ [][Next]_vars

\* The threads are scheduled and the timer ticks; nobody has to press a button.
FairSpec == Spec /\ WF_vars(HeadStep) /\ WF_vars(FinishKill) /\ WF_vars(timeout)
-----------------------------------------------------------------------------
Locations == {"idle", "test", "give", "advance", "check", "frame", "choose", "load",
              "store", "again", "frame2", "show", "more", "crashed"}

\* Every variable keeps its type; the driver's buffer is never overfilled.
TypeOK == /\ killed \in BOOLEAN
          /\ pb \in Nat \cup {None}
          /\ pointBuf \in {0, FramePoints} /\ frame_index \in Nat
          /\ fill \in 0..BufferSize
          /\ pc \in Locations
          /\ offset \in Nat /\ t \in 0..BufferSize
          /\ fp \in BOOLEAN
          /\ candidate \in Nat \cup {None}
          /\ requested \in BOOLEAN /\ dumping \in BOOLEAN
          /\ guiPC \in {"idle", "drop", "rewind", "clear"}
          /\ late \in Nat

\* The kill button has been handled and not been taken back.
KillDone == killed /\ guiPC = "idle"

\* "Kill all laser output" (engine.h:147) is not quite what happens: points of
\* one more source can reach the driver after kill() has returned, as
\* loadFrameSource() tests killed before it stores pb.  The race lets at most
\* one more source start: every later one finds killed set.
AtMostOneLateSource == killed => late <= 1

\* Nothing is projected and nothing is in hand that could be.
Dark == /\ pb = None /\ pointBuf = 0
        /\ pc \notin {"store"}
        /\ pc = "show" => ~fp

\* A killed head that has gone dark stays dark until it is restarted.
DarkStaysDark == [][KillDone /\ Dark /\ killed' => Dark']_vars

\* A kill wins in the end: the head goes dark, whatever it was doing, unless
\* it is restarted (or the program dies of the race).
KillDarkens == killed ~> (Dark \/ ~killed \/ ~Alive)
=============================================================================
