----------------------------- MODULE DummyDriver -----------------------------
(***************************************************************************)
(* The point buffer of the dummy ILDA driver (driver_dummy_ilda.cpp).      *)
(* ILDANewPoints() runs in the head thread, timeout() in the engine thread *)
(* that created the driver, and buffer_fill_ is an unsigned counter both   *)
(* update without a lock.  Every read and every write of it is a step: the *)
(* updates  +=  and  -=  may lose each other.                              *)
(***************************************************************************)
EXTENDS Integers

CONSTANTS
    BUFFER_SZ,   \* 2000 in the code
    TickPoints,  \* 1000: what one tick plays out
    MinSpace,    \* 300: the head tops up while more than this is free
    MaxPoints    \* bound: the most points a call can offer

ASSUME DriverAssumption == /\ BUFFER_SZ \in Nat /\ TickPoints \in Nat
                           /\ MinSpace \in Nat /\ MaxPoints \in Nat

VARIABLES
    buffer_fill_,
    headPC, space, used, headReg,   \* ILDANewPoints(): its locals and the register of +=
    timerPC, timerReg,              \* timeout(): the register of -=
    requests                        \* is ILDARequestMoreData in the head's queue?

head == <<headPC, space, used, headReg>>
timer == <<timerPC, timerReg>>
driverVars == <<buffer_fill_, head, timer, requests>>

DriverInit ==
    /\ buffer_fill_ = 0
    /\ headPC = "idle" /\ space = 0 /\ used = 0 /\ headReg = 0
    /\ timerPC = "idle" /\ timerReg = 0
    /\ requests = FALSE
-----------------------------------------------------------------------------
\* The head thread starts to serve a request for data.
DataRequested ==
    /\ headPC = "idle" /\ requests
    /\ requests' = FALSE
    /\ headPC' = "status"
    /\ UNCHANGED <<buffer_fill_, space, used, headReg, timer>>

\* ILDABufferFillStatus(): is there room enough to go on?
BufferFillStatus ==
    /\ headPC = "status"
    /\ headPC' = IF BUFFER_SZ - buffer_fill_ > MinSpace THEN "space" ELSE "idle"
    /\ UNCHANGED <<buffer_fill_, space, used, headReg, timer, requests>>

\* ILDANewPoints(pts, offset): space = BUFFER_SZ - buffer_fill_.
ReadSpace ==
    /\ headPC = "space"
    /\ space' = BUFFER_SZ - buffer_fill_
    /\ headPC' = "clip"
    /\ UNCHANGED <<buffer_fill_, used, headReg, timer, requests>>

\* Mutation of ClipToSpace: everything offered is taken.
TakeAll(offered) ==
    /\ headPC = "clip"
    /\ used' = offered
    /\ headPC' = "load"
    /\ UNCHANGED <<buffer_fill_, space, headReg, timer, requests>>

\* used is what is offered, pts.size() - offset, clipped to space.
ClipToSpace(offered) ==
    /\ headPC = "clip"
    /\ used' = IF space < offered THEN space ELSE offered
    /\ headPC' = "load"
    /\ UNCHANGED <<buffer_fill_, space, headReg, timer, requests>>

\* buffer_fill_ += used: the read ...
LoadFill ==
    /\ headPC = "load"
    /\ headReg' = buffer_fill_
    /\ headPC' = "store"
    /\ UNCHANGED <<buffer_fill_, space, used, timer, requests>>

\* ... and the write; the head goes round again, or has nothing left to give.
StoreFill ==
    /\ headPC = "store"
    /\ buffer_fill_' = headReg + used
    /\ headPC' \in {"status", "idle"}
    /\ UNCHANGED <<space, used, headReg, timer, requests>>
-----------------------------------------------------------------------------
\* timeout(): if (buffer_fill_ > 1000)
TestFill ==
    /\ timerPC = "idle"
    /\ timerPC' = IF buffer_fill_ > TickPoints THEN "load" ELSE "zero"
    /\ UNCHANGED <<buffer_fill_, head, timerReg, requests>>

\* buffer_fill_ -= 1000: the read ...
LoadTick ==
    /\ timerPC = "load"
    /\ timerReg' = buffer_fill_
    /\ timerPC' = "store"
    /\ UNCHANGED <<buffer_fill_, head, requests>>

\* ... and the write, then ILDARequestMorePoints().
StoreTick ==
    /\ timerPC = "store"
    /\ buffer_fill_' = timerReg - TickPoints
    /\ timerPC' = "idle"
    /\ requests' = TRUE
    /\ UNCHANGED <<head, timerReg>>

ZeroTick ==
    /\ timerPC = "zero"
    /\ buffer_fill_' = 0
    /\ timerPC' = "idle"
    /\ requests' = TRUE
    /\ UNCHANGED <<head, timerReg>>
-----------------------------------------------------------------------------
FillStep ==
    \/ DataRequested \/ BufferFillStatus \/ ReadSpace
    \/ \E offered \in 0..MaxPoints : ClipToSpace(offered)
    \/ LoadFill \/ StoreFill

TimerStep == TestFill \/ LoadTick \/ StoreTick \/ ZeroTick

DriverNext == FillStep \/ TimerStep

DriverSpec == DriverInit /\ [][DriverNext]_driverVars
-----------------------------------------------------------------------------
\* The counters are unsigned: no difference is ever negative.
DriverTypeOK ==
    /\ buffer_fill_ \in Nat
    /\ headPC \in {"idle", "status", "space", "clip", "load", "store"}
    /\ space \in Nat /\ used \in Nat /\ headReg \in Nat
    /\ timerPC \in {"idle", "load", "store", "zero"}
    /\ timerReg \in Nat
    /\ requests \in BOOLEAN

\* However the two threads interleave, and whichever update is lost, the
\* counter stays within the buffer: BUFFER_SZ - buffer_fill_ and
\* buffer_fill_ - 1000 never wrap around.
FillInBuffer == buffer_fill_ \in 0..BUFFER_SZ

\* A tick never puts points back: the write of -=, however stale the value it
\* was computed from, only lowers the counter, so a head that has found room
\* keeps it.
TickOnlyDrains == [][TimerStep => buffer_fill_' <= buffer_fill_]_driverVars
=============================================================================
