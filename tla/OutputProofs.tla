---------------------------- MODULE OutputProofs ----------------------------
(***************************************************************************)
(* The way of the points to the hardware: the head under the kill button   *)
(* (LaserHead), the counter of the dummy driver (DummyDriver) and the      *)
(* resampler (Resampler).  The three share no variable; each has its own   *)
(* inductive invariant below.                                              *)
(***************************************************************************)
EXTENDS LaserHead, DummyDriver, Resampler, SequenceTheorems, TLAPS

(***************************************************************************)
(* What survives the unlocked race between kill() and dataRequested(), for *)
(* every set of sources, frame size and buffer.                            *)
(*                                                                         *)
(* AtMostOneLateSource is not inductive: it says nothing of a store that   *)
(* is still to come.  LateBound adds that a head which passed the test of  *)
(* killed before the kill has not used its one late start, and that        *)
(* nothing is late before a kill.  DarkStaysDark needs that the head has   *)
(* no frame in hand while it looks for one.                                *)
(***************************************************************************)

\* What has been started late, and what a pending store may still add.
LateBound == /\ ~killed => late = 0
             /\ killed => late <= 1
             /\ killed /\ pc = "store" => late = 0

\* dataRequested() cleared fp and has not found another frame yet.
EmptyHanded ==
    pc \in {"frame", "choose", "load", "store", "again", "frame2"} => fp = FALSE

\* The inductive invariant.
IInv == TypeOK /\ LateBound /\ EmptyHanded
-----------------------------------------------------------------------------
\* What ILDANewPoints takes always fits in the driver's buffer, also when the
\* unsigned difference has wrapped.
LEMMA OfferedFits ==
    ASSUME TypeOK
    PROVE  Offered \in 0..BufferSize /\ fill + Offered \in 0..BufferSize
  BY HeadAssumption DEF TypeOK, Offered, Minimum

\* The head starts in the invariant.
LEMMA InitIInv == Init => IInv
<1> SUFFICES ASSUME Init PROVE IInv
  OBVIOUS
<1>1. requested \in BOOLEAN /\ dumping \in BOOLEAN /\ killed \in BOOLEAN /\ fp \in BOOLEAN
  BY Zenon DEF Init
<1>2. TypeOK
  BY <1>1, HeadAssumption DEF Init, TypeOK, None, Locations
<1> QED BY <1>2 DEF Init, IInv, LateBound, EmptyHanded

\* Each step of each thread keeps the types.
LEMMA NextTypeOK == TypeOK /\ [Next]_vars => TypeOK'
<1> SUFFICES ASSUME TypeOK, [Next]_vars PROVE TypeOK'
  OBVIOUS
<1> USE HeadAssumption DEF TypeOK, shared, locals, events, Locations
<1>1. CASE dataRequested
  BY <1>1 DEF dataRequested
<1>2. CASE TestSpace
  BY <1>2 DEF TestSpace
<1>3. CASE GivePoints
  BY <1>3, OfferedFits DEF GivePoints
<1>4. CASE Advance
  BY <1>4 DEF Advance
<1>5. CASE CheckEnd
  <2>1. fp' \in BOOLEAN
    BY <1>5, Zenon DEF CheckEnd
  <2> QED BY <1>5, <2>1 DEF CheckEnd
<1>6. CASE FirstFrame
  <2>1. fp' \in BOOLEAN
    BY <1>6, Zenon DEF FirstFrame, NextFrame
  <2> QED BY <1>6, <2>1 DEF FirstFrame, NextFrame, None
<1>7. CASE ChooseSource
  BY <1>7 DEF ChooseSource
<1>8. CASE TestKilled
  BY <1>8 DEF TestKilled
<1>9. CASE StorePlayback
  BY <1>9 DEF StorePlayback
<1>10. CASE AskAgain
  BY <1>10 DEF AskAgain
<1>11. CASE SecondFrame
  <2>1. fp' \in BOOLEAN
    BY <1>11, Zenon DEF SecondFrame, NextFrame
  <2> QED BY <1>11, <2>1 DEF SecondFrame, NextFrame, None
<1>12. CASE ShowFrame
  BY <1>12 DEF ShowFrame
<1>13. CASE MoreOrBreak
  BY <1>13 DEF MoreOrBreak
<1>14. CASE dump
  BY <1>14 DEF dump
<1>15. CASE TornPointer
  BY <1>15 DEF TornPointer
<1>16. CASE kill
  BY <1>16 DEF kill
<1>17. CASE FinishKill
  BY <1>17 DEF FinishKill, KillDrops, KillRewinds, KillClears
<1>18. CASE restart
  BY <1>18 DEF restart
<1>19. CASE timeout
  BY <1>19 DEF timeout
<1>20. CASE DumpRequested
  BY <1>20 DEF DumpRequested
<1>21. CASE UNCHANGED vars
  BY <1>21 DEF vars
<1> QED BY <1>1, <1>2, <1>3, <1>4, <1>5, <1>6, <1>7, <1>8, <1>9, <1>10, <1>11,
           <1>12, <1>13, <1>14, <1>15, <1>16, <1>17, <1>18, <1>19, <1>20, <1>21
        DEF Next, HeadStep, Gone

\* The one late start is used at most once: only TestKilled leads to a store,
\* and it looks at killed.
LEMMA NextLateBound == TypeOK /\ LateBound /\ [Next]_vars => LateBound'
<1> SUFFICES ASSUME TypeOK, LateBound, [Next]_vars PROVE LateBound'
  OBVIOUS
<1> USE DEF LateBound, TypeOK, shared
<1>1. CASE TestKilled
  BY <1>1 DEF TestKilled
<1>2. CASE StorePlayback
  BY <1>2 DEF StorePlayback
<1>3. CASE kill
  BY <1>3 DEF kill
<1>4. CASE restart
  BY <1>4 DEF restart
<1>5. CASE FirstFrame \/ SecondFrame
  BY <1>5 DEF FirstFrame, SecondFrame, NextFrame
<1>6. CASE \/ dataRequested \/ TestSpace \/ GivePoints \/ Advance \/ CheckEnd
           \/ ChooseSource \/ AskAgain \/ ShowFrame \/ MoreOrBreak \/ dump
  BY <1>6 DEF dataRequested, TestSpace, GivePoints, Advance, CheckEnd, ChooseSource,
              AskAgain, ShowFrame, MoreOrBreak, dump
<1>7. CASE TornPointer \/ FinishKill \/ timeout \/ DumpRequested
  BY <1>7 DEF TornPointer, FinishKill, KillDrops, KillRewinds, KillClears, timeout,
              DumpRequested
<1>8. CASE UNCHANGED vars
  BY <1>8 DEF vars
<1> QED BY <1>1, <1>2, <1>3, <1>4, <1>5, <1>6, <1>7, <1>8 DEF Next, HeadStep, Gone

\* No frame comes into the head's hand while it looks for one.
LEMMA NextEmptyHanded == EmptyHanded /\ [Next]_vars => EmptyHanded'
<1> SUFFICES ASSUME EmptyHanded, [Next]_vars PROVE EmptyHanded'
  OBVIOUS
<1> USE DEF EmptyHanded, locals
<1>1. CASE FirstFrame \/ SecondFrame
  BY <1>1 DEF FirstFrame, SecondFrame, NextFrame
<1>2. CASE \/ dataRequested \/ TestSpace \/ GivePoints \/ Advance \/ CheckEnd
           \/ ChooseSource \/ TestKilled \/ StorePlayback \/ AskAgain \/ ShowFrame
           \/ MoreOrBreak \/ dump
  BY <1>2 DEF dataRequested, TestSpace, GivePoints, Advance, CheckEnd, ChooseSource,
              TestKilled, StorePlayback, AskAgain, ShowFrame, MoreOrBreak, dump
<1>3. CASE TornPointer \/ kill \/ FinishKill \/ restart \/ timeout \/ DumpRequested
  BY <1>3 DEF TornPointer, kill, FinishKill, KillDrops, KillRewinds, KillClears,
              restart, timeout, DumpRequested
<1>4. CASE UNCHANGED vars
  BY <1>4 DEF vars
<1> QED BY <1>1, <1>2, <1>3, <1>4 DEF Next, HeadStep, Gone

\* Every behaviour of the head and the GUI keeps the inductive invariant.
THEOREM Soundness == Spec => []IInv
<1>1. IInv /\ [Next]_vars => IInv'
  BY NextTypeOK, NextLateBound, NextEmptyHanded DEF IInv
<1> QED BY <1>1, InitIInv, PTL DEF Spec

\* Every variable keeps its type; in particular the driver's buffer never
\* overflows, though kill() clears the vector behind the offset being read.
THEOREM TypeCorrect == Spec => []TypeOK
<1>1. IInv => TypeOK
  BY DEF IInv
<1> QED BY <1>1, Soundness, PTL

\* However the unlocked test of killed and the store of pb fall against
\* kill(), at most one more source starts before a restart.
THEOREM OneLateSourceAtMost == Spec => []AtMostOneLateSource
<1>1. IInv => AtMostOneLateSource
  BY DEF IInv, LateBound, AtMostOneLateSource
<1> QED BY <1>1, Soundness, PTL
-----------------------------------------------------------------------------
\* From a dark head under a finished kill no step leads to light except a
\* restart.
LEMMA DarkStep ==
    ASSUME IInv, KillDone, Dark, killed', Next
    PROVE  Dark'
<1> USE DEF Dark, KillDone, shared, locals, None
<1>1. CASE FirstFrame \/ SecondFrame
  BY <1>1 DEF FirstFrame, SecondFrame, NextFrame
<1>2. CASE TestKilled \/ StorePlayback
  BY <1>2 DEF TestKilled, StorePlayback
<1>3. CASE AskAgain
  BY <1>3 DEF AskAgain, IInv, EmptyHanded
<1>4. CASE ShowFrame
  BY <1>4 DEF ShowFrame
<1>5. CASE \/ dataRequested \/ TestSpace \/ GivePoints \/ Advance \/ CheckEnd
           \/ ChooseSource \/ MoreOrBreak \/ dump
  BY <1>5 DEF dataRequested, TestSpace, GivePoints, Advance, CheckEnd, ChooseSource,
              MoreOrBreak, dump
<1>6. CASE TornPointer \/ kill \/ FinishKill \/ timeout \/ DumpRequested
  BY <1>6 DEF TornPointer, kill, FinishKill, KillDrops, KillRewinds, KillClears,
              timeout, DumpRequested
<1>7. CASE restart
  BY <1>7 DEF restart
<1>8. CASE Gone
  BY <1>8 DEF Gone, vars
<1> QED BY <1>1, <1>2, <1>3, <1>4, <1>5, <1>6, <1>7, <1>8 DEF Next, HeadStep

\* A killed head that has gone dark stays dark until it is restarted: no
\* event left in its queue, and no source it is asking for, lights it again.
THEOREM DarkForGood == Spec => DarkStaysDark
<1>1. IInv /\ [Next]_vars => [KillDone /\ Dark /\ killed' => Dark']_vars
  BY DarkStep
<1> QED BY <1>1, Soundness, PTL DEF Spec, DarkStaysDark

-----------------------------------------------------------------------------
(***************************************************************************)
(* The unlocked counter of the dummy driver stays within the buffer, for   *)
(* every buffer size, tick and offer.                                      *)
(*                                                                         *)
(* The argument: only the head raises the counter and only the timer       *)
(* lowers it.  So room that the head has seen is still there when it       *)
(* writes, and a value the timer has read is never above the counter.      *)
(***************************************************************************)

\* What the head has computed still fits.
HeadFits ==
    /\ headPC = "clip" => space >= 0 /\ buffer_fill_ + space <= BUFFER_SZ
    /\ headPC = "load" => used >= 0 /\ buffer_fill_ + used <= BUFFER_SZ
    /\ headPC = "store" => /\ used >= 0
                           /\ buffer_fill_ <= headReg
                           /\ headReg + used <= BUFFER_SZ

\* What the timer has read is not above the counter, and a tick fits in it.
TimerFits ==
    /\ timerPC = "load" => buffer_fill_ > TickPoints
    /\ timerPC = "store" => TickPoints < timerReg /\ timerReg <= buffer_fill_

DriverIInv == DriverTypeOK /\ FillInBuffer /\ HeadFits /\ TimerFits

\* The initial state satisfies the invariant.
LEMMA DriverInitIInv == DriverInit => DriverIInv
<1> SUFFICES ASSUME DriverInit PROVE DriverIInv
  OBVIOUS
<1>1. DriverTypeOK
  <2>1. requests \in BOOLEAN
    BY Zenon DEF DriverInit
  <2> QED BY <2>1 DEF DriverInit, DriverTypeOK
<1>2. FillInBuffer
  BY DriverAssumption DEF DriverInit, FillInBuffer
<1>3. HeadFits /\ TimerFits
  BY DEF DriverInit, HeadFits, TimerFits
<1> QED BY <1>1, <1>2, <1>3 DEF DriverIInv

\* One step of either thread keeps the invariant.
LEMMA DriverNextIInv == DriverIInv /\ [DriverNext]_driverVars => DriverIInv'
<1> SUFFICES ASSUME DriverIInv, [DriverNext]_driverVars PROVE DriverIInv'
  OBVIOUS
<1> USE DriverAssumption
    DEF DriverIInv, DriverTypeOK, FillInBuffer, HeadFits, TimerFits, head, timer
<1>1. CASE DataRequested
  BY <1>1 DEF DataRequested
<1>2. CASE BufferFillStatus
  BY <1>2 DEF BufferFillStatus
<1>3. CASE ReadSpace
  BY <1>3 DEF ReadSpace
<1>4. ASSUME NEW offered \in 0..MaxPoints, ClipToSpace(offered)
      PROVE  DriverIInv'
  BY <1>4 DEF ClipToSpace
<1>5. CASE LoadFill
  BY <1>5 DEF LoadFill
<1>6. CASE StoreFill
  BY <1>6 DEF StoreFill
<1>7. CASE TestFill
  BY <1>7 DEF TestFill
<1>8. CASE LoadTick
  BY <1>8 DEF LoadTick
<1>9. CASE StoreTick
  BY <1>9 DEF StoreTick
<1>10. CASE ZeroTick
  BY <1>10 DEF ZeroTick
<1>11. CASE UNCHANGED driverVars
  BY <1>11 DEF driverVars
<1> QED
  BY <1>1, <1>2, <1>3, <1>4, <1>5, <1>6, <1>7, <1>8, <1>9, <1>10, <1>11
     DEF DriverNext, FillStep, TimerStep

\* The inductive invariant holds throughout.
THEOREM DriverInductive == DriverSpec => []DriverIInv
  BY DriverInitIInv, DriverNextIInv, PTL DEF DriverSpec

\* The counter never leaves the buffer, so no unsigned difference wraps.
THEOREM FillAlwaysInBuffer == DriverSpec => []FillInBuffer
<1>1. DriverIInv => FillInBuffer
  BY DEF DriverIInv
<1> QED BY <1>1, DriverInductive, PTL

\* A tick never raises the counter.
THEOREM TickDrains == DriverSpec => TickOnlyDrains
<1>1. DriverIInv /\ [DriverNext]_driverVars =>
          [TimerStep => buffer_fill_' <= buffer_fill_]_driverVars
  <2> SUFFICES ASSUME DriverIInv, TimerStep
               PROVE  buffer_fill_' <= buffer_fill_
    OBVIOUS
  <2> USE DriverAssumption DEF DriverIInv, DriverTypeOK, FillInBuffer, TimerFits, head, timer
  <2>1. CASE TestFill \/ LoadTick
    BY <2>1 DEF TestFill, LoadTick
  <2>2. CASE StoreTick
    BY <2>2 DEF StoreTick
  <2>3. CASE ZeroTick
    BY <2>3 DEF ZeroTick
  <2> QED BY <2>1, <2>2, <2>3 DEF TimerStep
<1> QED BY <1>1, DriverInductive, PTL DEF DriverSpec, TickOnlyDrains

-----------------------------------------------------------------------------
(***************************************************************************)
(* Resample::run() keeps pace with its input and copies out every point    *)
(* once, for every pair of rates, size of the buffers and of the frames.   *)
(*                                                                         *)
(* The argument: the resampler's two counters nr and ph are the remainder  *)
(* of a long division.  After n points read and w points written,          *)
(*     (n + nr - latency) * output rate + ph = w * input rate              *)
(* whatever the boundaries of blocks, buffers and frames were; ph is less  *)
(* than the output rate.  And the points of the output buffer follow those *)
(* copied out before.                                                      *)
(***************************************************************************)

inRate == rate[1]
outRate == rate[2]
latency == Latency(rate)

\* Points the resampler has read since it was set up.
Read == supplied - left - inp_count

\* Nothing is left over where a block or a frame ends.
BlockOK == /\ stage # "process" => inp_count = 0 /\ output = <<>>
           /\ stage = "idle" => left = 0

\* The long division.
RateOK == /\ Read \in Nat /\ Read + nr >= latency
          /\ (Read + nr - latency) * outRate + ph = written * inRate

\* The last point written did not come before its input.
CausalOK == written > 0 => /\ Read >= latency
                           /\ (written - 1) * inRate < (Read - latency + 1) * outRate

\* The first point of this call, if it is already written.
First == written - Len(output) - Len(res)

\* The result and the output buffer hold the points written in this call.
\* (After a set-up the result of the last call is not about the new count.)
PointsOK ==
    stage # "idle" \/ written > 0 =>
        /\ First \in Nat
        /\ \A i \in 1..Len(output) : output[i] = First + Len(res) + i - 1
        /\ res # <<>> => res[1] = [point |-> First, channel |-> 0]
        /\ \A i \in 1..Len(res) : res[i].point \in First..(First + Len(res) - 1)

\* The inductive invariant.
ResamplerIInv == ResamplerTypeOK /\ BlockOK /\ RateOK /\ CausalOK /\ PointsOK
-----------------------------------------------------------------------------
(***************************************************************************)
(* Arithmetic.                                                             *)
(***************************************************************************)
\* Division with remainder.
LEMMA Quotient ==
    ASSUME NEW x \in Nat, NEW d \in Nat \ {0}
    PROVE  /\ x \div d \in Nat /\ x % d \in 0..(d - 1)
           /\ x = (x \div d) * d + (x % d)
OBVIOUS

\* The quotient rounded up.
LEMMA RoundedUp ==
    ASSUME NEW x \in Nat, NEW d \in Nat \ {0}
    PROVE  /\ (x + d - 1) \div d \in Nat
           /\ ((x + d - 1) \div d) * d >= x
           /\ ((x + d - 1) \div d) * d <= x + d - 1
<1> DEFINE y == x + d - 1
           q == y \div d
           r == y % d
<1>1. y \in Nat
  OBVIOUS
<1>2. q \in Nat /\ r \in 0..(d - 1) /\ y = q * d + r
  BY <1>1, Quotient
<1>3. q * d \in Nat
  BY <1>2
<1> DEFINE p == q * d
<1>4. p \in Nat /\ r \in Nat /\ r <= d - 1 /\ y = p + r /\ y = x + d - 1
  BY <1>2, <1>3
<1> HIDE DEF p, r, y
<1>5. p >= x /\ p <= x + d - 1
  BY <1>4
<1> QED BY <1>2, <1>5 DEF p, y, q

\* Products grow with their factors.
LEMMA ProductGrows ==
    ASSUME NEW x \in Int, NEW y \in Int, NEW d \in Nat, x <= y
    PROVE  x * d <= y * d
<1>1. (y - x) * d >= 0
  OBVIOUS
<1>2. (y - x) * d = y * d - x * d
  OBVIOUS
<1> QED BY <1>1, <1>2

\* The rates and the sizes of the buffers.
LEMMA RateTypes ==
    ASSUME rate \in Rates
    PROVE  inRate \in Nat \ {0} /\ outRate \in Nat \ {0}
BY ResamplerAssumption DEF inRate, outRate

\* The filter reads at least one point before it writes, at every rate.
LEMMA LatencyType ==
    ASSUME NEW r \in Rates
    PROVE  Latency(r) \in Nat /\ Latency(r) >= 1
<1>1. /\ r[1] \in Nat \ {0} /\ r[2] \in Nat \ {0} /\ hlen \in Nat \ {0}
  BY ResamplerAssumption
<1>2. ASSUME NEW h \in Nat, h >= 1 PROVE 2 * h \in Nat /\ 2 * h >= 1
  BY <1>2
<1>3. CASE r[1] > r[2]
  <2> DEFINE x == hlen * r[1]
             q == (x + r[2] - 1) \div r[2]
  <2>1. x \in Nat /\ x >= 1
    BY <1>1
  <2> HIDE DEF x
  <2>2. q \in Nat /\ q * r[2] >= x
    BY <1>1, <2>1, RoundedUp
  <2>3. q >= 1
    <3> SUFFICES ASSUME q = 0 PROVE FALSE
      BY <2>2
    <3>1. 0 * r[2] = 0
      BY <1>1
    <3> HIDE DEF q
    <3> QED BY <2>1, <2>2, <3>1
  <2>4. Latency(r) = 2 * q
    BY <1>3 DEF Latency, x
  <2> HIDE DEF q
  <2> QED BY <1>2, <2>2, <2>3, <2>4
<1>4. CASE ~(r[1] > r[2])
  BY <1>1, <1>4 DEF Latency
<1> QED BY <1>3, <1>4
-----------------------------------------------------------------------------
(***************************************************************************)
(* Counting.                                                               *)
(***************************************************************************)
\* A point written takes ph one input rate further: the division goes on.
LEMMA DivisionKept ==
    ASSUME NEW n \in Nat, NEW w \in Nat, NEW a \in Nat \ {0}, NEW b \in Nat \ {0},
           NEW phase \in 0..(b - 1), NEW lat \in Nat, n >= lat,
           (n - lat) * b + phase = w * a
    PROVE  /\ (phase + a) \div b \in Nat /\ (phase + a) % b \in 0..(b - 1)
           /\ (n + ((phase + a) \div b) - lat) * b + ((phase + a) % b) = (w + 1) * a
           /\ w * a < (n - lat + 1) * b
<1> DEFINE q == (phase + a) \div b
           r == (phase + a) % b
           m == n - lat
<1>1. phase + a \in Nat /\ m \in Nat
  OBVIOUS
<1>2. q \in Nat /\ r \in 0..(b - 1) /\ phase + a = q * b + r
  BY <1>1, Quotient
<1>3. m * b + phase = w * a
  OBVIOUS
<1>4. n + q - lat = m + q
  BY <1>2
<1> HIDE DEF q, r, m
<1>5. (m + q) * b = m * b + q * b /\ (w + 1) * a = w * a + a /\ (m + 1) * b = m * b + b
  BY <1>1, <1>2
<1>6. m * b \in Nat /\ q * b \in Nat /\ w * a \in Nat
  BY <1>1, <1>2
<1>7. (m + q) * b + r = (w + 1) * a
  <2> DEFINE mb == m * b
             qb == q * b
             wa == w * a
  <2>1. mb \in Nat /\ qb \in Nat /\ wa \in Nat /\ r \in Nat
    BY <1>2, <1>6
  <2>2. mb + phase = wa /\ phase + a = qb + r
    BY <1>2, <1>3
  <2>3. (m + q) * b + r = mb + qb + r /\ (w + 1) * a = wa + a
    BY <1>5
  <2> HIDE DEF mb, qb, wa
  <2>4. mb + qb + r = wa + a
    BY <2>1, <2>2
  <2> QED BY <2>3, <2>4
<1>8. w * a < (m + 1) * b
  BY <1>3, <1>5, <1>6
<1>9. m + 1 = n - lat + 1
  BY DEF m
<1> QED BY <1>2, <1>4, <1>7, <1>8, <1>9 DEF q, r

\* What the division says of the points that could be written by now.
LEMMA Pace ==
    ASSUME NEW n \in Nat, NEW w \in Nat, NEW a \in Nat \ {0}, NEW b \in Nat \ {0},
           NEW lat \in Nat, n >= lat
    PROVE  LET all == ((n - lat + 1) * b + a - 1) \div a
           IN  /\ all \in Nat
               /\ (n - lat) * b <= w * a => all - w <= (b + a - 1) \div a
               /\ (w - 1) * a < (n - lat + 1) * b => w <= all
<1> DEFINE m == n - lat
           x == (m + 1) * b
           all == (x + a - 1) \div a
           each == (b + a - 1) \div a
<1>1. m \in Nat /\ x \in Nat /\ x = m * b + b /\ m * b \in Nat /\ w * a \in Nat
  <2>1. m \in Nat
    OBVIOUS
  <2> HIDE DEF m
  <2> QED BY <2>1
<1> HIDE DEF m
<1>2. all \in Nat /\ all * a >= x /\ all * a <= x + a - 1
  BY <1>1, RoundedUp
<1>3. each \in Nat /\ each * a >= b
  BY RoundedUp
<1> HIDE DEF x, all, each
<1>4. ASSUME m * b <= w * a PROVE all - w <= each
  <2> SUFFICES ASSUME w + each + 1 <= all PROVE FALSE
    BY <1>2, <1>3
  <2>1. (w + each + 1) * a <= all * a
    BY <1>2, <1>3, ProductGrows
  <2>2. (w + each + 1) * a = w * a + each * a + a
    BY <1>3
  <2>3. each * a \in Nat /\ all * a \in Nat
    BY <1>2, <1>3
  <2> QED BY <1>1, <1>2, <1>3, <1>4, <2>1, <2>2, <2>3
<1>5. ASSUME (w - 1) * a < x PROVE w <= all
  <2> SUFFICES ASSUME all <= w - 1 PROVE FALSE
    BY <1>2
  <2>1. all * a <= (w - 1) * a
    BY <1>2, ProductGrows
  <2>2. all * a \in Nat /\ (w - 1) * a \in Int
    BY <1>2
  <2> QED BY <1>1, <1>2, <1>5, <2>1, <2>2
<1> QED BY <1>2, <1>4, <1>5 DEF m, x, all, each
-----------------------------------------------------------------------------
(***************************************************************************)
(* The steps.                                                              *)
(***************************************************************************)
\* What every step uses of the invariant.
LEMMA Counts ==
    ASSUME ResamplerIInv
    PROVE  /\ ResamplerTypeOK /\ BlockOK /\ RateOK /\ CausalOK /\ PointsOK
           /\ nr \in Nat /\ left \in Nat /\ inp_count \in Nat /\ supplied \in Nat
           /\ written \in Nat /\ ph \in Nat /\ latency \in Nat /\ latency >= 1
           /\ RESAMPLE_SZ \in Nat /\ RESAMPLE_SZ >= 1
           /\ inRate \in Nat \ {0} /\ outRate \in Nat \ {0} /\ ph \in 0..(outRate - 1)
           /\ Len(output) \in Nat /\ Len(res) \in Nat
<1>1. ResamplerTypeOK /\ BlockOK /\ RateOK /\ CausalOK /\ PointsOK
  BY DEF ResamplerIInv
<1>2. Len(output) \in Nat /\ Len(res) \in Nat
  BY <1>1, LenProperties DEF ResamplerTypeOK
<1>3. inRate \in Nat \ {0} /\ outRate \in Nat \ {0} /\ ph \in 0..(outRate - 1)
  BY <1>1, RateTypes DEF ResamplerTypeOK, outRate
<1>4. latency \in Nat /\ latency >= 1
  BY <1>1, LatencyType DEF ResamplerTypeOK, latency
<1> QED BY <1>1, <1>2, <1>3, <1>4, ResamplerAssumption DEF ResamplerTypeOK

\* The counts are kept by a step that reads and writes nothing.
LEMMA CountsKept ==
    ASSUME ResamplerIInv, UNCHANGED <<rate, nr, ph, written>>, Read' = Read
    PROVE  RateOK' /\ CausalOK'
BY DEF ResamplerIInv, RateOK, CausalOK, inRate, outRate, latency

\* A set-up starts the division anew.
LEMMA SetUpCounts ==
    ASSUME rate' \in Rates, nr' = Latency(rate'), ph' = 0, supplied' = 0, written' = 0,
           left' = 0, inp_count' = 0
    PROVE  RateOK' /\ CausalOK' /\ ph' \in 0..(rate'[2] - 1)
<1>1. inRate' \in Nat \ {0} /\ outRate' \in Nat \ {0}
  BY ResamplerAssumption DEF inRate, outRate
<1>2. Read' = 0 /\ nr' = latency' /\ latency' \in Nat
  BY LatencyType DEF Read, latency
<1>3. RateOK'
  <2>1. Read' + nr' - latency' = 0 /\ Read' + nr' >= latency'
    <3>1. \A x \in Nat : 0 + x - x = 0 /\ 0 + x >= x
      OBVIOUS
    <3> QED BY <1>2, <3>1, Zenon
  <2>2. \A x \in Int : 0 * x = 0
    OBVIOUS
  <2>3. inRate' \in Int /\ outRate' \in Int
    BY <1>1
  <2>4. (Read' + nr' - latency') * outRate' + ph' = written' * inRate'
    BY <2>1, <2>2, <2>3
  <2> QED BY <1>2, <2>1, <2>4 DEF RateOK
<1>4. CausalOK'
  BY DEF CausalOK
<1> QED BY <1>1, <1>3, <1>4 DEF outRate

LEMMA ResamplerInitIInv == ResamplerInit => ResamplerIInv
<1> SUFFICES ASSUME ResamplerInit PROVE ResamplerIInv
  OBVIOUS
<1>1. inRate \in Nat \ {0} /\ outRate \in Nat \ {0}
  BY RateTypes DEF ResamplerInit
<1>2. <<>> \in Seq(Nat) /\ <<>> \in Seq([point : Nat, channel : 0..(Channels - 1)]) /\ Len(<<>>) = 0
  OBVIOUS
<1>3. ResamplerTypeOK
  BY <1>1, <1>2, LatencyType, ResamplerAssumption DEF ResamplerInit, ResamplerTypeOK, outRate
<1>4. BlockOK
  BY DEF ResamplerInit, BlockOK
<1>5. Read = 0
  BY DEF ResamplerInit, Read
<1>6. RateOK
  <2>1. Read + nr - latency = 0 /\ Read + nr >= latency /\ latency \in Nat
    <3>1. nr = latency /\ latency \in Nat
      BY LatencyType DEF ResamplerInit, latency
    <3> QED BY <1>5, <3>1
  <2>2. 0 * outRate = 0 /\ 0 * inRate = 0
    BY <1>1
  <2> QED BY <1>5, <2>1, <2>2 DEF ResamplerInit, RateOK
<1>7. CausalOK /\ PointsOK
  BY DEF ResamplerInit, CausalOK, PointsOK
<1> QED BY <1>3, <1>4, <1>6, <1>7 DEF ResamplerIInv

LEMMA SetPPSKept ==
    ASSUME ResamplerIInv, NEW r \in Rates, setPPS(r)
    PROVE  ResamplerIInv'
<1> USE DEF setPPS, set_resampler
<1>1. ResamplerTypeOK /\ BlockOK /\ stage = "idle" /\ left' = 0 /\ inp_count' = 0
  BY DEF ResamplerIInv, BlockOK
<1>2. RateOK' /\ CausalOK' /\ ph' \in 0..(rate'[2] - 1)
  BY <1>1, SetUpCounts
<1>3. ResamplerTypeOK'
  BY <1>1, <1>2, LatencyType, ResamplerAssumption DEF ResamplerTypeOK
<1>4. BlockOK' /\ PointsOK'
  BY <1>1 DEF BlockOK, PointsOK
<1> QED BY <1>2, <1>3, <1>4 DEF ResamplerIInv

LEMMA RunKept ==
    ASSUME ResamplerIInv, NEW n \in FrameSizes, run(n)
    PROVE  ResamplerIInv'
<1> USE DEF run
<1>1. n \in Nat
  BY ResamplerAssumption
<1>2. ResamplerTypeOK'
  <2>1. frames + 1 \in 0..MaxFrames /\ supplied + n \in Nat
    <3>1. frames \in 0..MaxFrames /\ supplied \in Nat /\ MaxFrames \in Nat
      BY Counts, ResamplerAssumption DEF ResamplerTypeOK
    <3> QED BY <1>1, <3>1
  <2>2. <<>> \in Seq([point : Nat, channel : 0..(Channels - 1)])
    OBVIOUS
  <2> QED BY <1>1, <2>1, <2>2, Counts DEF ResamplerTypeOK
<1>3. BlockOK'
  BY Counts DEF BlockOK
<1>4. Read' = Read
  BY <1>1, Counts DEF Read, BlockOK
<1>5. RateOK' /\ CausalOK'
  BY <1>4, CountsKept
<1>6. PointsOK'
  <2>1. output' = <<>> /\ res' = <<>> /\ written' = written
    BY Counts DEF BlockOK
  <2>2. First' = written
    BY <2>1, Counts DEF First
  <2> QED BY <2>1, <2>2, Counts DEF PointsOK
<1> QED BY <1>2, <1>3, <1>5, <1>6 DEF ResamplerIInv

LEMMA NextBlockKept ==
    ASSUME ResamplerIInv, NextBlock
    PROVE  ResamplerIInv'
<1> DEFINE block == IF left < RESAMPLE_SZ THEN left ELSE RESAMPLE_SZ
<1>1. /\ stage = "block" /\ left' = left - block /\ inp_count' = block
      /\ stage' = (IF block = 0 THEN "idle" ELSE "process")
      /\ output' = <<>> /\ UNCHANGED <<rate, nr, ph, res, supplied, written, frames>>
  BY DEF NextBlock
<1>2. block \in Nat /\ block <= left /\ block <= RESAMPLE_SZ /\ (block = 0 => left = 0)
  BY Counts
<1>3. output = <<>> /\ inp_count = 0
  BY <1>1, Counts DEF BlockOK
<1> HIDE DEF block
<1>4. ResamplerTypeOK'
  BY <1>1, <1>2, <1>3, Counts, SMTT(20) DEF ResamplerTypeOK
<1>5. BlockOK'
  BY <1>1, <1>2, Counts DEF BlockOK
<1>6. Read' = Read
  BY <1>1, <1>2, <1>3, Counts DEF Read
<1>7. RateOK' /\ CausalOK'
  BY <1>1, <1>6, CountsKept
<1>8. PointsOK'
  <2>1. output' = output /\ First' = First
    BY <1>1, <1>3 DEF First
  <2> QED BY <1>1, <2>1, Counts DEF PointsOK
<1> QED BY <1>4, <1>5, <1>7, <1>8 DEF ResamplerIInv

\* A point read is one fewer to read.
LEMMA ReadPointKept ==
    ASSUME ResamplerIInv, ReadPoint
    PROVE  ResamplerIInv'
<1>1. /\ stage = "process" /\ nr > 0 /\ inp_count > 0 /\ nr' = nr - 1 /\ inp_count' = inp_count - 1
      /\ UNCHANGED <<rate, ph, stage, left, output, res, supplied, written, frames>>
  BY DEF ReadPoint
<1>2. /\ ResamplerTypeOK /\ BlockOK /\ PointsOK /\ nr \in Nat /\ inp_count \in 0..RESAMPLE_SZ
      /\ left \in Nat /\ supplied \in Nat /\ RESAMPLE_SZ \in Nat
  BY Counts DEF ResamplerTypeOK
<1>3. ResamplerTypeOK' /\ BlockOK' /\ PointsOK'
  <2>1. nr' \in Nat /\ inp_count' \in 0..RESAMPLE_SZ
    BY <1>1, <1>2
  <2>2. ResamplerTypeOK'
    BY <1>1, <1>2, <2>1 DEF ResamplerTypeOK
  <2> QED BY <1>1, <1>2, <2>2 DEF BlockOK, PointsOK, First
<1>4. /\ Read \in Nat /\ Read + nr >= latency /\ latency \in Nat
      /\ (Read + nr - latency) * outRate + ph = written * inRate
      /\ inRate \in Nat /\ outRate \in Nat /\ written \in Nat
  BY Counts DEF RateOK
<1>5. Read' = Read + 1
  BY <1>1, <1>2 DEF Read
<1>6. /\ Read' + nr' = Read + nr /\ Read' + nr' - latency = Read + nr - latency
      /\ Read' \in Nat
  BY <1>1, <1>2, <1>4, <1>5
<1>7. /\ inRate' = inRate /\ outRate' = outRate /\ latency' = latency
      /\ ph' = ph /\ written' = written
  BY <1>1 DEF inRate, outRate, latency
<1>8. RateOK'
  BY <1>4, <1>6, <1>7 DEF RateOK
<1>9. CausalOK'
  <2> DEFINE x == (written - 1) * inRate
             y == (Read - latency + 1) * outRate
             z == (Read + 1 - latency + 1) * outRate
  <2>1. ASSUME written > 0 PROVE Read + 1 >= latency /\ x < z
    <3>1. Read >= latency /\ x < y
      BY <2>1, Counts DEF CausalOK
    <3>2. y <= z
      <4>1. /\ Read - latency + 1 \in Int /\ Read + 1 - latency + 1 \in Int
            /\ Read - latency + 1 <= Read + 1 - latency + 1
        BY <1>4
      <4> QED BY <1>4, <4>1, ProductGrows, Zenon
    <3>3. x \in Int /\ y \in Int /\ z \in Int
      BY <1>4
    <3> HIDE DEF x, y, z
    <3> QED BY <1>4, <3>1, <3>2, <3>3
  <2>2. written > 0 => /\ Read + 1 >= latency
                       /\ (written - 1) * inRate < (Read + 1 - latency + 1) * outRate
    BY <2>1
  <2>3. written' > 0 => /\ Read' >= latency'
                        /\ (written' - 1) * inRate' < (Read' - latency' + 1) * outRate'
    <3>1. (written' - 1) * inRate' = (written - 1) * inRate
      BY <1>7, Zenon
    <3>2. (Read' - latency' + 1) * outRate' = (Read + 1 - latency + 1) * outRate
      <4>1. Read' - latency' + 1 = Read + 1 - latency + 1
        BY <1>4, <1>5, <1>7
      <4> QED BY <1>7, <4>1, Zenon
    <3> QED BY <1>5, <1>7, <2>2, <3>1, <3>2, Zenon
  <2> QED BY <2>3 DEF CausalOK
<1> QED BY <1>3, <1>8, <1>9 DEF ResamplerIInv

\* A point written goes to the end of the output buffer.
LEMMA WritePointKept ==
    ASSUME ResamplerIInv, WritePoint
    PROVE  ResamplerIInv'
<1>1. /\ stage = "process" /\ Len(output) < RESAMPLE_SZ /\ nr = 0
      /\ output' = Append(output, written) /\ written' = written + 1
      /\ nr' = (ph + inRate) \div outRate /\ ph' = (ph + inRate) % outRate
      /\ UNCHANGED <<rate, stage, left, inp_count, res, supplied, frames>>
  BY DEF WritePoint, inRate, outRate
<1>2. /\ Read \in Nat /\ Read >= latency /\ latency \in Nat /\ written \in Nat
      /\ ph \in 0..(outRate - 1) /\ inRate \in Nat \ {0} /\ outRate \in Nat \ {0}
  BY <1>1, Counts DEF RateOK
<1>3. (Read - latency) * outRate + ph = written * inRate
  <2>1. (Read + 0 - latency) * outRate + ph = written * inRate
    BY <1>1, Counts DEF RateOK
  <2>2. Read + 0 - latency = Read - latency
    BY <1>2
  <2> QED BY <2>1, <2>2
<1>4. /\ nr' \in Nat /\ ph' \in 0..(outRate - 1)
      /\ (Read + nr' - latency) * outRate + ph' = (written + 1) * inRate
      /\ written * inRate < (Read - latency + 1) * outRate
  BY <1>1, <1>2, <1>3, DivisionKept
<1>5. Read' = Read /\ inRate' = inRate /\ outRate' = outRate /\ latency' = latency
  BY <1>1 DEF Read, inRate, outRate, latency
<1>6. RateOK'
  <2>1. (Read' + nr' - latency') * outRate' + ph' = written' * inRate'
    BY <1>1, <1>4, <1>5, Zenon
  <2>2. Read' \in Nat /\ Read' + nr' >= latency'
    <3>1. nr' \in Nat
      BY <1>4, Zenon
    <3>2. Read' \in Nat /\ Read' >= latency' /\ latency' \in Nat
      BY <1>2, <1>5, Zenon
    <3>3. Read' + nr' >= latency'
      <4>1. \A x \in Nat, y \in Nat, z \in Nat : x >= z => x + y >= z
        OBVIOUS
      <4> QED BY <3>1, <3>2, <4>1, Zenon
    <3> QED BY <3>2, <3>3
  <2> QED BY <2>1, <2>2, Zenon DEF RateOK
<1>7. CausalOK'
  <2>1. written' - 1 = written
    BY <1>1, <1>2
  <2>2. (written' - 1) * inRate' < (Read' - latency' + 1) * outRate'
    BY <1>4, <1>5, <2>1, Zenon
  <2> QED BY <1>2, <1>5, <2>2, Zenon DEF CausalOK
<1> DEFINE n == Len(output)
<1>8. /\ n \in Nat /\ output \in Seq(Nat) /\ output' \in Seq(Nat) /\ Len(output') = n + 1
      /\ \A i \in 1..n : output'[i] = output[i]
      /\ output'[n + 1] = written
  <2>1. n \in Nat /\ output \in Seq(Nat)
    BY Counts DEF ResamplerTypeOK
  <2> QED BY <1>1, <1>2, <2>1, AppendProperties
<1>9. ResamplerTypeOK'
  <2>1. n + 1 <= RESAMPLE_SZ
    BY <1>1, <1>8, Counts
  <2>2. ph' \in 0..(rate'[2] - 1)
    BY <1>1, <1>4 DEF outRate
  <2> QED BY <1>1, <1>2, <1>4, <1>8, <2>1, <2>2, Counts DEF ResamplerTypeOK
<1>10. BlockOK'
  BY <1>1 DEF BlockOK
<1>11. PointsOK'
  <2>1. /\ First \in Nat /\ Len(res) \in Nat
        /\ \A i \in 1..n : output[i] = First + Len(res) + i - 1
        /\ res # <<>> => res[1] = [point |-> First, channel |-> 0]
        /\ \A i \in 1..Len(res) : res[i].point \in First..(First + Len(res) - 1)
    BY <1>1, Counts DEF PointsOK
  <2>2. First' = First
    BY <1>1, <1>2, <1>8, <2>1 DEF First
  <2>3. written = First + Len(res) + (n + 1) - 1
    BY <1>2, <1>8, <2>1 DEF First
  <2>4. \A i \in 1..(n + 1) : output'[i] = First + Len(res) + i - 1
    <3> SUFFICES ASSUME NEW i \in 1..(n + 1) PROVE output'[i] = First + Len(res) + i - 1
      OBVIOUS
    <3> HIDE DEF n
    <3>1. CASE i = n + 1
      BY <1>8, <2>3, <3>1
    <3>2. CASE i # n + 1
      <4>1. i \in 1..n
        BY <1>8, <3>2
      <4> QED BY <1>8, <2>1, <4>1
    <3> QED BY <3>1, <3>2
  <2> QED BY <1>1, <1>8, <2>1, <2>2, <2>4 DEF PointsOK
<1> QED BY <1>6, <1>7, <1>9, <1>10, <1>11 DEF ResamplerIInv

Points == [point : Nat, channel : 0..(Channels - 1)]

\* What is copied out of the buffer: as many points as it has, the first of
\* them its first, each taken from one of them.
LEMMA CopiedOutFacts ==
    ASSUME output \in Seq(Nat)
    PROVE  /\ CopiedOut \in Seq(Points) /\ Len(CopiedOut) = Len(output)
           /\ output # <<>> => CopiedOut[1] = [point |-> output[1], channel |-> 0]
           /\ \A i \in 1..Len(output) : \E j \in 1..Len(output) : CopiedOut[i].point = output[j]
<1> DEFINE n == Len(output)
           j(i) == (i - 1) \div Channels + 1
           c(i) == [point |-> output[j(i)], channel |-> (i - 1) % Channels]
<1>1. n \in Nat /\ (output # <<>> => n >= 1)
  BY LenProperties, EmptySeq
<1>2. ASSUME NEW i \in 1..n PROVE j(i) \in 1..n /\ (i - 1) % Channels \in 0..(Channels - 1)
  BY <1>1 DEF Channels
<1>3. CopiedOut = [i \in 1..n |-> c(i)]
  BY DEF CopiedOut
<1>4. ASSUME NEW i \in 1..n
      PROVE  CopiedOut[i] = c(i) /\ c(i) \in Points /\ CopiedOut[i].point = output[j(i)]
  <2>1. output[j(i)] \in Nat
    BY <1>2, ElementOfSeq
  <2> QED BY <1>2, <1>3, <2>1 DEF Points
<1>5. CopiedOut \in [1..n -> Points]
  BY <1>3, <1>4
<1>6. CopiedOut \in Seq(Points) /\ Len(CopiedOut) = n
  <2> DEFINE s == CopiedOut
  <2>1. s \in [1..n -> Points] /\ DOMAIN s = 1..n
    BY <1>3, <1>5
  <2> HIDE DEF s, n
  <2>2. s \in Seq(Points)
    BY <1>1, <2>1, SeqDef
  <2>3. DOMAIN s = 1..Len(s) /\ Len(s) \in Nat
    BY <2>2, LenProperties
  <2>4. Len(s) = n
    BY <1>1, <2>1, <2>3
  <2> QED BY <2>2, <2>4 DEF s
<1>7. ASSUME output # <<>> PROVE CopiedOut[1] = [point |-> output[1], channel |-> 0]
  <2>1. 1 \in 1..n
    BY <1>1, <1>7
  <2>2. j(1) = 1 /\ (1 - 1) % Channels = 0
    BY DEF Channels
  <2> QED BY <1>4, <2>1, <2>2
<1>8. ASSUME NEW i \in 1..n PROVE \E k \in 1..n : CopiedOut[i].point = output[k]
  BY <1>2, <1>4
<1> QED BY <1>6, <1>7, <1>8

\* The output buffer is copied behind the result.
LEMMA ProcessReturnsKept ==
    ASSUME ResamplerIInv, ProcessReturns
    PROVE  ResamplerIInv'
<1> DEFINE m == Len(res)
           n == Len(output)
           copy == CopiedOut
<1>1. /\ stage = "process" /\ res' = res \o copy /\ output' = <<>>
      /\ stage' = (IF inp_count > 0 THEN "process" ELSE "block")
      /\ UNCHANGED <<rate, nr, ph, left, inp_count, supplied, written, frames>>
  BY DEF ProcessReturns
<1>2. /\ output \in Seq(Nat) /\ res \in Seq(Points) /\ m \in Nat /\ n \in Nat /\ inp_count \in Nat
  BY Counts DEF ResamplerTypeOK, Points
<1>3. /\ copy \in Seq(Points) /\ Len(copy) = n
      /\ output # <<>> => copy[1] = [point |-> output[1], channel |-> 0]
      /\ \A i \in 1..n : \E j \in 1..n : copy[i].point = output[j]
  BY <1>2, CopiedOutFacts
<1> HIDE DEF copy
<1>4. /\ res' \in Seq(Points) /\ Len(res') = m + n
      /\ \A i \in 1..(m + n) : res'[i] = IF i <= m THEN res[i] ELSE copy[i - m]
  <2> DEFINE s == res
  <2>1. s \in Seq(Points) /\ Len(s) = m
    BY <1>2
  <2> HIDE DEF s, m, n
  <2>2. /\ s \o copy \in Seq(Points) /\ Len(s \o copy) = m + n
        /\ \A i \in 1..(m + n) : (s \o copy)[i] = IF i <= m THEN s[i] ELSE copy[i - m]
    <3> DEFINE both == s \o copy
    <3>1. /\ both \in Seq(Points) /\ Len(both) = Len(s) + Len(copy)
          /\ \A i \in 1..(Len(s) + Len(copy)) :
                both[i] = IF i <= Len(s) THEN s[i] ELSE copy[i - Len(s)]
      BY <1>3, <2>1, ConcatProperties, Zenon
    <3>2. Len(s) = m /\ Len(copy) = n
      BY <1>3, <2>1, Zenon
    <3> HIDE DEF both
    <3>3. /\ both \in Seq(Points) /\ Len(both) = m + n
          /\ \A i \in 1..(m + n) : both[i] = IF i <= m THEN s[i] ELSE copy[i - m]
      BY <3>1, <3>2
    <3> QED BY <3>3, Zenon DEF both
  <2>3. res' = s \o copy /\ res = s
    BY <1>1, Zenon DEF s
  <2> QED BY <2>2, <2>3, Zenon
<1>5. ResamplerTypeOK'
  <2>1. <<>> \in Seq(Nat) /\ Len(<<>>) = 0 /\ 0 <= RESAMPLE_SZ
    BY Counts
  <2> QED BY <1>1, <1>4, <2>1, Counts DEF ResamplerTypeOK, Points
<1>6. BlockOK'
  BY <1>1, <1>2 DEF BlockOK
<1>7. RateOK' /\ CausalOK'
  <2>1. Read' = Read
    BY <1>1 DEF Read
  <2> QED BY <1>1, <2>1, CountsKept
<1>8. PointsOK'
  <2>1. /\ First \in Nat
        /\ \A i \in 1..n : output[i] = First + m + i - 1
        /\ res # <<>> => res[1] = [point |-> First, channel |-> 0]
        /\ \A i \in 1..m : res[i].point \in First..(First + m - 1)
    BY <1>1, Counts DEF PointsOK
  <2>2. First' = First
    BY <1>1, <1>2, <1>4, Counts DEF First
  <2> HIDE DEF m, n
  <2>3. ASSUME res' # <<>> PROVE res'[1] = [point |-> First, channel |-> 0]
    <3>1. CASE res # <<>>
      <4>1. m >= 1 /\ 1 \in 1..(m + n) /\ 1 <= m
        BY <1>2, <3>1, EmptySeq DEF m
      <4> QED BY <1>4, <2>1, <3>1, <4>1
    <3>2. CASE res = <<>>
      <4>1. m = 0
        BY <3>2 DEF m
      <4>2. n >= 1 /\ output # <<>>
        <5>1. Len(res') # 0
          BY <1>4, <2>3, EmptySeq
        <5>2. n # 0
          BY <1>2, <1>4, <4>1, <5>1
        <5> QED BY <1>2, <5>2 DEF n
      <4>3. output[1] = First /\ 1 \in 1..(m + n) /\ ~(1 <= m) /\ 1 - m = 1
        BY <1>2, <2>1, <4>1, <4>2
      <4> QED BY <1>3, <1>4, <4>2, <4>3
    <3> QED BY <3>1, <3>2
  <2>4. ASSUME NEW i \in 1..(m + n) PROVE res'[i].point \in First..(First + (m + n) - 1)
    <3>1. CASE i <= m
      <4>1. i \in 1..m /\ res'[i] = res[i]
        BY <1>2, <1>4, <3>1
      <4>2. res[i].point \in First..(First + m - 1)
        BY <2>1, <4>1
      <4> QED BY <1>2, <2>1, <4>1, <4>2
    <3>2. CASE ~(i <= m)
      <4>1. i - m \in 1..n /\ res'[i] = copy[i - m]
        BY <1>2, <1>4, <3>2
      <4>2. PICK j \in 1..n : copy[i - m].point = output[j]
        BY <1>3, <4>1
      <4>3. output[j] = First + m + j - 1
        BY <2>1
      <4> QED BY <1>2, <2>1, <4>1, <4>2, <4>3
    <3> QED BY <3>1, <3>2
  <2> QED BY <1>1, <1>4, <2>1, <2>2, <2>3, <2>4 DEF PointsOK
<1> QED BY <1>5, <1>6, <1>7, <1>8 DEF ResamplerIInv

LEMMA ResamplerNextIInv == ResamplerIInv /\ [ResamplerNext]_resamplerVars => ResamplerIInv'
<1> SUFFICES ASSUME ResamplerIInv, [ResamplerNext]_resamplerVars PROVE ResamplerIInv'
  OBVIOUS
<1>1. ASSUME NEW r \in Rates, setPPS(r) PROVE ResamplerIInv'
  BY <1>1, SetPPSKept
<1>2. ASSUME NEW n \in FrameSizes, run(n) PROVE ResamplerIInv'
  BY <1>2, RunKept
<1>3. CASE NextBlock
  BY <1>3, NextBlockKept
<1>4. CASE ReadPoint
  BY <1>4, ReadPointKept
<1>5. CASE WritePoint
  BY <1>5, WritePointKept
<1>6. CASE ProcessReturns
  BY <1>6, ProcessReturnsKept
<1>7. CASE UNCHANGED resamplerVars
  BY <1>7 DEF resamplerVars, ResamplerIInv, ResamplerTypeOK, BlockOK, RateOK, CausalOK,
              PointsOK, Read, First, inRate, outRate, latency
<1>8. Done => UNCHANGED resamplerVars
  BY DEF Done
<1> QED BY <1>1, <1>2, <1>3, <1>4, <1>5, <1>6, <1>7, <1>8 DEF ResamplerNext
-----------------------------------------------------------------------------
\* The inductive invariant holds in every reachable state.
THEOREM ResamplerSound == ResamplerSpec => []ResamplerIInv
<1>1. ResamplerInit => ResamplerIInv
  BY ResamplerInitIInv
<1>2. ResamplerIInv /\ [ResamplerNext]_resamplerVars => ResamplerIInv'
  BY ResamplerNextIInv
<1> QED BY <1>1, <1>2, PTL DEF ResamplerSpec

\* Every variable keeps its type: neither buffer of Resample::run() is overrun.
THEOREM ResamplerTypeCorrect == ResamplerSpec => []ResamplerTypeOK
<1>1. ResamplerIInv => ResamplerTypeOK
  BY DEF ResamplerIInv
<1> QED BY <1>1, ResamplerSound, PTL

\* For every pair of rates and however frames, blocks and buffers are cut,
\* run() has written all that its input allows when it returns, but for what
\* belongs to one point, and has never written a point too early.
THEOREM KeepsPace == ResamplerSpec => []AlmostAllWritten
<1>1. ResamplerIInv => AlmostAllWritten
  <2> SUFFICES ASSUME ResamplerIInv PROVE AlmostAllWritten
    OBVIOUS
  <2> DEFINE w == written
             a == inRate
             b == outRate
             each == (b + a - 1) \div a
  <2>1. /\ Read \in Nat /\ w \in Nat /\ a \in Nat \ {0} /\ b \in Nat \ {0} /\ latency \in Nat
        /\ supplied \in Nat /\ Read <= supplied /\ (stage = "idle" => Read = supplied)
    <3>1. Read \in Nat
      BY Counts DEF RateOK
    <3>2. supplied \in Nat /\ left \in Nat /\ inp_count \in Nat
      BY Counts
    <3>3. stage = "idle" => left = 0 /\ inp_count = 0
      BY Counts DEF BlockOK
    <3>4. Read <= supplied /\ (stage = "idle" => Read = supplied)
      BY <3>2, <3>3 DEF Read
    <3> QED BY <3>1, <3>2, <3>4, Counts
  <2>2. each \in Nat
    BY <2>1, RoundedUp
  <2>3. CASE supplied < latency
    <3>1. Writable(supplied) = 0
      BY <2>3 DEF Writable, latency
    <3>2. w = 0
      <4>1. ~(Read >= latency)
        BY <2>1, <2>3
      <4> QED BY <2>1, <4>1, Counts DEF CausalOK
    <3> HIDE DEF each
    <3>3. 0 - w <= each
      BY <2>1, <2>2, <3>2
    <3> QED BY <3>1, <3>2, <3>3 DEF AlmostAllWritten, each, inRate, outRate
  <2>4. CASE ~(supplied < latency)
    <3> DEFINE all == ((supplied - latency + 1) * b + a - 1) \div a
    <3>1. Writable(supplied) = all
      BY <2>4 DEF Writable, inRate, outRate, latency
    <3>2. supplied >= latency
      BY <2>1, <2>4
    <3>3. /\ all \in Nat
          /\ (supplied - latency) * b <= w * a => all - w <= each
          /\ (w - 1) * a < (supplied - latency + 1) * b => w <= all
      BY <2>1, <3>2, Pace
    <3>4. stage = "idle" => (supplied - latency) * b <= w * a
      <4> SUFFICES ASSUME stage = "idle" PROVE (supplied - latency) * b <= w * a
        OBVIOUS
      <4>1. (supplied + nr - latency) * b + ph = w * a /\ nr \in Nat /\ ph \in Nat
        BY <2>1, Counts DEF RateOK
      <4>2. (supplied - latency) * b <= (supplied + nr - latency) * b
        <5>1. /\ supplied - latency \in Int /\ supplied + nr - latency \in Int /\ b \in Nat
              /\ supplied - latency <= supplied + nr - latency
          BY <2>1, <4>1
        <5> QED BY <5>1, ProductGrows, Zenon
      <4>3. (supplied - latency) * b \in Int /\ (supplied + nr - latency) * b \in Int
        BY <2>1, <4>1
      <4> QED BY <4>1, <4>2, <4>3
    <3>5. w <= all
      <4>1. CASE w = 0
        BY <3>3, <4>1
      <4>2. CASE w > 0
        <5>1. (w - 1) * a < (Read - latency + 1) * b
          BY <4>2, Counts DEF CausalOK
        <5>2. (Read - latency + 1) * b <= (supplied - latency + 1) * b
          <6>1. /\ Read - latency + 1 \in Int /\ supplied - latency + 1 \in Int /\ b \in Nat
                /\ Read - latency + 1 <= supplied - latency + 1
            BY <2>1
          <6> QED BY <6>1, ProductGrows, Zenon
        <5>3. /\ (w - 1) * a \in Int /\ (Read - latency + 1) * b \in Int
              /\ (supplied - latency + 1) * b \in Int
          BY <2>1
        <5>4. (w - 1) * a < (supplied - latency + 1) * b
          BY <5>1, <5>2, <5>3
        <5> QED BY <3>3, <5>4
      <4> QED BY <2>1, <4>1, <4>2
    <3>6. stage = "idle" => all - w <= each
      BY <3>3, <3>4
    <3> HIDE DEF all, each
    <3> QED BY <3>1, <3>5, <3>6 DEF AlmostAllWritten, each, inRate, outRate
  <2> QED BY <2>3, <2>4
<1> QED BY <1>1, ResamplerSound, PTL

\* A call of run() returns one PointF for each point written in it, the first
\* of them right, none from an earlier buffer, however often the output buffer
\* was full.
THEOREM AlwaysOnePointEach == ResamplerSpec => []OnePointEach
<1>1. ResamplerIInv => OnePointEach
  <2> SUFFICES ASSUME ResamplerIInv, stage = "idle", written > 0
               PROVE  /\ res # <<>> => res[1] = [point |-> written - Len(res), channel |-> 0]
                      /\ \A i \in DOMAIN res : res[i].point \in (written - Len(res))..(written - 1)
    BY DEF OnePointEach
  <2>1. Len(output) = 0 /\ Len(res) \in Nat /\ written \in Nat /\ DOMAIN res = 1..Len(res)
    BY Counts, LenProperties DEF BlockOK, ResamplerTypeOK
  <2>2. First = written - Len(res) /\ First + Len(res) - 1 = written - 1
    BY <2>1 DEF First
  <2> QED BY <2>1, <2>2, Counts DEF PointsOK
<1> QED BY <1>1, ResamplerSound, PTL
=============================================================================
