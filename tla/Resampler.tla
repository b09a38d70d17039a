------------------------------- MODULE Resampler -------------------------------
(***************************************************************************)
(* Resample::run() (resampler.cpp): the points of a frame are copied into  *)
(* the input buffer block by block, the zita resampler reads them one by   *)
(* one and writes points at the rate of the hardware into the output       *)
(* buffer, and what it has written is copied out whenever the buffer is    *)
(* full or the block is used up.                                           *)
(*                                                                         *)
(* Points are told apart by their number: an input point is the count of   *)
(* points read before it, an output point the count of points written      *)
(* before it.  The filter's arithmetic is left out.                        *)
(***************************************************************************)
EXTENDS Integers, Sequences, SequencesExt

CONSTANTS
    RESAMPLE_SZ,    \* points in a buffer (1024 in the code)
    hlen,           \* half the filter's length, setup()'s last argument (16)
    MaxPhases,      \* output rate, divided, above which zita refuses a set-up (1000)
    Rates,          \* pairs <<input, output>> of points per second, divided by their gcd
    FrameSizes,     \* points of a frame
    MaxFrames       \* bound: frames and changes of rate

Channels == 5       \* x, y, r, g, b

ASSUME ResamplerAssumption ==
    /\ RESAMPLE_SZ \in Nat \ {0} /\ hlen \in Nat \ {0} /\ MaxPhases \in Nat
    /\ Rates \subseteq (Nat \ {0}) \X (Nat \ {0})
    /\ FrameSizes \subseteq Nat /\ MaxFrames \in Nat

VARIABLES
    rate,        \* the pair the resampler is set up for
    nr, ph,      \* zita: points to read before the next is written, and the phase
    stage,       \* "idle", "block", "process"
    left,        \* remaining_input and the points of the current block
    inp_count,   \* points of the block the resampler has not read
    output,      \* the output buffer: the numbers of the points in it
    res,         \* the result so far: where each PointF's x was taken from
    supplied, written,  \* history: points of frames, and written, since the set-up
    frames       \* bound: frames run and rates set

resamplerVars == <<rate, nr, ph, stage, left, inp_count, output, res, supplied, written, frames>>

\* zita: the points read before the first is written.  The filter is stretched
\* when there are fewer points to write than to read.
Latency(r) == 2 * (IF r[1] > r[2] THEN (hlen * r[1] + r[2] - 1) \div r[2] ELSE hlen)

\* zita: the rates setup() has a filter for.
Supported(r) == 16 * r[2] >= r[1] /\ r[2] <= MaxPhases

\* set_resampler(): a set-up forgets what was read before.  What setup()
\* returns is not looked at; after a refusal there is no filter, and what nr
\* and ph are makes no difference.
set_resampler(r) ==
    /\ rate' = r /\ nr' = Latency(r) /\ ph' = 0 /\ supplied' = 0 /\ written' = 0

ResamplerInit ==
    /\ rate \in Rates /\ nr = Latency(rate) /\ ph = 0 /\ supplied = 0 /\ written = 0
    /\ stage = "idle" /\ left = 0 /\ inp_count = 0 /\ output = <<>> /\ res = <<>>
    /\ frames = 0

\* HWPpsChanged() and setPPS()
setPPS(r) ==
    /\ stage = "idle" /\ frames < MaxFrames
    /\ frames' = frames + 1
    /\ set_resampler(r)
    /\ UNCHANGED <<stage, left, inp_count, output, res>>

\* dataRequested() has a new frame: run() begins.
run(n) ==
    /\ stage = "idle" /\ frames < MaxFrames
    /\ frames' = frames + 1
    /\ stage' = "block" /\ left' = n /\ res' = <<>> /\ supplied' = supplied + n
    /\ UNCHANGED <<rate, nr, ph, inp_count, output, written>>

\* The next block of the input; run() returns when there is none.
NextBlock ==
    /\ stage = "block"
    /\ LET block == IF left < RESAMPLE_SZ THEN left ELSE RESAMPLE_SZ
       IN  /\ left' = left - block /\ inp_count' = block
           /\ stage' = IF block = 0 THEN "idle" ELSE "process"
    /\ output' = <<>>
    /\ UNCHANGED <<rate, nr, ph, res, supplied, written, frames>>

\* process(): read a point if one is needed ...
ReadPoint ==
    /\ stage = "process" /\ Supported(rate) /\ Len(output) < RESAMPLE_SZ
    /\ nr > 0 /\ inp_count > 0
    /\ nr' = nr - 1 /\ inp_count' = inp_count - 1
    /\ UNCHANGED <<rate, ph, stage, left, output, res, supplied, written, frames>>

\* ... and write one if not.
WritePoint ==
    /\ stage = "process" /\ Supported(rate) /\ Len(output) < RESAMPLE_SZ
    /\ nr = 0
    /\ output' = Append(output, written) /\ written' = written + 1
    /\ nr' = (ph + rate[1]) \div rate[2] /\ ph' = (ph + rate[1]) % rate[2]
    /\ UNCHANGED <<rate, stage, left, inp_count, res, supplied, frames>>

\* Mutation of CopiedOut: the last point is left behind.
CopiedOutButLast == [i \in 1..(Len(output) - 1) |->
                        [point |-> output[(i - 1) \div Channels + 1], channel |-> (i - 1) % Channels]]

\* PointF i is made of the floats i, i + 1, ... of the buffer, in which a point
\* has five: its x is some channel of an earlier point, unless i is 0.
CopiedOut == [i \in 1..Len(output) |->
                 [point |-> output[(i - 1) \div Channels + 1], channel |-> (i - 1) % Channels]]

\* Mutation of ProcessReturns: the loop goes on only while the buffer is full.
ProcessReturnsOnce ==
    /\ stage = "process"
    /\ ~Supported(rate) \/ Len(output) = RESAMPLE_SZ \/ (nr > 0 /\ inp_count = 0)
    /\ res' = res \o CopiedOut
    /\ output' = <<>> /\ stage' = "block"
    /\ UNCHANGED <<rate, nr, ph, left, inp_count, supplied, written, frames>>

\* process() returns when the output buffer is full or input is missing; the
\* output is copied and the loop goes on while the block has points.  Without a
\* filter it returns at once and the loop never ends.
ProcessReturns ==
    /\ stage = "process"
    /\ ~Supported(rate) \/ Len(output) = RESAMPLE_SZ \/ (nr > 0 /\ inp_count = 0)
    /\ res' = res \o CopiedOut
    /\ output' = <<>>
    /\ stage' = IF inp_count > 0 THEN "process" ELSE "block"
    /\ UNCHANGED <<rate, nr, ph, left, inp_count, supplied, written, frames>>

Done == stage = "idle" /\ frames = MaxFrames /\ UNCHANGED resamplerVars

ResamplerNext ==
    \/ \E r \in Rates : setPPS(r)
    \/ \E n \in FrameSizes : run(n)
    \/ NextBlock \/ ReadPoint \/ WritePoint \/ ProcessReturns
    \/ Done

ResamplerSpec == ResamplerInit /\ [][ResamplerNext]_resamplerVars
-----------------------------------------------------------------------------
\* The number of points that can be written once n have been read: point k
\* needs the points up to k * input / output, and the latency.
Writable(n) == IF n < Latency(rate) THEN 0
               ELSE ((n - Latency(rate) + 1) * rate[2] + rate[1] - 1) \div rate[1]

\* Every variable keeps its type, and the buffers are not overrun.
ResamplerTypeOK ==
    /\ rate \in Rates /\ nr \in Nat /\ ph \in 0..(rate[2] - 1)
    /\ stage \in {"idle", "block", "process"} /\ left \in Nat
    /\ inp_count \in 0..RESAMPLE_SZ
    /\ output \in Seq(Nat) /\ Len(output) <= RESAMPLE_SZ
    /\ res \in Seq([point : Nat, channel : 0..(Channels - 1)])
    /\ supplied \in Nat /\ written \in Nat /\ frames \in 0..MaxFrames

\* Between frames all that the points supplied so far allow has been given
\* out, but for what belongs to one point and waits for the next frame: nothing
\* gets lost or piles up at the boundaries of blocks, buffers and frames.  And
\* no point is written before the input it is made of is there.
AlmostAllWritten ==
    /\ stage = "idle" => Writable(supplied) - written <= (rate[2] + rate[1] - 1) \div rate[1]
    /\ written <= Writable(supplied)

\* A call of run() gives one PointF for every point that was written during
\* the call, and takes no value of an earlier buffer for it.
OnePointEach ==
    /\ stage = "idle" /\ res # <<>> /\ written > 0 =>
           res[1] = [point |-> written - Len(res), channel |-> 0]
    /\ stage = "idle" /\ written > 0 =>
           \A i \in DOMAIN res : res[i].point \in (written - Len(res))..(written - 1)
=============================================================================
