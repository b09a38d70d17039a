------------------------- MODULE PlaybackListProofs -------------------------
(***************************************************************************)
(* Proofs about PlaybackList for any set of positions.                     *)
(*                                                                         *)
(* The inductive invariant of the object is Sound: its type together with  *)
(* CurrentIsFront, NoDuplicates and SingleHoldsOne.  The lemmas of         *)
(* PlaybackListCallsProofs say that each call keeps it; and that a call    *)
(* keeps what is lit selected (LitOK) and asks for a dump if it takes the  *)
(* front away (Dumps).                                                     *)
(***************************************************************************)
EXTENDS PlaybackList, PlaybackListCallsProofs

(***************************************************************************)
(* The inductive invariant: the object is sound, and what is lit is        *)
(* selected.  Lighting is kept call by call for any set of indicators, as  *)
(* a call inside another one starts with signals already emitted.          *)
(***************************************************************************)
IInv == Sound(pl) /\ indicator \in SUBSET Slots /\ LitIsSelected

\* What a call may leave behind.
Fine(m) == Sound(m) /\ LitOK(indicator, m) /\ Dumps(Fresh, m)

\* A call that leaves the signals and the front alone is fine if it is sound.
LEMMA QuietIsFine ==
    ASSUME LitOK(indicator, Fresh), Formed(Fresh),
           NEW m, Sound(m), m.sel = Fresh.sel, m.out = Fresh.out
    PROVE  Fine(m)
<1>1. Fresh.sel # <<>> => Head(Fresh.sel) \in Selected(Fresh)
  BY DEF Formed, Objects, Selected, Range
<1> QED BY <1>1 DEF Fine, LitOK, Dumps, Selected

\* Starting a call with no signals changes nothing else.
LEMMA FreshSound ==
    ASSUME IInv
    PROVE  Sound(Fresh) /\ LitOK(indicator, Fresh) /\ Fresh.sel = pl.sel
<1>1. pl \in Objects
  BY DEF IInv, Sound, Formed
<1>2. <<>> \in Seq(Signals)
  OBVIOUS
<1>3. /\ Fresh \in Objects
      /\ Fresh.sel = pl.sel /\ Fresh.cur = pl.cur /\ Fresh.selMode = pl.selMode
      /\ Fresh.out = <<>>
  BY <1>1, <1>2 DEF Fresh, Objects
<1>4. Sound(Fresh)
  BY <1>3 DEF IInv, Sound, Formed, FrontOK, SingleOK
<1>5. Shown(indicator, Fresh.out) = indicator
  BY <1>3, ShownOne DEF IInv
<1> QED BY <1>3, <1>4, <1>5 DEF IInv, LitOK, LitIsSelected, Selected
-----------------------------------------------------------------------------
\* A new list satisfies the invariant.
LEMMA InitIInv == Init => IInv
<1> SUFFICES ASSUME Init PROVE IInv
  OBVIOUS
<1>1. <<>> \in Seq(Slots) /\ <<>> \in Seq(Signals) /\ Len(<<>>) = 0
  OBVIOUS
<1>2. /\ pl \in Objects /\ pl.sel = <<>> /\ pl.cur = NoSlot
  BY <1>1 DEF Init, NewList, Objects, AllSelectionModes, AllStepModes
<1>3. IsInjective(pl.sel) /\ Len(pl.sel) <= 1
  BY <1>1, <1>2 DEF IsInjective
<1> QED BY <1>2, <1>3 DEF Init, IInv, Sound, Formed, FrontOK, SingleOK, LitIsSelected

\* Every call leaves the object sound, reports what it removes and dumps a
\* front that it removes.
LEMMA EveryCall ==
    ASSUME IInv, Next
    PROVE  Fine(pl') /\ indicator' = Shown(indicator, pl'.out)
<1>1. Sound(Fresh) /\ Formed(Fresh) /\ FrontOK(Fresh) /\ SingleOK(Fresh)
  BY FreshSound DEF Sound
<1> DEFINE lit == indicator
<1>2. LitOK(lit, Fresh)
  BY FreshSound
<1> DEFINE Goal == Fine(pl') /\ indicator' = Shown(indicator, pl'.out)
<1>3. ASSUME NEW results, Calls(results), \A m \in results : Fine(m)
      PROVE  Goal
  BY <1>3 DEF Calls
<1>4. ASSUME NEW pos \in Slots, NEW active \in BOOLEAN, select(pos, active)
      PROVE  Goal
  <2>1. \A m \in Select(Fresh, pos, active) : Fine(m)
    BY <1>1, <1>2, SelectKeeps, SelectSays DEF Fine
  <2> QED BY <1>3, <1>4, <2>1 DEF select
<1>5. ASSUME NEW mode \in SelectionModes, setSelectionMode(mode)
      PROVE  Goal
  <2> DEFINE k == Truncated(Fresh, mode)
             m == [k EXCEPT !.selMode = mode]
  <2>1. Formed(k) /\ FrontOK(k) /\ (mode = "SINGLE" => Len(k.sel) <= 1)
    BY <1>1, TruncateKeeps DEF Truncated
  <2>2. LitOK(lit, k) /\ Dumps(Fresh, k)
    <3>1. CASE mode = "SINGLE"
      BY <1>1, <1>2, <3>1, TruncateSays DEF Truncated, Dumps
    <3>2. CASE mode # "SINGLE"
      BY <1>1, <1>2, <3>2, QuietIsFine DEF Truncated, Fine
    <3> QED BY <3>1, <3>2
  <2> HIDE DEF k
  <2>3. mode \in AllSelectionModes
    BY ModesAssumption
  <2>4. m \in Objects /\ m.sel = k.sel /\ m.cur = k.cur /\ m.selMode = mode /\ m.out = k.out
    BY <2>1, <2>3 DEF Formed, Objects
  <2>5. Sound(m)
    BY <2>1, <2>4 DEF Sound, Formed, FrontOK, SingleOK
  <2>6. Fine(m)
    BY <2>2, <2>4, <2>5 DEF Fine, LitOK, Dumps, Selected
  <2> QED BY <1>3, <1>5, <2>6 DEF setSelectionMode, k
<1>6. ASSUME NEW mode \in StepModes, setStepMode(mode)
      PROVE  Goal
  <2> DEFINE m == [Fresh EXCEPT !.stepMode = mode]
  <2>1. mode \in AllStepModes
    BY ModesAssumption
  <2>2. /\ m \in Objects /\ m.sel = Fresh.sel /\ m.cur = Fresh.cur
        /\ m.selMode = Fresh.selMode /\ m.out = Fresh.out
    BY <1>1, <2>1 DEF Formed, Objects
  <2>3. Sound(m)
    BY <1>1, <2>2 DEF Sound, Formed, FrontOK, SingleOK
  <2>4. Fine(m)
    BY <1>1, <1>2, <2>2, <2>3, QuietIsFine
  <2> QED BY <1>3, <1>6, <2>4 DEF setStepMode
<1>7. CASE manualStepClicked
  <2>1. \A m \in Step(Fresh, "MANUAL") : Fine(m)
    BY <1>1, <1>2, StepKeeps, StepSays DEF Fine
  <2> QED BY <1>3, <1>7, <2>1 DEF manualStepClicked
<1>8. CASE beatDetected
  <2>1. \A m \in Step(Fresh, "BEAT") : Fine(m)
    BY <1>1, <1>2, StepKeeps, StepSays DEF Fine
  <2> QED BY <1>3, <1>8, <2>1 DEF beatDetected
<1>9. CASE clear
  <2> DEFINE k == TruncateTo(Fresh)
             idle == [k EXCEPT !.cur = NoSlot]
             m == Emit(idle, Dump)
  <2>1. Formed(k) /\ Len(k.sel) <= 1 /\ LitOK(lit, k)
    BY <1>1, <1>2, TruncateKeeps, TruncateSays
  <2> HIDE DEF k
  <2>2. idle \in Objects /\ idle.sel = k.sel /\ idle.cur = NoSlot /\ idle.out = k.out
    BY <2>1 DEF Formed, Objects
  <2> HIDE DEF idle
  <2>3. Dump \in Signals
    BY SignalTypes
  <2>4. m \in Objects /\ m.sel = k.sel /\ m.cur = NoSlot
    BY <2>2, <2>3, EmitKeeps
  <2>5. Range(m.out) = Range(k.out) \cup {Dump} /\ Shown(lit, m.out) = Shown(lit, k.out)
    BY <2>2, <2>3, EmitSays
  <2>6. Sound(m)
    BY <2>1, <2>4 DEF Sound, Formed, FrontOK, SingleOK
  <2>7. Fine(m)
    BY <2>1, <2>4, <2>5, <2>6 DEF Fine, LitOK, Dumps, Selected
  <2> QED BY <1>3, <1>9, <2>7 DEF clear, Clear, k, idle
<1>10. CASE getNextFramesource
  <2>1. \A m \in GetNextFramesource(Fresh) : Fine(m)
    BY <1>1, <1>2, GetNextKeeps, GetNextSays DEF Fine
  <2> QED BY <1>3, <1>10, <2>1 DEF getNextFramesource
<1> QED BY <1>4, <1>5, <1>6, <1>7, <1>8, <1>9, <1>10 DEF Next, UserCall

\* Every call keeps the invariant.
LEMMA NextIInv == IInv /\ [Next]_vars => IInv'
<1> SUFFICES ASSUME IInv, [Next]_vars PROVE IInv'
  OBVIOUS
<1>1. CASE Next
  <2>1. Fine(pl') /\ indicator' = Shown(indicator, pl'.out)
    BY <1>1, EveryCall
  <2>2. indicator' \in SUBSET Slots
    BY <2>1, ShownType
  <2> QED BY <2>1, <2>2 DEF Fine, IInv, LitOK, LitIsSelected
<1>2. CASE UNCHANGED vars
  BY <1>2 DEF vars, IInv, LitIsSelected
<1> QED BY <1>1, <1>2

\* Every behaviour of the list keeps the inductive invariant.
THEOREM Soundness == Spec => []IInv
  BY InitIInv, NextIInv, PTL DEF Spec
-----------------------------------------------------------------------------
\* Every field of the object keeps its type.
THEOREM TypeCorrect == Spec => []TypeOK
<1>1. IInv => TypeOK
  BY DEF IInv, Sound, Formed, TypeOK
<1> QED BY <1>1, Soundness, PTL

\* What is current is always the front of the list.
THEOREM CurrentAlwaysFront == Spec => []CurrentIsFront
<1>1. IInv => CurrentIsFront
  BY DEF IInv, Sound, FrontOK, CurrentIsFront
<1> QED BY <1>1, Soundness, PTL

\* No position is ever in the list twice.
THEOREM NeverDuplicated == Spec => []NoDuplicates
<1>1. IInv => NoDuplicates
  BY DEF IInv, Sound, Formed, NoDuplicates
<1> QED BY <1>1, Soundness, PTL

\* A SINGLE list never holds two entries.
THEOREM SingleAlwaysOne == Spec => []SingleHoldsOne
<1>1. IInv => SingleHoldsOne
  BY DEF IInv, Sound, SingleOK, SingleHoldsOne
<1> QED BY <1>1, Soundness, PTL

\* No indicator stays lit for a position that has left the list, through all
\* the ways in which select(), next() and clear() remove entries.
THEOREM LitAlwaysSelected == Spec => []LitIsSelected
<1>1. IInv => LitIsSelected
  BY DEF IInv
<1> QED BY <1>1, Soundness, PTL

\* The call that removes the source being played tells the head to dump it.
THEOREM RemovalAlwaysDumps == Spec => RemovalDumps
<1>1. IInv /\ [Next]_vars =>
         [pl.cur # NoSlot /\ pl.cur \notin Selected(pl') => Dump \in Range(pl'.out)]_vars
  <2> SUFFICES ASSUME IInv, Next, pl.cur # NoSlot, pl.cur \notin Selected(pl')
               PROVE  Dump \in Range(pl'.out)
    OBVIOUS
  <2>1. Dumps(Fresh, pl') /\ Fresh.sel = pl.sel
    BY EveryCall, FreshSound DEF Fine
  <2>2. pl.sel # <<>> /\ pl.cur = Head(pl.sel)
    BY DEF IInv, Sound, FrontOK
  <2> QED BY <2>1, <2>2 DEF Dumps
<1> QED BY <1>1, Soundness, PTL DEF Spec, RemovalDumps
=============================================================================
