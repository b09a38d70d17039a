----------------------- MODULE PlaybackListCallsProofs -----------------------
(***************************************************************************)
(* What each call of class PlaybackList does to the object, for any set of *)
(* positions.  PlaybackListProofs and HeadSelectionProofs build on it.     *)
(*                                                                         *)
(* Sound(l) is what the calls keep between them when they are made one at  *)
(* a time.  next() and select() are also used in the middle of an update,  *)
(* and from several threads, where only the weaker Formed(l) holds.        *)
(***************************************************************************)
EXTENDS PlaybackListCalls, SequenceTheorems, TLAPS

Formed(l) == l \in Objects /\ IsInjective(l.sel)

FrontOK(l) == l.cur # NoSlot => l.sel # <<>> /\ l.cur = Head(l.sel)

SingleOK(l) == l.selMode = "SINGLE" => Len(l.sel) <= 1

Sound(l) == Formed(l) /\ FrontOK(l) /\ SingleOK(l)

SameModes(l, m) == m.selMode = l.selMode /\ m.stepMode = l.stepMode

\* m is l with its list rearranged and possibly more signals emitted.
Rearranged(l, m) ==
    /\ Formed(m)
    /\ Len(m.sel) = Len(l.sel)
    /\ Selected(m) = Selected(l)
    /\ m.cur = l.cur
    /\ SameModes(l, m)
-----------------------------------------------------------------------------
(***************************************************************************)
(* The three ways in which the vector selections is rearranged.            *)
(***************************************************************************)
\* A function on 1..n is a sequence of length n.
LEMMA FunctionIsSeq ==
    ASSUME NEW S, NEW n \in Nat, NEW f \in [1..n -> S]
    PROVE  f \in Seq(S) /\ Len(f) = n /\ DOMAIN f = 1..n
<1>1. f \in Seq(S)
  BY SeqDef
<1>2. DOMAIN f = 1..Len(f) /\ Len(f) \in Nat
  BY <1>1, LenProperties
<1>3. DOMAIN f = 1..n
  OBVIOUS
<1> QED BY <1>1, <1>2, <1>3

\* Rotating a list (playbacklist.cpp:175-176) keeps its entries, each once.
LEMMA RotateKeeps ==
    ASSUME NEW s \in Seq(Slots), s # <<>>, IsInjective(s)
    PROVE  /\ Rotate(s) \in Seq(Slots)
           /\ Len(Rotate(s)) = Len(s)
           /\ IsInjective(Rotate(s))
           /\ Range(Rotate(s)) = Range(s)
<1> DEFINE from(k) == IF k = Len(s) THEN 1 ELSE k + 1
<1>1. Len(s) \in Nat /\ Len(s) > 0
  OBVIOUS
<1>2. Rotate(s) \in Seq(Slots) /\ Len(Rotate(s)) = Len(s)
  BY <1>1 DEF Rotate
<1>3. \A i \in 1..Len(s) : Rotate(s)[i] = s[from(i)] /\ from(i) \in 1..Len(s)
  BY <1>1 DEF Rotate
<1>4. DOMAIN s = 1..Len(s) /\ DOMAIN Rotate(s) = 1..Len(s)
  BY <1>2, LenProperties
<1>5. ASSUME NEW i \in 1..Len(s), NEW j \in 1..Len(s), Rotate(s)[i] = Rotate(s)[j]
      PROVE  i = j
  <2>1. from(i) = from(j)
    <3>1. s[from(i)] = Rotate(s)[i] /\ s[from(j)] = Rotate(s)[j]
      BY <1>3, Zenon
    <3>2. s[from(i)] = s[from(j)]
      BY <1>5, <3>1, Zenon
    <3>3. from(i) \in DOMAIN s /\ from(j) \in DOMAIN s
      BY <1>3, <1>4, Zenon
    <3> HIDE DEF from
    <3> QED BY <3>2, <3>3, Zenon DEF IsInjective
  <2> QED BY <1>1, <2>1
<1>6. IsInjective(Rotate(s))
  BY <1>4, <1>5 DEF IsInjective
<1>7. \A k \in 1..Len(s) : \E i \in 1..Len(s) : from(i) = k
  <2> SUFFICES ASSUME NEW k \in 1..Len(s) PROVE \E i \in 1..Len(s) : from(i) = k
    OBVIOUS
  <2>1. CASE k = 1
    <3> WITNESS Len(s) \in 1..Len(s)
    <3> QED BY <2>1
  <2>2. CASE k # 1
    <3>1. k - 1 \in 1..Len(s)
      BY <1>1, <2>2
    <3> WITNESS k - 1 \in 1..Len(s)
    <3> QED BY <1>1, <2>2
  <2> QED BY <2>1, <2>2
<1>8. Range(Rotate(s)) = Range(s)
  <2> HIDE DEF from
  <2> QED BY <1>3, <1>4, <1>7 DEF Range
<1> QED BY <1>2, <1>6, <1>8

\* Shuffling a list (playbacklist.cpp:178) keeps its entries, each once.
LEMMA ReorderKeeps ==
    ASSUME NEW s \in Seq(Slots), IsInjective(s), NEW t \in Reorderings(s)
    PROVE  /\ t \in Seq(Slots)
           /\ Len(t) = Len(s)
           /\ IsInjective(t)
           /\ Range(t) = Range(s)
<1>1. PICK g \in Bijection(DOMAIN s, DOMAIN s) : t = [i \in DOMAIN s |-> s[g[i]]]
  BY DEF Reorderings
<1>2. DOMAIN s = 1..Len(s) /\ Len(s) \in Nat
  OBVIOUS
<1>3. /\ g \in [DOMAIN s -> DOMAIN s]
      /\ \A i, j \in DOMAIN s : g[i] = g[j] => i = j
      /\ \A k \in DOMAIN s : \E i \in DOMAIN s : g[i] = k
  BY DEF Bijection, Injection, Surjection, IsInjective
<1>4. \A i \in 1..Len(s) : t[i] = s[g[i]] /\ t[i] \in Slots
  BY <1>1, <1>2, <1>3
<1>5. t \in [1..Len(s) -> Slots]
  BY <1>1, <1>2, <1>4
<1>6. t \in Seq(Slots) /\ Len(t) = Len(s) /\ DOMAIN t = DOMAIN s
  BY <1>2, <1>5, FunctionIsSeq
<1>7. IsInjective(t)
  BY <1>2, <1>3, <1>4, <1>6 DEF IsInjective
<1>8. Range(t) = Range(s)
  BY <1>2, <1>3, <1>4, <1>6 DEF Range
<1> QED BY <1>6, <1>7, <1>8

\* Erasing an entry (playbacklist.cpp:45) removes it and keeps the others;
\* unless it is the front, the front stays where it is.
LEMMA RemoveKeeps ==
    ASSUME NEW s \in Seq(Slots), IsInjective(s), NEW i \in DOMAIN s
    PROVE  /\ RemoveAt(s, i) \in Seq(Slots)
           /\ Len(RemoveAt(s, i)) = Len(s) - 1
           /\ IsInjective(RemoveAt(s, i))
           /\ Range(RemoveAt(s, i)) = Range(s) \ {s[i]}
           /\ i # 1 => RemoveAt(s, i) # <<>> /\ Head(RemoveAt(s, i)) = Head(s)
<1> DEFINE t == RemoveAt(s, i)
           from(m) == IF m < i THEN m ELSE m + 1
<1>1. DOMAIN s = 1..Len(s) /\ Len(s) \in Nat /\ Len(s) - 1 \in Nat
  OBVIOUS
<1>2. t \in Seq(Slots) /\ Len(t) = Len(s) - 1
  BY <1>1, SMTT(20) DEF RemoveAt
<1>3. DOMAIN t = 1..(Len(s) - 1)
  BY <1>2, LenProperties
<1>4. \A m \in 1..(Len(s) - 1) : t[m] = s[from(m)] /\ from(m) \in DOMAIN s
  <2> SUFFICES ASSUME NEW m \in 1..(Len(s) - 1)
               PROVE  t[m] = s[from(m)] /\ from(m) \in DOMAIN s
    OBVIOUS
  <2>1. CASE m < i
    BY <1>1, <2>1 DEF RemoveAt
  <2>2. CASE ~(m < i)
    <3> DEFINE before == SubSeq(s, 1, i - 1)
               behind == SubSeq(s, i + 1, Len(s))
    <3>1. /\ before \in Seq(Slots) /\ Len(before) = i - 1
          /\ behind \in Seq(Slots) /\ Len(behind) = Len(s) - i
          /\ \A x \in 1..(Len(s) - i) : behind[x] = s[i + x]
      <4>1. before \in Seq(Slots) /\ Len(before) = i - 1
        BY <1>1
      <4>2. behind \in Seq(Slots) /\ Len(behind) = Len(s) - i
        BY <1>1
      <4>3. \A x \in 1..(Len(s) - i) : behind[x] = s[i + x]
        BY <1>1
      <4> QED BY <4>1, <4>2, <4>3, Zenon
    <3>2. t = before \o behind
      BY DEF RemoveAt
    <3> HIDE DEF before, behind
    <3>3. m - (i - 1) \in 1..(Len(s) - i) /\ i + (m - (i - 1)) = m + 1 /\ m + 1 \in DOMAIN s
      BY <1>1, <2>2
    <3>4. (before \o behind)[m] = behind[m - (i - 1)]
      <4>1. m \in 1..(Len(before) + Len(behind)) /\ ~(m <= Len(before))
        BY <1>1, <2>2, <3>1
      <4>2. (before \o behind)[m] =
               IF m <= Len(before) THEN before[m] ELSE behind[m - Len(before)]
        BY <3>1, <4>1, ConcatProperties, Zenon
      <4> QED BY <3>1, <4>1, <4>2, Zenon
    <3> QED BY <2>2, <3>1, <3>2, <3>3, <3>4
  <2> QED BY <2>1, <2>2
<1>5. ASSUME NEW j \in 1..(Len(s) - 1), NEW k \in 1..(Len(s) - 1), t[j] = t[k]
      PROVE  j = k
  <2>1. from(j) = from(k)
    BY <1>4, <1>5 DEF IsInjective
  <2> QED BY <1>1, <2>1
<1>6. IsInjective(t)
  BY <1>3, <1>5 DEF IsInjective
<1>7. \A k \in DOMAIN s : k # i => \E m \in 1..(Len(s) - 1) : from(m) = k
  <2> SUFFICES ASSUME NEW k \in DOMAIN s, k # i
               PROVE  \E m \in 1..(Len(s) - 1) : from(m) = k
    OBVIOUS
  <2>1. CASE k < i
    <3>1. k \in 1..(Len(s) - 1) /\ from(k) = k
      BY <1>1, <2>1
    <3> QED BY <3>1
  <2>2. CASE k > i
    <3>1. k - 1 \in 1..(Len(s) - 1) /\ from(k - 1) = k
      BY <1>1, <2>2
    <3> QED BY <3>1
  <2> QED BY <1>1, <2>1, <2>2
<1>8. \A m \in 1..(Len(s) - 1) : from(m) # i
  BY <1>1
<1>9. Range(t) = Range(s) \ {s[i]}
  <2> HIDE DEF from, t
  <2>1. \A m \in DOMAIN t : t[m] \in Range(s) /\ t[m] # s[i]
    BY <1>3, <1>4, <1>8 DEF Range, IsInjective
  <2>2. \A k \in DOMAIN s : s[k] # s[i] => \E m \in DOMAIN t : t[m] = s[k]
    BY <1>3, <1>4, <1>7
  <2> QED BY <2>1, <2>2 DEF Range
<1>10. i # 1 => t # <<>> /\ Head(t) = Head(s)
  BY <1>1, <1>2, <1>4
<1> QED BY <1>2, <1>6, <1>9, <1>10
-----------------------------------------------------------------------------
(***************************************************************************)
(* The calls.                                                              *)
(***************************************************************************)
\* Emitting a signal changes nothing but the signals.
LEMMA EmitKeeps ==
    ASSUME NEW l \in Objects, NEW signal \in Signals
    PROVE  /\ Emit(l, signal) \in Objects
           /\ Emit(l, signal).sel = l.sel
           /\ Emit(l, signal).cur = l.cur
           /\ SameModes(l, Emit(l, signal))
<1> DEFINE out == Append(l.out, signal)
<1>1. out \in Seq(Signals)
  BY DEF Objects
<1>2. Emit(l, signal) = [l EXCEPT !.out = out]
  BY DEF Emit
<1> HIDE DEF out
<1> QED BY <1>1, <1>2 DEF Objects, SameModes

\* The signals the calls emit are signals.
LEMMA SignalTypes ==
    /\ Dump \in Signals
    /\ \A p \in Slots : On(p) \in Signals /\ Off(p) \in Signals
  BY DEF Signals

\* next() in the modes that keep the front entry rearranges the list.
LEMMA StepOnKeeps ==
    ASSUME NEW l, Formed(l), l.sel # <<>>, NEW m \in StepOn(l)
    PROVE  Rearranged(l, m) /\ m.out = l.out
<1>1. l \in Objects /\ l.sel \in Seq(Slots) /\ IsInjective(l.sel)
  BY DEF Formed, Objects
<1>2. PICK s : /\ m = [l EXCEPT !.sel = s]
               /\ s \in Seq(Slots) /\ Len(s) = Len(l.sel)
               /\ IsInjective(s) /\ Range(s) = Range(l.sel)
  <2>1. CASE l.selMode = "SHUFFLE"
    <3>1. PICK s \in Reorderings(Rotate(l.sel)) : m = [l EXCEPT !.sel = s]
      BY <2>1 DEF StepOn
    <3> QED BY <1>1, <3>1, RotateKeeps, ReorderKeeps
  <2>2. CASE l.selMode # "SHUFFLE"
    BY <1>1, <2>2, RotateKeeps DEF StepOn
  <2> QED BY <2>1, <2>2
<1>3. m \in Objects /\ m.sel = s /\ m.cur = l.cur /\ m.out = l.out /\ SameModes(l, m)
  BY <1>1, <1>2 DEF Objects, SameModes
<1> QED BY <1>2, <1>3 DEF Rearranged, Formed, Selected

\* next(false) rearranges the list, and outside ONCE emits nothing.
LEMMA NextIdleKeeps ==
    ASSUME NEW l, Formed(l), NEW m \in NextIdle(l)
    PROVE  Rearranged(l, m) /\ (l.stepMode # "ONCE" => m.out = l.out)
<1>1. CASE l.sel = <<>>
  BY <1>1 DEF NextIdle, Rearranged, SameModes
<1>2. CASE l.sel # <<>> /\ l.stepMode = "ONCE"
  <2>1. l \in Objects /\ Head(l.sel) \in Slots /\ IsInjective(l.sel)
    BY <1>2 DEF Formed, Objects
  <2>2. m = Emit(l, Off(Head(l.sel)))
    BY <1>2 DEF NextIdle
  <2> QED BY <1>2, <2>1, <2>2, EmitKeeps, SignalTypes DEF Rearranged, Formed, Selected
<1>3. CASE l.sel # <<>> /\ l.stepMode # "ONCE"
  <2>1. m \in StepOn(l)
    BY <1>3 DEF NextIdle
  <2> QED BY <1>3, <2>1, StepOnKeeps
<1> QED BY <1>1, <1>2, <1>3

\* select(pos, false) takes pos out of the list and never adds to it.  If it
\* takes out the front, nothing is current any more.
LEMMA DeselectKeeps ==
    ASSUME NEW l, Formed(l), NEW pos \in Slots, NEW m \in Deselect(l, pos)
    PROVE  /\ Formed(m)
           /\ Len(m.sel) <= Len(l.sel)
           /\ Selected(m) = Selected(l) \ {pos}
           /\ SameModes(l, m)
           /\ FrontOK(l) => FrontOK(m)
<1>1. l \in Objects /\ l.sel \in Seq(Slots) /\ IsInjective(l.sel) /\ Len(l.sel) \in Nat
  BY DEF Formed, Objects
<1>2. CASE ~isSelected(l, pos)
  BY <1>1, <1>2 DEF Deselect, isSelected, SameModes
<1>3. CASE isSelected(l, pos)
  <2> DEFINE i == CHOOSE k \in DOMAIN l.sel : l.sel[k] = pos
             rest == [l EXCEPT !.sel = RemoveAt(l.sel, i)]
             erased == Emit(rest, Off(pos))
             dumped == Emit([erased EXCEPT !.cur = NoSlot], Dump)
  <2>1. i \in DOMAIN l.sel /\ l.sel[i] = pos
    BY <1>3 DEF isSelected, Selected, Range
  <2>2. m \in (IF i = 1 THEN NextIdle(dumped) ELSE {erased})
    BY <1>3 DEF Deselect
  <2> HIDE DEF i
  <2>3. /\ RemoveAt(l.sel, i) \in Seq(Slots)
        /\ Len(RemoveAt(l.sel, i)) = Len(l.sel) - 1
        /\ IsInjective(RemoveAt(l.sel, i))
        /\ Range(RemoveAt(l.sel, i)) = Range(l.sel) \ {pos}
        /\ i # 1 => RemoveAt(l.sel, i) # <<>> /\ Head(RemoveAt(l.sel, i)) = Head(l.sel)
    BY <1>1, <2>1, RemoveKeeps
  <2>4. /\ rest \in Objects
        /\ rest.sel = RemoveAt(l.sel, i)
        /\ rest.cur = l.cur
        /\ SameModes(l, rest)
    BY <1>1, <2>3 DEF Objects, SameModes
  <2>5. /\ erased \in Objects
        /\ erased.sel = RemoveAt(l.sel, i)
        /\ erased.cur = l.cur
        /\ SameModes(l, erased)
    BY <2>4, EmitKeeps, SignalTypes DEF SameModes
  <2>6. CASE i # 1
    <3>1. m = erased
      BY <2>2, <2>6
    <3> QED BY <1>1, <2>3, <2>5, <2>6, <3>1 DEF Formed, Selected, FrontOK
  <2>7. CASE i = 1
    <3> DEFINE idle == [erased EXCEPT !.cur = NoSlot]
    <3>1. /\ idle \in Objects
          /\ idle.sel = RemoveAt(l.sel, i)
          /\ idle.cur = NoSlot
          /\ SameModes(l, idle)
      BY <2>5 DEF Objects, SameModes
    <3>2. /\ dumped \in Objects
          /\ dumped.sel = RemoveAt(l.sel, i)
          /\ dumped.cur = NoSlot
          /\ SameModes(l, dumped)
      <4> HIDE DEF erased
      <4> QED BY <3>1, EmitKeeps, SignalTypes DEF SameModes
    <3>3. Rearranged(dumped, m)
      <4> HIDE DEF dumped
      <4> QED BY <2>2, <2>3, <2>7, <3>2, NextIdleKeeps DEF Formed
    <3> HIDE DEF dumped
    <3> QED BY <1>1, <2>3, <3>2, <3>3 DEF Rearranged, SameModes, Selected, FrontOK
  <2> QED BY <2>6, <2>7
<1> QED BY <1>2, <1>3
\* next(running) ends with a well-formed list; a running ONCE list loses its
\* front.
LEMMA NextSourceKeeps ==
    ASSUME NEW l, Formed(l), NEW running \in BOOLEAN, NEW m \in NextSource(l, running)
    PROVE  /\ Formed(m)
           /\ Len(m.sel) <= Len(l.sel)
           /\ SameModes(l, m)
<1>1. l \in Objects /\ l.sel \in Seq(Slots) /\ Len(l.sel) \in Nat
  BY DEF Formed, Objects
<1>2. CASE running /\ l.sel # <<>> /\ l.stepMode = "ONCE"
  <2>1. Head(l.sel) \in Slots
    BY <1>1, <1>2
  <2>2. PICK k \in Deselect(l, Head(l.sel)) : m = Emit(k, Off(Head(l.sel)))
    BY <1>2 DEF NextSource
  <2>3. Formed(k) /\ Len(k.sel) <= Len(l.sel) /\ SameModes(l, k)
    BY <2>1, <2>2, DeselectKeeps
  <2>4. k \in Objects /\ IsInjective(k.sel)
    BY <2>3 DEF Formed
  <2>5. m \in Objects /\ m.sel = k.sel /\ SameModes(k, m)
    BY <2>1, <2>2, <2>4, EmitKeeps, SignalTypes
  <2> QED BY <2>3, <2>4, <2>5 DEF Formed, SameModes
<1>3. CASE ~(running /\ l.sel # <<>> /\ l.stepMode = "ONCE")
  <2>1. m \in NextIdle(l)
    BY <1>3 DEF NextSource
  <2> QED BY <1>1, <2>1, NextIdleKeeps DEF Rearranged
<1> QED BY <1>2, <1>3

\* Making the front current, as getNextFramesource() and the step slots do,
\* restores FrontOK whatever was current before.
LEMMA FrontKeeps ==
    ASSUME NEW l, Formed(l), SingleOK(l)
    PROVE  /\ Sound([l EXCEPT !.cur = FrontOf(l)])
           /\ FrontOf(l) \in Slots \cup {NoSlot}
<1> DEFINE m == [l EXCEPT !.cur = FrontOf(l)]
<1>1. l \in Objects /\ l.sel \in Seq(Slots) /\ IsInjective(l.sel)
  BY DEF Formed, Objects
<1>2. FrontOf(l) \in Slots \cup {NoSlot}
  BY <1>1 DEF FrontOf
<1>3. m \in Objects /\ m.sel = l.sel /\ m.cur = FrontOf(l) /\ m.selMode = l.selMode
  BY <1>1, <1>2 DEF Objects
<1>4. FrontOK(m)
  BY <1>3 DEF FrontOK, FrontOf
<1> HIDE DEF m
<1>5. Sound(m)
  BY <1>1, <1>3, <1>4 DEF Sound, Formed, SingleOK
<1> QED BY <1>2, <1>5 DEF m

\* select(pos, true) after the removal of pos: SINGLE replaces the list, the
\* other modes extend it.
LEMMA AddSelectionKeeps ==
    ASSUME NEW l, Formed(l), NEW pos \in Slots, pos \notin Selected(l),
           NEW m \in AddSelection(l, pos)
    PROVE  Formed(m) /\ SingleOK(m) /\ SameModes(l, m) /\ (FrontOK(l) => FrontOK(m))
<1>1. /\ l \in Objects /\ l.sel \in Seq(Slots) /\ l.out \in Seq(Signals)
      /\ Len(l.sel) \in Nat /\ DOMAIN l.sel = 1..Len(l.sel)
      /\ IsInjective(l.sel)
  BY DEF Formed, Objects
<1>2. CASE l.selMode = "SINGLE"
  <2> DEFINE allOff == [i \in DOMAIN l.sel |-> Off(l.sel[i])]
             signals == Append(l.out \o allOff, Dump)
             only == [l EXCEPT !.sel = <<pos>>, !.cur = NoSlot, !.out = signals]
  <2>1. PICK k \in NextIdle(only) : m = Emit(k, On(pos))
    BY <1>2 DEF AddSelection
  <2>2. allOff \in [1..Len(l.sel) -> Signals]
    BY <1>1, SignalTypes
  <2>3. allOff \in Seq(Signals)
    BY <1>1, <2>2, FunctionIsSeq
  <2>4. signals \in Seq(Signals)
    <3> HIDE DEF allOff
    <3> QED BY <1>1, <2>3, SignalTypes
  <2> HIDE DEF signals
  <2>5. <<pos>> \in Seq(Slots) /\ Len(<<pos>>) = 1 /\ IsInjective(<<pos>>)
    BY DEF IsInjective
  <2>6. /\ only \in Objects
        /\ only.sel = <<pos>> /\ only.cur = NoSlot
        /\ SameModes(l, only)
    BY <1>1, <2>4, <2>5 DEF Objects, SameModes
  <2> HIDE DEF only
  <2>7. Rearranged(only, k)
    BY <2>1, <2>5, <2>6, NextIdleKeeps DEF Formed
  <2>8. k \in Objects /\ IsInjective(k.sel) /\ Len(k.sel) = 1 /\ k.cur = NoSlot
    BY <2>5, <2>6, <2>7 DEF Rearranged, Formed
  <2>9. m \in Objects /\ m.sel = k.sel /\ m.cur = k.cur /\ SameModes(k, m)
    BY <2>1, <2>8, EmitKeeps, SignalTypes
  <2>10. SameModes(l, m)
    BY <2>6, <2>7, <2>9 DEF Rearranged, SameModes
  <2>11. Formed(m)
    BY <2>8, <2>9 DEF Formed
  <2>12. FrontOK(m)
    BY <2>8, <2>9 DEF FrontOK
  <2>13. SingleOK(m)
    <3>1. Len(m.sel) = 1
      BY <2>8, <2>9
    <3>2. Len(m.sel) <= 1
      BY <3>1
    <3> QED BY <3>2 DEF SingleOK
  <2> QED BY <2>10, <2>11, <2>12, <2>13
<1>3. CASE l.selMode # "SINGLE"
  <2> DEFINE more == Append(l.sel, pos)
             added == [l EXCEPT !.sel = more]
  <2>1. m = Emit(added, On(pos))
    BY <1>3 DEF AddSelection
  <2>2. /\ more \in Seq(Slots) /\ Len(more) = Len(l.sel) + 1
        /\ DOMAIN more = 1..(Len(l.sel) + 1)
        /\ \A i \in 1..(Len(l.sel) + 1) :
              more[i] = IF i = Len(l.sel) + 1 THEN pos ELSE l.sel[i]
    BY <1>1
  <2>3. \A i \in 1..Len(l.sel) : l.sel[i] # pos
    BY <1>1 DEF Selected, Range
  <2>4. IsInjective(more)
    <3> SUFFICES ASSUME NEW i \in 1..(Len(l.sel) + 1), NEW j \in 1..(Len(l.sel) + 1),
                        more[i] = more[j]
                 PROVE  i = j
      BY <2>2 DEF IsInjective
    <3> HIDE DEF more
    <3>1. CASE i = Len(l.sel) + 1 \/ j = Len(l.sel) + 1
      BY <1>1, <2>2, <2>3, <3>1
    <3>2. CASE i # Len(l.sel) + 1 /\ j # Len(l.sel) + 1
      <4>1. i \in 1..Len(l.sel) /\ j \in 1..Len(l.sel)
        BY <1>1, <3>2
      <4>2. more[i] = l.sel[i] /\ more[j] = l.sel[j]
        BY <2>2, <3>2, Zenon
      <4>3. l.sel[i] = l.sel[j]
        BY <4>2
      <4> QED BY <1>1, <4>1, <4>3 DEF IsInjective
    <3> QED BY <3>1, <3>2
  <2>5. l.sel # <<>> => more # <<>> /\ Head(more) = Head(l.sel)
    BY <1>1, <2>2
  <2> HIDE DEF more
  <2>6. added \in Objects /\ added.sel = more /\ added.cur = l.cur /\ SameModes(l, added)
    BY <1>1, <2>2 DEF Objects, SameModes
  <2> HIDE DEF added
  <2>7. m \in Objects /\ m.sel = more /\ m.cur = l.cur /\ SameModes(l, m)
    BY <2>1, <2>6, EmitKeeps, SignalTypes DEF SameModes
  <2> QED BY <1>3, <2>4, <2>5, <2>7 DEF Formed, FrontOK, SingleOK, SameModes
<1> QED BY <1>2, <1>3

\* select(pos, active) keeps the invariant of the object.
LEMMA SelectKeeps ==
    ASSUME NEW l, Formed(l), NEW pos \in Slots, NEW active \in BOOLEAN,
           NEW m \in Select(l, pos, active)
    PROVE  Formed(m) /\ SameModes(l, m) /\ (Sound(l) => Sound(m))
<1>1. Len(l.sel) \in Nat
  BY DEF Formed, Objects
<1>2. CASE active
  <2>1. PICK k \in Deselect(l, pos) : m \in AddSelection(k, pos)
    BY <1>2 DEF Select
  <2>2. Formed(k) /\ pos \notin Selected(k) /\ SameModes(l, k) /\ (FrontOK(l) => FrontOK(k))
    BY <2>1, DeselectKeeps
  <2>3. Formed(m) /\ SingleOK(m) /\ SameModes(k, m) /\ (FrontOK(k) => FrontOK(m))
    BY <2>1, <2>2, AddSelectionKeeps
  <2> QED BY <2>2, <2>3 DEF SameModes, Sound
<1>3. CASE ~active
  <2>1. m \in Deselect(l, pos)
    BY <1>3 DEF Select
  <2>2. /\ Formed(m) /\ Len(m.sel) <= Len(l.sel) /\ SameModes(l, m)
        /\ FrontOK(l) => FrontOK(m)
    BY <2>1, DeselectKeeps
  <2>3. Len(m.sel) \in Nat
    BY <2>2 DEF Formed, Objects
  <2> QED BY <1>1, <2>2, <2>3 DEF Sound, SingleOK, SameModes
<1> QED BY <1>2, <1>3

\* Dropping all but the front (setSelectionMode(SINGLE), clear()).
LEMMA TruncateKeeps ==
    ASSUME NEW l, Formed(l)
    PROVE  /\ Formed(TruncateTo(l))
           /\ FrontOK(l) => FrontOK(TruncateTo(l))
           /\ Len(TruncateTo(l).sel) <= 1
           /\ SameModes(l, TruncateTo(l))
<1>1. /\ l \in Objects /\ l.sel \in Seq(Slots) /\ l.out \in Seq(Signals)
      /\ Len(l.sel) \in Nat /\ DOMAIN l.sel = 1..Len(l.sel)
  BY DEF Formed, Objects
<1>2. CASE Len(l.sel) > 1
  <2> DEFINE n == Len(l.sel)
             off == [i \in 1..(n - 1) |-> Off(l.sel[n + 1 - i])]
             signals == l.out \o off
             front == <<Head(l.sel)>>
             m == [l EXCEPT !.sel = front, !.out = signals]
  <2>1. \A i \in 1..(n - 1) : l.sel[n + 1 - i] \in Slots
    BY <1>1, <1>2
  <2>2. n - 1 \in Nat /\ off \in [1..(n - 1) -> Signals]
    BY <1>1, <1>2, <2>1, SignalTypes
  <2>3. off \in Seq(Signals)
    BY <2>2, FunctionIsSeq
  <2> HIDE DEF off
  <2>4. signals \in Seq(Signals)
    BY <1>1, <2>3
  <2>5. Head(l.sel) \in Slots
    BY <1>1, <1>2
  <2>6. /\ front \in Seq(Slots) /\ Len(front) = 1 /\ front # <<>>
        /\ IsInjective(front) /\ Head(front) = Head(l.sel)
    BY <2>5 DEF IsInjective
  <2> HIDE DEF signals, front
  <2>7. m \in Objects /\ m.sel = front /\ m.cur = l.cur /\ SameModes(l, m)
    BY <1>1, <2>4, <2>6 DEF Objects, SameModes
  <2>8. TruncateTo(l) = m
    BY <1>2 DEF TruncateTo, signals, front, off
  <2> HIDE DEF m
  <2>9. Formed(m) /\ Len(m.sel) <= 1 /\ SameModes(l, m)
    <3>1. Len(m.sel) = 1
      BY <2>6, <2>7
    <3>2. Formed(m)
      BY <2>6, <2>7 DEF Formed
    <3> HIDE DEF n
    <3> QED BY <2>7, <3>1, <3>2
  <2>10. FrontOK(l) => FrontOK(m)
    BY <2>6, <2>7 DEF FrontOK
  <2> QED BY <2>8, <2>9, <2>10
<1>3. CASE ~(Len(l.sel) > 1)
  <2>1. TruncateTo(l) = l
    BY <1>3 DEF TruncateTo
  <2> QED BY <1>1, <1>3, <2>1 DEF SameModes
<1> QED BY <1>2, <1>3

\* manualStepClicked() and beatDetected() keep the invariant.
LEMMA StepKeeps ==
    ASSUME NEW l, Sound(l), NEW mode, NEW m \in Step(l, mode)
    PROVE  Sound(m)
<1>1. CASE l.stepMode = mode
  <2>1. PICK k \in NextSource(l, TRUE) : m = Emit([k EXCEPT !.cur = FrontOf(k)], Dump)
    BY <1>1 DEF Step
  <2> DEFINE f == [k EXCEPT !.cur = FrontOf(k)]
  <2>2. Formed(k) /\ Len(k.sel) <= Len(l.sel) /\ SameModes(l, k)
    BY <2>1, NextSourceKeeps DEF Sound
  <2>3. Len(k.sel) \in Nat /\ Len(l.sel) \in Nat
    BY <2>2 DEF Sound, Formed, Objects
  <2>4. SingleOK(k)
    BY <2>2, <2>3 DEF Sound, SingleOK, SameModes
  <2>5. Sound(f)
    BY <2>2, <2>4, FrontKeeps
  <2> HIDE DEF f
  <2>6. f \in Objects
    BY <2>5 DEF Sound, Formed
  <2>7. m \in Objects /\ m.sel = f.sel /\ m.cur = f.cur /\ SameModes(f, m)
    BY <2>1, <2>6, EmitKeeps, SignalTypes DEF f
  <2> QED BY <2>5, <2>7 DEF Sound, Formed, FrontOK, SingleOK, SameModes
<1>2. CASE l.stepMode # mode
  BY <1>2 DEF Step
<1> QED BY <1>1, <1>2

\* getNextFramesource() keeps the invariant.
LEMMA GetNextKeeps ==
    ASSUME NEW l, Sound(l), NEW m \in GetNextFramesource(l)
    PROVE  Sound(m)
<1>1. CASE WantsNext(l)
  <2>1. PICK k \in NextSource(l, l.cur # NoSlot) : m = [k EXCEPT !.cur = FrontOf(k)]
    BY <1>1 DEF GetNextFramesource
  <2>2. (l.cur # NoSlot) \in BOOLEAN
    OBVIOUS
  <2>3. Formed(k) /\ Len(k.sel) <= Len(l.sel) /\ SameModes(l, k)
    BY <2>1, <2>2, NextSourceKeeps DEF Sound
  <2>4. Len(k.sel) \in Nat /\ Len(l.sel) \in Nat
    BY <2>3 DEF Sound, Formed, Objects
  <2>5. SingleOK(k)
    BY <2>3, <2>4 DEF Sound, SingleOK, SameModes
  <2> QED BY <2>1, <2>3, <2>5, FrontKeeps
<1>2. CASE ~WantsNext(l)
  BY <1>2 DEF GetNextFramesource
<1> QED BY <1>1, <1>2
-----------------------------------------------------------------------------
(***************************************************************************)
(* The signals.  lit is a set of indicators before the signals arrive.     *)
(***************************************************************************)
\* Handling one batch of signals and then another is handling both.
LEMMA ShownConcat ==
    ASSUME NEW S, NEW s \in Seq(S), NEW t \in Seq(S), NEW lit
    PROVE  Shown(lit, s \o t) = Shown(Shown(lit, s), t)
<1> DEFINE n == Len(s)
           u == s \o t
<1>1. /\ n \in Nat /\ Len(t) \in Nat
      /\ DOMAIN s = 1..n /\ DOMAIN t = 1..Len(t) /\ DOMAIN u = 1..(n + Len(t))
      /\ \A i \in 1..n : u[i] = s[i]
      /\ \A i \in 1..Len(t) : u[n + i] = t[i]
  OBVIOUS
<1>2. \A i \in DOMAIN u : i \in 1..n \/ \E k \in 1..Len(t) : i = n + k
  <2> SUFFICES ASSUME NEW i \in DOMAIN u, i \notin 1..n
               PROVE  \E k \in 1..Len(t) : i = n + k
    OBVIOUS
  <2>1. i - n \in 1..Len(t) /\ i = n + (i - n)
    BY <1>1
  <2> QED BY <2>1
<1> HIDE DEF n, u
<1> SUFFICES ASSUME NEW p \in Slots
             PROVE  p \in Shown(lit, u) <=> p \in Shown(Shown(lit, s), t)
  BY DEF Shown, u
<1>3. CASE \E k \in 1..Len(t) : t[k] = On(p) /\ \A j \in 1..Len(t) : j > k => t[j] # Off(p)
  <2>1. PICK k \in 1..Len(t) : t[k] = On(p) /\ \A j \in 1..Len(t) : j > k => t[j] # Off(p)
    BY <1>3
  <2>2. n + k \in DOMAIN u /\ u[n + k] = On(p)
    BY <1>1, <2>1
  <2>3. \A j \in DOMAIN u : j > n + k => u[j] # Off(p)
    BY <1>1, <1>2, <2>1
  <2> QED BY <1>1, <2>1, <2>2, <2>3 DEF Shown
<1>4. CASE /\ ~ \E k \in 1..Len(t) : t[k] = On(p) /\ \A j \in 1..Len(t) : j > k => t[j] # Off(p)
           /\ \E k \in 1..Len(t) : t[k] = Off(p)
  <2>1. PICK k \in 1..Len(t) : t[k] = Off(p)
    BY <1>4
  <2>2. p \notin Shown(Shown(lit, s), t)
    BY <1>1, <1>4, <2>1 DEF Shown
  <2>3. n + k \in DOMAIN u /\ u[n + k] = Off(p)
    BY <1>1, <2>1
  <2>4. ASSUME NEW i \in DOMAIN u, u[i] = On(p), \A j \in DOMAIN u : j > i => u[j] # Off(p)
        PROVE  FALSE
    <3>1. CASE i \in 1..n
      <4>1. n + k > i
        BY <1>1, <3>1
      <4> QED BY <2>3, <2>4, <4>1
    <3>2. CASE i \notin 1..n
      <4>1. PICK m \in 1..Len(t) : i = n + m
        BY <1>2, <3>2
      <4>2. t[m] = On(p)
        BY <1>1, <2>4, <4>1
      <4>3. \A j \in 1..Len(t) : j > m => t[j] # Off(p)
        <5> SUFFICES ASSUME NEW j \in 1..Len(t), j > m PROVE t[j] # Off(p)
          OBVIOUS
        <5>1. n + j \in DOMAIN u /\ n + j > i /\ u[n + j] = t[j]
          BY <1>1, <4>1
        <5> QED BY <2>4, <5>1
      <4> QED BY <1>4, <4>2, <4>3
    <3> QED BY <3>1, <3>2
  <2> QED BY <2>2, <2>3, <2>4 DEF Shown
<1>5. CASE /\ ~ \E k \in 1..Len(t) : t[k] = On(p) /\ \A j \in 1..Len(t) : j > k => t[j] # Off(p)
           /\ \A k \in 1..Len(t) : t[k] # Off(p)
  <2>1. \A k \in 1..Len(t) : t[k] # On(p) /\ t[k] # Off(p)
    BY <1>5
  <2>2. p \in Shown(Shown(lit, s), t) <=> p \in Shown(lit, s)
    BY <1>1, <2>1 DEF Shown
  <2>3. \A i \in DOMAIN u : i \notin 1..n => u[i] # On(p) /\ u[i] # Off(p)
    BY <1>1, <1>2, <2>1
  <2>4. \A i \in 1..n : i \in DOMAIN u /\ i \in DOMAIN s /\ u[i] = s[i]
    BY <1>1
  <2>5. DOMAIN s = 1..n
    BY <1>1
  <2>6. p \in Shown(lit, u) <=> p \in Shown(lit, s)
    <3> HIDE DEF On, Off
    <3> QED BY <2>3, <2>4, <2>5 DEF Shown
  <2> QED BY <2>2, <2>6
<1> QED BY <1>3, <1>4, <1>5

\* What one signal, or none, does to the indicators.
LEMMA ShownOne ==
    ASSUME NEW lit \in SUBSET Slots
    PROVE  /\ Shown(lit, <<>>) = lit
           /\ \A p \in Slots : Shown(lit, <<On(p)>>) = lit \cup {p}
           /\ \A p \in Slots : Shown(lit, <<Off(p)>>) = lit \ {p}
           /\ \A e : e.type # "selectionChanged" => Shown(lit, <<e>>) = lit
<1>1. \A p, q : (On(p) = On(q) => p = q) /\ (Off(p) = Off(q) => p = q) /\ On(p) # Off(q)
  BY DEF On, Off
<1>2. Shown(lit, <<>>) = lit
  BY DEF Shown
<1>3. ASSUME NEW e
      PROVE  Shown(lit, <<e>>) = {p \in Slots : e = On(p) \/ (p \in lit /\ e # Off(p))}
  <2>1. DOMAIN <<e>> = {1} /\ <<e>>[1] = e
    OBVIOUS
  <2>2. ~(1 > 1)
    OBVIOUS
  <2> HIDE DEF On, Off
  <2> QED BY <2>1, <2>2 DEF Shown
<1>4. \A p \in Slots : Shown(lit, <<On(p)>>) = lit \cup {p}
  <2> HIDE DEF On, Off
  <2> QED BY <1>1, <1>3
<1>5. \A p \in Slots : Shown(lit, <<Off(p)>>) = lit \ {p}
  <2> HIDE DEF On, Off
  <2> QED BY <1>1, <1>3
<1>6. \A e : e.type # "selectionChanged" => Shown(lit, <<e>>) = lit
  <2> SUFFICES ASSUME NEW e, e.type # "selectionChanged" PROVE Shown(lit, <<e>>) = lit
    OBVIOUS
  <2>1. \A p : e # On(p) /\ e # Off(p)
    BY DEF On, Off
  <2> QED BY <1>3, <2>1
<1> QED BY <1>2, <1>4, <1>5, <1>6

\* A set of indicators after signals is a set of positions.
LEMMA ShownType == \A lit, signals : Shown(lit, signals) \in SUBSET Slots
  BY DEF Shown

\* One more signal: the others stay, the indicators follow it.
LEMMA EmitSays ==
    ASSUME NEW l \in Objects, NEW signal \in Signals, NEW lit
    PROVE  /\ Range(Emit(l, signal).out) = Range(l.out) \cup {signal}
           /\ \A p \in Slots : signal = On(p) =>
                 Shown(lit, Emit(l, signal).out) = Shown(lit, l.out) \cup {p}
           /\ \A p \in Slots : signal = Off(p) =>
                 Shown(lit, Emit(l, signal).out) = Shown(lit, l.out) \ {p}
           /\ signal = Dump => Shown(lit, Emit(l, signal).out) = Shown(lit, l.out)
<1>1. l.out \in Seq(Signals)
  BY DEF Objects
<1>2. Emit(l, signal).out = Append(l.out, signal)
  BY DEF Emit, Objects
<1>3. Range(Append(l.out, signal)) = Range(l.out) \cup {signal}
  <2> DEFINE n == Len(l.out)
             u == Append(l.out, signal)
  <2>1. /\ n \in Nat /\ DOMAIN l.out = 1..n /\ DOMAIN u = 1..(n + 1)
        /\ \A i \in 1..n : u[i] = l.out[i]
        /\ u[n + 1] = signal
    BY <1>1
  <2>2. 1..(n + 1) = 1..n \cup {n + 1}
    BY <2>1
  <2> HIDE DEF n, u
  <2> QED BY <2>1, <2>2 DEF Range, u
<1> DEFINE last == <<signal>>
           before == Shown(lit, l.out)
<1>4. Append(l.out, signal) = l.out \o last /\ last \in Seq(Signals)
  BY <1>1
<1>5. before \in SUBSET Slots
  BY ShownType
<1>6. Dump.type # "selectionChanged"
  BY DEF Dump
<1>7. /\ \A p \in Slots : signal = On(p) => Shown(before, last) = before \cup {p}
      /\ \A p \in Slots : signal = Off(p) => Shown(before, last) = before \ {p}
      /\ signal = Dump => Shown(before, last) = before
  <2> HIDE DEF before
  <2> QED BY <1>5, <1>6, ShownOne
<1> HIDE DEF last
<1>8. Shown(lit, l.out \o last) = Shown(before, last)
  BY <1>1, <1>4, ShownConcat
<1> QED BY <1>2, <1>3, <1>4, <1>7, <1>8

\* A series of Off signals puts out just the positions it names.
LEMMA OffsSay ==
    ASSUME NEW lit \in SUBSET Slots, NEW n \in Nat, NEW offs, DOMAIN offs = 1..n,
           NEW gone,
           \A i \in 1..n : \E p \in gone : offs[i] = Off(p),
           \A p \in gone : \E i \in 1..n : offs[i] = Off(p)
    PROVE  Shown(lit, offs) = lit \ gone
<1>1. \A p, q : (Off(p) = Off(q) <=> p = q) /\ On(p) # Off(q)
  BY DEF On, Off
<1>2. ASSUME NEW p \in Slots
      PROVE  p \in Shown(lit, offs) <=> p \in lit \ gone
  <2>1. \A i \in 1..n : offs[i] # On(p)
    BY <1>1
  <2>2. (\E i \in 1..n : offs[i] = Off(p)) => p \in gone
    <3> SUFFICES ASSUME NEW i \in 1..n, offs[i] = Off(p) PROVE p \in gone
      OBVIOUS
    <3>1. PICK q \in gone : offs[i] = Off(q)
      OBVIOUS
    <3> QED BY <1>1, <3>1
  <2>3. p \in gone => \E i \in 1..n : offs[i] = Off(p)
    OBVIOUS
  <2> QED BY <2>1, <2>2, <2>3 DEF Shown
<1>3. Shown(lit, offs) \in SUBSET Slots
  BY ShownType
<1> QED BY <1>2, <1>3

\* What l and its signals tell the user: no more than the selection, ...
LitOK(lit, l) == Shown(lit, l.out) \subseteq Selected(l)

\* ... or exactly the selection.
LitExact(lit, l) == Shown(lit, l.out) = Selected(l)

\* next(false) never lights anything, and outside ONCE says nothing.
LEMMA NextIdleSays ==
    ASSUME NEW l, Formed(l), NEW m \in NextIdle(l), NEW lit
    PROVE  /\ Range(l.out) \subseteq Range(m.out)
           /\ Shown(lit, m.out) \subseteq Shown(lit, l.out)
           /\ l.stepMode # "ONCE" => Shown(lit, m.out) = Shown(lit, l.out)
<1>1. CASE l.sel # <<>> /\ l.stepMode = "ONCE"
  <2>1. l \in Objects /\ Head(l.sel) \in Slots
    BY <1>1 DEF Formed, Objects
  <2>2. m = Emit(l, Off(Head(l.sel)))
    BY <1>1 DEF NextIdle
  <2>3. Shown(lit, m.out) = Shown(lit, l.out) \ {Head(l.sel)}
    BY <2>1, <2>2, EmitSays, SignalTypes
  <2> QED BY <1>1, <2>1, <2>2, <2>3, EmitSays, SignalTypes
<1>2. CASE ~(l.sel # <<>> /\ l.stepMode = "ONCE")
  <2>1. m.out = l.out
    BY <1>2, NextIdleKeeps, StepOnKeeps DEF NextIdle
  <2> QED BY <2>1
<1> QED BY <1>1, <1>2

\* select(pos, false) puts out pos; taking out the front it asks for a dump.
LEMMA DeselectSays ==
    ASSUME NEW l, Formed(l), NEW pos \in Slots, isSelected(l, pos),
           NEW m \in Deselect(l, pos), NEW lit
    PROVE  /\ Range(l.out) \subseteq Range(m.out)
           /\ Shown(lit, m.out) \subseteq Shown(lit, l.out) \ {pos}
           /\ l.stepMode # "ONCE" => Shown(lit, m.out) = Shown(lit, l.out) \ {pos}
           /\ Head(l.sel) = pos => Dump \in Range(m.out)
<1>1. l \in Objects /\ l.sel \in Seq(Slots) /\ IsInjective(l.sel) /\ Len(l.sel) \in Nat
  BY DEF Formed, Objects
<1> DEFINE i == CHOOSE k \in DOMAIN l.sel : l.sel[k] = pos
           rest == [l EXCEPT !.sel = RemoveAt(l.sel, i)]
           erased == Emit(rest, Off(pos))
           idle == [erased EXCEPT !.cur = NoSlot]
           dumped == Emit(idle, Dump)
<1>2. i \in DOMAIN l.sel /\ l.sel[i] = pos
  BY DEF isSelected, Selected, Range
<1>3. m \in (IF i = 1 THEN NextIdle(dumped) ELSE {erased})
  BY DEF Deselect
<1> HIDE DEF i
<1>4. RemoveAt(l.sel, i) \in Seq(Slots) /\ IsInjective(RemoveAt(l.sel, i))
  BY <1>1, <1>2, RemoveKeeps
<1>5. rest \in Objects /\ rest.out = l.out /\ rest.sel = RemoveAt(l.sel, i)
      /\ rest.stepMode = l.stepMode
  BY <1>1, <1>4 DEF Objects
<1> HIDE DEF rest
<1>6. /\ erased \in Objects /\ erased.sel = rest.sel /\ erased.stepMode = l.stepMode
      /\ Range(erased.out) = Range(l.out) \cup {Off(pos)}
      /\ Shown(lit, erased.out) = Shown(lit, l.out) \ {pos}
  <2>1. Off(pos) \in Signals
    BY SignalTypes
  <2>2. erased \in Objects /\ erased.sel = rest.sel /\ erased.stepMode = l.stepMode
    BY <1>5, <2>1, EmitKeeps DEF SameModes
  <2>3. /\ Range(erased.out) = Range(l.out) \cup {Off(pos)}
        /\ Shown(lit, erased.out) = Shown(lit, l.out) \ {pos}
    BY <1>5, <2>1, EmitSays
  <2> QED BY <2>2, <2>3
<1> HIDE DEF erased
<1>7. CASE i # 1
  <2>1. m = erased
    BY <1>3, <1>7
  <2>2. Head(l.sel) # pos
    BY <1>1, <1>2, <1>7 DEF IsInjective
  <2> QED BY <1>6, <2>1, <2>2
<1>8. CASE i = 1
  <2>1. /\ idle \in Objects /\ idle.out = erased.out /\ idle.sel = rest.sel
        /\ idle.stepMode = l.stepMode
    BY <1>6 DEF Objects
  <2> HIDE DEF idle
  <2>3. /\ Formed(dumped) /\ dumped.stepMode = l.stepMode
        /\ Range(dumped.out) = Range(erased.out) \cup {Dump}
        /\ Shown(lit, dumped.out) = Shown(lit, erased.out)
    <3>1. Dump \in Signals
      BY SignalTypes
    <3>2. dumped \in Objects /\ dumped.sel = rest.sel /\ dumped.stepMode = l.stepMode
      BY <2>1, <3>1, EmitKeeps DEF SameModes
    <3>3. /\ Range(dumped.out) = Range(erased.out) \cup {Dump}
          /\ Shown(lit, dumped.out) = Shown(lit, erased.out)
      BY <2>1, <3>1, EmitSays
    <3> QED BY <1>4, <1>5, <3>2, <3>3 DEF Formed
  <2> HIDE DEF dumped
  <2>4. m \in NextIdle(dumped)
    BY <1>3, <1>8
  <2>5. /\ Range(dumped.out) \subseteq Range(m.out)
        /\ Shown(lit, m.out) \subseteq Shown(lit, dumped.out)
        /\ l.stepMode # "ONCE" => Shown(lit, m.out) = Shown(lit, dumped.out)
    BY <2>3, <2>4, NextIdleSays
  <2> QED BY <1>6, <2>3, <2>5
<1> QED BY <1>7, <1>8

\* The tail of select(pos, true) lights pos; SINGLE puts out and dumps what
\* was selected before.
LEMMA AddSelectionSays ==
    ASSUME NEW l, Formed(l), NEW pos \in Slots, NEW m \in AddSelection(l, pos), NEW lit
    PROVE  /\ Range(l.out) \subseteq Range(m.out)
           /\ IF l.selMode = "SINGLE" THEN Dump \in Range(m.out)
                                      ELSE Selected(l) \subseteq Selected(m)
           /\ LitOK(lit, l) => LitOK(lit, m)
           /\ LitExact(lit, l) => LitExact(lit, m)
<1>1. /\ l \in Objects /\ l.sel \in Seq(Slots) /\ l.out \in Seq(Signals)
      /\ Len(l.sel) \in Nat /\ DOMAIN l.sel = 1..Len(l.sel)
  BY DEF Formed, Objects
<1>2. On(pos) \in Signals /\ Dump \in Signals
  BY SignalTypes
<1>3. CASE l.selMode = "SINGLE"
  <2> DEFINE allOff == [i \in DOMAIN l.sel |-> Off(l.sel[i])]
             offs == l.out \o allOff
             base == [l EXCEPT !.sel = <<pos>>, !.cur = NoSlot, !.out = offs]
             only == Emit(base, Dump)
  <2>1. PICK k \in NextIdle(only) : m = Emit(k, On(pos))
    <3>1. PICK k \in NextIdle([l EXCEPT !.sel = <<pos>>, !.cur = NoSlot,
                                       !.out = Append(l.out \o allOff, Dump)]) :
               m = Emit(k, On(pos))
      BY <1>3 DEF AddSelection
    <3>2. only = [l EXCEPT !.sel = <<pos>>, !.cur = NoSlot,
                           !.out = Append(l.out \o allOff, Dump)]
      <4>1. base.out = offs
        BY <1>1 DEF Objects
      <4>2. only = [base EXCEPT !.out = Append(offs, Dump)]
        BY <4>1 DEF Emit
      <4> HIDE DEF offs
      <4>3. only = [l EXCEPT !.sel = <<pos>>, !.cur = NoSlot, !.out = Append(offs, Dump)]
        BY <1>1, <4>2 DEF Objects
      <4> QED BY <4>3 DEF offs
    <3> HIDE DEF only
    <3> QED BY <3>1, <3>2
  <2>2. allOff \in Seq(Signals)
    <3>1. allOff \in [1..Len(l.sel) -> Signals]
      BY <1>1, SignalTypes
    <3> QED BY <1>1, <3>1, FunctionIsSeq
  <2>3. \A set \in SUBSET Slots : Shown(set, allOff) = set \ Selected(l)
    <3>1. DOMAIN allOff = 1..Len(l.sel) /\ \A i \in 1..Len(l.sel) : allOff[i] = Off(l.sel[i])
      BY <1>1
    <3>2. /\ \A i \in 1..Len(l.sel) : l.sel[i] \in Selected(l)
          /\ \A p \in Selected(l) : \E i \in 1..Len(l.sel) : l.sel[i] = p
      BY <1>1 DEF Selected, Range
    <3> HIDE DEF allOff
    <3>3. /\ \A i \in 1..Len(l.sel) : \E p \in Selected(l) : allOff[i] = Off(p)
          /\ \A p \in Selected(l) : \E i \in 1..Len(l.sel) : allOff[i] = Off(p)
      BY <3>1, <3>2
    <3>4. Len(l.sel) \in Nat
      BY <1>1
    <3> DEFINE n == Len(l.sel)
               gone == Selected(l)
    <3>5. /\ n \in Nat /\ DOMAIN allOff = 1..n
          /\ \A i \in 1..n : \E p \in gone : allOff[i] = Off(p)
          /\ \A p \in gone : \E i \in 1..n : allOff[i] = Off(p)
      BY <3>1, <3>3, <3>4, Zenon
    <3> HIDE DEF n, gone
    <3>6. \A set \in SUBSET Slots : Shown(set, allOff) = set \ gone
      BY <3>5, OffsSay
    <3> QED BY <3>6, Zenon DEF gone
  <2>4. offs \in Seq(Signals) /\ Range(l.out) \subseteq Range(offs)
    <3> HIDE DEF allOff
    <3>1. offs \in Seq(Signals)
      BY <1>1, <2>2
    <3>2. DOMAIN l.out \subseteq DOMAIN offs /\ \A i \in DOMAIN l.out : offs[i] = l.out[i]
      BY <1>1, <2>2
    <3> HIDE DEF offs
    <3> QED BY <3>1, <3>2 DEF Range
  <2>5. Shown(lit, offs) = Shown(lit, l.out) \ Selected(l)
    <3> HIDE DEF allOff
    <3> QED BY <1>1, <2>2, <2>3, ShownConcat, ShownType
  <2> HIDE DEF allOff, offs
  <2>6. <<pos>> \in Seq(Slots) /\ IsInjective(<<pos>>) /\ Range(<<pos>>) = {pos}
    BY DEF IsInjective, Range
  <2>7. base \in Objects /\ base.sel = <<pos>> /\ base.out = offs
    BY <1>1, <2>4, <2>6 DEF Objects
  <2> HIDE DEF base
  <2>8. Formed(only) /\ only.sel = <<pos>>
    BY <1>2, <2>6, <2>7, EmitKeeps DEF Formed
  <2>9. /\ Range(only.out) = Range(offs) \cup {Dump}
        /\ Shown(lit, only.out) = Shown(lit, offs)
    BY <1>2, <2>7, EmitSays
  <2> HIDE DEF only
  <2>10. /\ Formed(k) /\ Selected(k) = {pos}
         /\ Range(only.out) \subseteq Range(k.out)
         /\ Shown(lit, k.out) \subseteq Shown(lit, only.out)
    BY <2>1, <2>6, <2>8, NextIdleKeeps, NextIdleSays DEF Rearranged, Selected
  <2>11. k \in Objects
    BY <2>10 DEF Formed
  <2>12. /\ m.sel = k.sel
         /\ Range(m.out) = Range(k.out) \cup {On(pos)}
         /\ Shown(lit, m.out) = Shown(lit, k.out) \cup {pos}
    <3>1. m.sel = k.sel
      BY <1>2, <2>1, <2>11, EmitKeeps
    <3> QED BY <1>2, <2>1, <2>11, <3>1, EmitSays, SMTT(20)
  <2>13. Selected(m) = {pos}
    BY <2>10, <2>12 DEF Selected
  <2> QED BY <1>3, <2>4, <2>5, <2>9, <2>10, <2>12, <2>13 DEF LitOK, LitExact
<1>4. CASE l.selMode # "SINGLE"
  <2> DEFINE more == Append(l.sel, pos)
             added == [l EXCEPT !.sel = more]
  <2>1. m = Emit(added, On(pos))
    BY <1>4 DEF AddSelection
  <2>2. more \in Seq(Slots) /\ Range(more) = Range(l.sel) \cup {pos}
    <3>1. /\ more \in Seq(Slots) /\ DOMAIN more = 1..(Len(l.sel) + 1)
          /\ \A i \in 1..Len(l.sel) : more[i] = l.sel[i]
          /\ more[Len(l.sel) + 1] = pos
      BY <1>1
    <3>2. 1..(Len(l.sel) + 1) = 1..Len(l.sel) \cup {Len(l.sel) + 1}
      BY <1>1
    <3> HIDE DEF more
    <3> QED BY <1>1, <3>1, <3>2 DEF Range
  <2> HIDE DEF more
  <2>3. added \in Objects /\ added.sel = more /\ added.out = l.out
    BY <1>1, <2>2 DEF Objects
  <2> HIDE DEF added
  <2>4. /\ m.sel = more
        /\ Range(m.out) = Range(l.out) \cup {On(pos)}
        /\ Shown(lit, m.out) = Shown(lit, l.out) \cup {pos}
    <3>1. m.sel = more
      BY <1>2, <2>1, <2>3, EmitKeeps
    <3> QED BY <1>2, <2>1, <2>3, <3>1, EmitSays
  <2> QED BY <1>4, <2>2, <2>4 DEF LitOK, LitExact, Selected
<1> QED BY <1>3, <1>4

\* A position that was selected and no longer is, is reported to be dumped if
\* it was at the front.
Dumps(l, m) == l.sel # <<>> /\ Head(l.sel) \notin Selected(m) => Dump \in Range(m.out)

\* select(pos, active) keeps the indicators right, in ONCE at least those that
\* are lit, and dumps a front that it removes.
LEMMA SelectSays ==
    ASSUME NEW l, Formed(l), NEW pos \in Slots, NEW active \in BOOLEAN,
           NEW m \in Select(l, pos, active), NEW lit
    PROVE  /\ Dumps(l, m)
           /\ LitOK(lit, l) => LitOK(lit, m)
           /\ LitExact(lit, l) /\ l.stepMode # "ONCE" => LitExact(lit, m)
<1>1. ASSUME NEW k \in Deselect(l, pos)
      PROVE  /\ Formed(k) /\ Dumps(l, k)
             /\ l.sel # <<>> => Head(l.sel) \in Selected(l)
             /\ Selected(k) = Selected(l) \ {pos}
             /\ LitOK(lit, l) => LitOK(lit, k)
             /\ LitExact(lit, l) /\ l.stepMode # "ONCE" => LitExact(lit, k)
  <2>1. Formed(k) /\ Selected(k) = Selected(l) \ {pos}
    BY DeselectKeeps
  <2>2. l.sel # <<>> => Head(l.sel) \in Selected(l)
    BY DEF Formed, Objects, Selected, Range
  <2>3. CASE ~isSelected(l, pos)
    <3>1. k = l
      BY <2>3 DEF Deselect
    <3> QED BY <2>1, <2>2, <3>1 DEF Dumps
  <2>4. CASE isSelected(l, pos)
    <3>1. /\ Shown(lit, k.out) \subseteq Shown(lit, l.out) \ {pos}
          /\ l.stepMode # "ONCE" => Shown(lit, k.out) = Shown(lit, l.out) \ {pos}
          /\ Head(l.sel) = pos => Dump \in Range(k.out)
      BY <2>4, DeselectSays
    <3> QED BY <2>1, <2>2, <3>1 DEF Dumps, LitOK, LitExact
  <2> QED BY <2>3, <2>4
<1>2. CASE active
  <2>1. PICK k \in Deselect(l, pos) : m \in AddSelection(k, pos)
    BY <1>2 DEF Select
  <2>2. /\ Range(k.out) \subseteq Range(m.out)
        /\ Dump \in Range(m.out) \/ Selected(k) \subseteq Selected(m)
        /\ LitOK(lit, k) => LitOK(lit, m)
        /\ LitExact(lit, k) => LitExact(lit, m)
    BY <1>1, <2>1, AddSelectionSays
  <2> QED BY <1>1, <2>1, <2>2 DEF Dumps
<1>3. CASE ~active
  <2>1. m \in Deselect(l, pos)
    BY <1>3 DEF Select
  <2> QED BY <1>1, <2>1
<1> QED BY <1>2, <1>3

\* next(running) reports what it removes; outside ONCE it removes nothing and
\* says nothing.
LEMMA NextSourceSays ==
    ASSUME NEW l, Formed(l), NEW running \in BOOLEAN, NEW m \in NextSource(l, running),
           NEW lit
    PROVE  /\ Dumps(l, m)
           /\ LitOK(lit, l) => LitOK(lit, m)
           /\ l.stepMode # "ONCE" => m.out = l.out /\ Selected(m) = Selected(l)
<1>1. l.sel # <<>> => Head(l.sel) \in Slots /\ Head(l.sel) \in Selected(l)
  BY DEF Formed, Objects, Selected, Range
<1>2. CASE running /\ l.sel # <<>> /\ l.stepMode = "ONCE"
  <2> DEFINE front == Head(l.sel)
  <2>1. PICK k \in Deselect(l, front) : m = Emit(k, Off(front))
    BY <1>2 DEF NextSource
  <2>2. front \in Slots /\ isSelected(l, front) /\ Off(front) \in Signals
    BY <1>1, <1>2, SignalTypes DEF isSelected
  <2>3. Formed(k) /\ Selected(k) = Selected(l) \ {front}
    BY <2>1, <2>2, DeselectKeeps
  <2>4. Dump \in Range(k.out) /\ Shown(lit, k.out) \subseteq Shown(lit, l.out) \ {front}
    BY <2>1, <2>2, DeselectSays
  <2>5. k \in Objects
    BY <2>3 DEF Formed
  <2>6. m.sel = k.sel
    BY <2>1, <2>2, <2>5, EmitKeeps
  <2>7. /\ Range(m.out) = Range(k.out) \cup {Off(front)}
        /\ Shown(lit, m.out) = Shown(lit, k.out) \ {front}
    BY <2>1, <2>2, <2>5, EmitSays
  <2> HIDE DEF front
  <2> QED BY <1>2, <2>3, <2>4, <2>6, <2>7 DEF Dumps, LitOK, Selected
<1>3. CASE ~(running /\ l.sel # <<>> /\ l.stepMode = "ONCE")
  <2>1. m \in NextIdle(l)
    BY <1>3 DEF NextSource
  <2>2. Selected(m) = Selected(l) /\ (l.stepMode # "ONCE" => m.out = l.out)
    BY <2>1, NextIdleKeeps DEF Rearranged
  <2>3. Shown(lit, m.out) \subseteq Shown(lit, l.out)
    BY <2>1, NextIdleSays
  <2> QED BY <1>1, <2>2, <2>3 DEF Dumps, LitOK
<1> QED BY <1>2, <1>3

\* Dropping all but the front puts out what is dropped.
LEMMA TruncateSays ==
    ASSUME NEW l, Formed(l), NEW lit
    PROVE  /\ l.sel # <<>> => Head(l.sel) \in Selected(TruncateTo(l))
           /\ LitOK(lit, l) => LitOK(lit, TruncateTo(l))
           /\ LitExact(lit, l) => LitExact(lit, TruncateTo(l))
<1>1. /\ l \in Objects /\ l.sel \in Seq(Slots) /\ l.out \in Seq(Signals)
      /\ Len(l.sel) \in Nat /\ DOMAIN l.sel = 1..Len(l.sel) /\ IsInjective(l.sel)
  BY DEF Formed, Objects
<1>2. CASE Len(l.sel) > 1
  <2> DEFINE n == Len(l.sel) - 1
             at == [i \in 1..n |-> l.sel[n + 2 - i]]
             off == [i \in 1..n |-> Off(l.sel[n + 2 - i])]
             front == <<Head(l.sel)>>
             signals == l.out \o off
  <2>1. TruncateTo(l) = [l EXCEPT !.sel = front, !.out = signals]
    <3>1. \A i \in 1..n : Len(l.sel) + 1 - i = n + 2 - i
      BY <1>1
    <3>2. off = [i \in 1..(Len(l.sel) - 1) |-> Off(l.sel[Len(l.sel) + 1 - i])]
      BY <3>1
    <3>3. TruncateTo(l) =
             [l EXCEPT !.sel = <<Head(l.sel)>>,
                       !.out = l.out \o [i \in 1..(Len(l.sel) - 1) |->
                                             Off(l.sel[Len(l.sel) + 1 - i])]]
      BY <1>2 DEF TruncateTo
    <3> HIDE DEF off
    <3> QED BY <3>2, <3>3
  <2>2. n \in Nat /\ DOMAIN off = 1..n /\ \A i \in 1..n : off[i] = Off(at[i])
    BY <1>1, <1>2
  <2>3. off \in Seq(Signals)
    <3>1. \A i \in 1..n : l.sel[n + 2 - i] \in Slots
      BY <1>1, <1>2
    <3>2. off \in [1..n -> Signals]
      BY <3>1, SignalTypes
    <3> HIDE DEF off
    <3> QED BY <2>2, <3>2, FunctionIsSeq
  <2> DEFINE gone == Selected(l) \ {Head(l.sel)}
  <2>4. /\ \A i \in 1..n : at[i] \in gone
        /\ \A p \in gone : \E i \in 1..n : at[i] = p
    <3>1. \A i \in 1..n : n + 2 - i \in 2..Len(l.sel)
      BY <1>1, <1>2, SMTT(20)
    <3>2. \A k \in 2..Len(l.sel) : \E i \in 1..n : n + 2 - i = k
      <4> SUFFICES ASSUME NEW k \in 2..Len(l.sel) PROVE \E i \in 1..n : n + 2 - i = k
        OBVIOUS
      <4>1. n \in Nat /\ Len(l.sel) = n + 1
        BY <1>1, <1>2
      <4> HIDE DEF n
      <4>2. n + 2 - k \in 1..n /\ n + 2 - (n + 2 - k) = k
        BY <4>1
      <4> QED BY <4>2
    <3>3. \A k \in 2..Len(l.sel) : k \in DOMAIN l.sel /\ l.sel[k] # Head(l.sel)
      BY <1>1, <1>2 DEF IsInjective
    <3>4. \A k \in DOMAIN l.sel : k = 1 \/ k \in 2..Len(l.sel)
      BY <1>1
    <3>5. Head(l.sel) = l.sel[1]
      BY <1>1, <1>2
    <3>6. \A i \in 1..n : at[i] = l.sel[n + 2 - i]
      OBVIOUS
    <3> HIDE DEF n, at
    <3>7. \A i \in 1..n : at[i] \in gone
      BY <3>1, <3>3, <3>6 DEF Selected, Range
    <3>8. \A p \in gone : \E i \in 1..n : at[i] = p
      <4> SUFFICES ASSUME NEW p \in Selected(l), p # Head(l.sel)
                   PROVE  \E i \in 1..n : at[i] = p
        OBVIOUS
      <4>1. PICK k \in DOMAIN l.sel : l.sel[k] = p
        BY DEF Selected, Range
      <4>2. k \in 2..Len(l.sel)
        BY <3>4, <3>5, <4>1
      <4> QED BY <3>2, <3>6, <4>1, <4>2
    <3> QED BY <3>7, <3>8
  <2> HIDE DEF off, at, n, gone
  <2>5. Shown(lit, signals) = Shown(lit, l.out) \ gone
    <3>1. Shown(lit, signals) = Shown(Shown(lit, l.out), off)
      BY <1>1, <2>3, ShownConcat
    <3>2. Shown(lit, l.out) \in SUBSET Slots
      BY ShownType
    <3>3. \A set \in SUBSET Slots : Shown(set, off) = set \ gone
      BY <2>2, <2>4, OffsSay, SMTT(20)
    <3> QED BY <3>1, <3>2, <3>3
  <2> HIDE DEF signals
  <2>6. Range(front) = {Head(l.sel)} /\ Head(l.sel) \in Selected(l)
    BY <1>1, <1>2 DEF Range, Selected
  <2> HIDE DEF front
  <2>7. TruncateTo(l).sel = front /\ TruncateTo(l).out = signals
    BY <1>1, <2>1 DEF Objects
  <2> QED BY <2>5, <2>6, <2>7 DEF LitOK, LitExact, Selected, gone
<1>3. CASE ~(Len(l.sel) > 1)
  <2>1. TruncateTo(l) = l
    BY <1>3 DEF TruncateTo
  <2> QED BY <1>1, <2>1 DEF Selected, Range
<1> QED BY <1>2, <1>3

\* manualStepClicked() and beatDetected() always ask for a dump when they step.
LEMMA StepSays ==
    ASSUME NEW l, Formed(l), NEW mode, NEW m \in Step(l, mode), NEW lit
    PROVE  Dumps(l, m) /\ (LitOK(lit, l) => LitOK(lit, m))
<1>1. CASE l.stepMode = mode
  <2>1. PICK k \in NextSource(l, TRUE) : m = Emit([k EXCEPT !.cur = FrontOf(k)], Dump)
    BY <1>1 DEF Step
  <2> DEFINE f == [k EXCEPT !.cur = FrontOf(k)]
  <2>2. Formed(k) /\ (LitOK(lit, l) => LitOK(lit, k))
    BY <2>1, NextSourceKeeps, NextSourceSays
  <2>3. f \in Objects /\ f.sel = k.sel /\ f.out = k.out /\ Dump \in Signals
    BY <2>2, SignalTypes DEF Formed, Objects, FrontOf
  <2>4. m = Emit(f, Dump)
    BY <2>1
  <2> HIDE DEF f
  <2>5. m.sel = k.sel
    BY <2>3, <2>4, EmitKeeps
  <2>6. Range(m.out) = Range(k.out) \cup {Dump} /\ Shown(lit, m.out) = Shown(lit, k.out)
    BY <2>3, <2>4, EmitSays
  <2> QED BY <2>2, <2>5, <2>6 DEF Dumps, LitOK, Selected
<1>2. CASE l.stepMode # mode
  <2>1. m = l /\ (l.sel # <<>> => Head(l.sel) \in Selected(l))
    BY <1>2 DEF Step, Formed, Objects, Selected, Range
  <2> QED BY <2>1 DEF Dumps
<1> QED BY <1>1, <1>2

\* getNextFramesource() says what next() says.
LEMMA GetNextSays ==
    ASSUME NEW l, Formed(l), NEW m \in GetNextFramesource(l), NEW lit
    PROVE  Dumps(l, m) /\ (LitOK(lit, l) => LitOK(lit, m))
<1>1. CASE WantsNext(l)
  <2>1. PICK k \in NextSource(l, l.cur # NoSlot) : m = [k EXCEPT !.cur = FrontOf(k)]
    BY <1>1 DEF GetNextFramesource
  <2>2. (l.cur # NoSlot) \in BOOLEAN
    OBVIOUS
  <2>3. Formed(k) /\ Dumps(l, k) /\ (LitOK(lit, l) => LitOK(lit, k))
    BY <2>1, <2>2, NextSourceKeeps, NextSourceSays
  <2>4. m.sel = k.sel /\ m.out = k.out
    BY <2>1, <2>3 DEF Formed, Objects
  <2> QED BY <2>3, <2>4 DEF Dumps, LitOK, Selected
<1>2. CASE ~WantsNext(l)
  <2>1. m = l /\ (l.sel # <<>> => Head(l.sel) \in Selected(l))
    BY <1>2 DEF GetNextFramesource, Formed, Objects, Selected, Range
  <2> QED BY <2>1 DEF Dumps
<1> QED BY <1>1, <1>2
-----------------------------------------------------------------------------
(***************************************************************************)
(* The front.  A caller in another thread may hold on to the front it saw. *)
(***************************************************************************)
\* The front and currentIndex are where they were.
FrontStays(l, m) ==
    /\ l.sel # <<>> => m.sel # <<>> /\ Head(m.sel) = Head(l.sel)
    /\ m.cur = l.cur

\* select() moves the front only if it asks for a dump.
LEMMA SelectFront ==
    ASSUME NEW l, Formed(l), NEW pos \in Slots, NEW active \in BOOLEAN,
           NEW m \in Select(l, pos, active)
    PROVE  Dump \in Range(m.out) \/ FrontStays(l, m)
<1>1. ASSUME NEW k \in Deselect(l, pos)
      PROVE  Dump \in Range(k.out) \/ FrontStays(l, k)
  <2>1. l \in Objects /\ l.sel \in Seq(Slots) /\ IsInjective(l.sel)
    BY DEF Formed, Objects
  <2>2. CASE ~isSelected(l, pos)
    BY <2>2 DEF Deselect, FrontStays
  <2>3. CASE isSelected(l, pos) /\ Head(l.sel) = pos
    BY <2>3, DeselectSays
  <2>4. CASE isSelected(l, pos) /\ Head(l.sel) # pos
    <3> DEFINE i == CHOOSE x \in DOMAIN l.sel : l.sel[x] = pos
               rest == [l EXCEPT !.sel = RemoveAt(l.sel, i)]
    <3>1. i \in DOMAIN l.sel /\ l.sel[i] = pos
      BY <2>4 DEF isSelected, Selected, Range
    <3>2. k \in (IF i = 1
                THEN NextIdle(Emit([Emit(rest, Off(pos)) EXCEPT !.cur = NoSlot], Dump))
                ELSE {Emit(rest, Off(pos))})
      BY <2>4 DEF Deselect
    <3> HIDE DEF i
    <3>3. i # 1
      BY <2>1, <2>4, <3>1
    <3>4. /\ RemoveAt(l.sel, i) \in Seq(Slots)
          /\ RemoveAt(l.sel, i) # <<>> /\ Head(RemoveAt(l.sel, i)) = Head(l.sel)
      BY <2>1, <3>1, <3>3, RemoveKeeps
    <3>5. rest \in Objects /\ rest.sel = RemoveAt(l.sel, i) /\ rest.cur = l.cur
      BY <2>1, <3>4 DEF Objects
    <3>6. k = Emit(rest, Off(pos))
      BY <3>2, <3>3
    <3> HIDE DEF rest
    <3>7. k.sel = rest.sel /\ k.cur = rest.cur
      BY <3>5, <3>6, EmitKeeps, SignalTypes
    <3> QED BY <3>4, <3>5, <3>7 DEF FrontStays
  <2> QED BY <2>2, <2>3, <2>4
<1>2. CASE active
  <2>1. PICK k \in Deselect(l, pos) : m \in AddSelection(k, pos)
    BY <1>2 DEF Select
  <2>2. Formed(k)
    BY <2>1, DeselectKeeps
  <2>3. k \in Objects /\ k.sel \in Seq(Slots)
    BY <2>2 DEF Formed, Objects
  <2>4. Range(k.out) \subseteq Range(m.out)
    BY <2>1, <2>2, AddSelectionSays
  <2>5. CASE k.selMode = "SINGLE"
    BY <2>1, <2>2, <2>5, AddSelectionSays
  <2>6. CASE k.selMode # "SINGLE"
    <3> DEFINE more == Append(k.sel, pos)
               added == [k EXCEPT !.sel = more]
    <3>1. m = Emit(added, On(pos))
      BY <2>1, <2>6 DEF AddSelection
    <3>2. more \in Seq(Slots) /\ more # <<>> /\ (k.sel # <<>> => Head(more) = Head(k.sel))
      <4>1. /\ more \in Seq(Slots) /\ Len(more) = Len(k.sel) + 1 /\ Len(k.sel) \in Nat
            /\ \A x \in 1..Len(k.sel) : more[x] = k.sel[x]
        BY <2>3
      <4> HIDE DEF more
      <4>2. more # <<>> /\ Head(more) = more[1]
        BY <4>1
      <4>3. k.sel # <<>> => Len(k.sel) >= 1 /\ Head(k.sel) = k.sel[1]
        BY <2>3
      <4> QED BY <4>1, <4>2, <4>3
    <3> HIDE DEF more
    <3>3. added \in Objects /\ added.sel = more /\ added.cur = k.cur
      BY <2>3, <3>2 DEF Objects
    <3> HIDE DEF added
    <3>4. m.sel = more /\ m.cur = k.cur
      BY <3>1, <3>3, EmitKeeps, SignalTypes
    <3> QED BY <1>1, <2>1, <2>4, <3>2, <3>4 DEF FrontStays
  <2> QED BY <2>5, <2>6
<1>3. CASE ~active
  BY <1>1, <1>3 DEF Select
<1> QED BY <1>2, <1>3

\* Dropping all but the front leaves it and currentIndex alone.
LEMMA TruncateFront ==
    ASSUME NEW l, Formed(l)
    PROVE  FrontStays(l, TruncateTo(l))
<1>1. l \in Objects /\ l.sel \in Seq(Slots)
  BY DEF Formed, Objects
<1>2. CASE Len(l.sel) > 1
  <2> DEFINE signals == l.out \o [i \in 1..(Len(l.sel) - 1) |-> Off(l.sel[Len(l.sel) + 1 - i])]
             front == <<Head(l.sel)>>
  <2>1. TruncateTo(l) = [l EXCEPT !.sel = front, !.out = signals]
    BY <1>2 DEF TruncateTo
  <2>2. front # <<>> /\ Head(front) = Head(l.sel)
    OBVIOUS
  <2> HIDE DEF signals, front
  <2>3. TruncateTo(l).sel = front /\ TruncateTo(l).cur = l.cur
    BY <1>1, <2>1 DEF Objects
  <2> QED BY <2>2, <2>3 DEF FrontStays
<1>3. CASE ~(Len(l.sel) > 1)
  BY <1>3 DEF TruncateTo, FrontStays
<1> QED BY <1>2, <1>3
=============================================================================
