------------------------- MODULE HeadSelectionProofs -------------------------
(***************************************************************************)
(* What holds of a head's list while three threads call it, for every set  *)
(* of positions, every set of modes and every length of the queues.        *)
(*                                                                         *)
(* Two ideas make the invariants inductive.  The indicators that will be   *)
(* shown once everything queued has arrived (Announced) are the selection  *)
(* at any time, not only when the queues are empty.  And the position that *)
(* the head projects, or has in hand between the lock and the load, is the *)
(* front of the list unless a stop order is queued (Covered): a position   *)
(* that is merely in the list could be erased without one.                 *)
(***************************************************************************)
EXTENDS HeadSelection, PlaybackListCallsProofs

\* The indicators once every queued signal has been handled.
Announced == Shown(Shown(indicator, engineQueue), headQueue)

NoOnce == "ONCE" \notin habit
NoStepping == {"MANUAL", "BEAT"} \cap habit = {}

\* The front of the list, or something that a queued order will stop.
Covered(p) == \/ p = NoSlot
              \/ Dump \in Range(headQueue)
              \/ pl.sel # <<>> /\ p = Head(pl.sel)

\* A click in progress is about a position.
ClickOK == click = NoClick \/ click.pos \in Slots

\* The step mode is the initial one or one the user picks.
ModeOK == pl.stepMode \in habit \cup {"LOOP"}

AnnouncedOK == NoOnce => Announced = Selected(pl)

StopOK == NoStepping => /\ headPC # "stepped"
                        /\ headPC = "idle" => Covered(pb)
                        /\ headPC = "assign" => Covered(result)
                        /\ headPC = "return" => Covered(pl.cur)

\* The inductive invariant.
IInv == TypeOK /\ NoDuplicates /\ ClickOK /\ ModeOK /\ AnnouncedOK /\ StopOK
-----------------------------------------------------------------------------
(***************************************************************************)
(* The queues.                                                             *)
(***************************************************************************)
\* Signals are events, and the two other events are no signals.
LEMMA EventTypes ==
    /\ Signals \subseteq Events /\ Data \in Events /\ Manual \in Events
    /\ Data.type # "selectionChanged" /\ Manual.type # "selectionChanged"
    /\ Dump.type # "selectionChanged" /\ Data # Dump /\ Manual # Dump
  BY DEF Events, Data, Manual, Dump

\* What is relayed are signals, and without a signal nothing is.
LEMMA RelayedTypes ==
    ASSUME NEW s \in Seq(Signals)
    PROVE  Relayed(s) \in Seq(Signals) /\ (s = <<>> => Relayed(s) = <<>>)
<1>1. CASE Dump \in Range(s)
  <2> DEFINE i == CHOOSE x \in DOMAIN s : s[x] = Dump
  <2>1. i \in DOMAIN s
    BY <1>1 DEF Range
  <2>2. Relayed(s) = RemoveAt(s, i)
    BY <1>1 DEF Relayed
  <2> HIDE DEF i
  <2>3. RemoveAt(s, i) \in Seq(Signals)
    BY <2>1 DEF RemoveAt
  <2> QED BY <2>1, <2>2, <2>3
<1>2. CASE Dump \notin Range(s)
  BY <1>2 DEF Relayed
<1> QED BY <1>1, <1>2

\* Taking the first event of a queue.
LEMMA TakeFirst ==
    ASSUME NEW S, NEW q \in Seq(S), q # <<>>, NEW lit
    PROVE  /\ Head(q) \in S /\ Tail(q) \in Seq(S)
           /\ Shown(lit, q) = Shown(Shown(lit, <<Head(q)>>), Tail(q))
           /\ \A e : e \in Range(q) /\ e # Head(q) => e \in Range(Tail(q))
<1>1. Head(q) \in S /\ Tail(q) \in Seq(S) /\ q = <<Head(q)>> \o Tail(q)
  OBVIOUS
<1> DEFINE first == <<Head(q)>>
           rest == Tail(q)
<1>2. first \in Seq(S) /\ rest \in Seq(S) /\ q = first \o rest
  BY <1>1
<1>3. \A e : e \in Range(q) /\ e # Head(q) => e \in Range(rest)
  <2> SUFFICES ASSUME NEW i \in DOMAIN q, q[i] # Head(q) PROVE q[i] \in Range(rest)
    BY DEF Range
  <2>1. i # 1 /\ i \in 1..Len(q) /\ Len(q) \in Nat
    OBVIOUS
  <2>2. i - 1 \in DOMAIN rest /\ rest[i - 1] = q[i]
    BY <2>1
  <2> QED BY <2>2 DEF Range
<1> HIDE DEF first, rest
<1>4. Shown(lit, q) = Shown(Shown(lit, first), rest)
  BY <1>2, ShownConcat
<1> QED BY <1>1, <1>3, <1>4 DEF first, rest

\* Adding events to a queue.
LEMMA AddLast ==
    ASSUME NEW S, NEW q \in Seq(S), NEW s \in Seq(S), NEW lit
    PROVE  /\ q \o s \in Seq(S)
           /\ Shown(lit, q \o s) = Shown(Shown(lit, q), s)
           /\ Range(q) \subseteq Range(q \o s) /\ Range(s) \subseteq Range(q \o s)
<1>1. Shown(lit, q \o s) = Shown(Shown(lit, q), s)
  BY ShownConcat
<1>2. /\ q \o s \in Seq(S)
      /\ \A i \in DOMAIN q : i \in DOMAIN (q \o s) /\ (q \o s)[i] = q[i]
      /\ \A i \in DOMAIN s : Len(q) + i \in DOMAIN (q \o s) /\ (q \o s)[Len(q) + i] = s[i]
  OBVIOUS
<1> DEFINE t == q \o s
<1>3. Range(q) \subseteq Range(t) /\ Range(s) \subseteq Range(t)
  <2>1. /\ \A i \in DOMAIN q : i \in DOMAIN t /\ t[i] = q[i]
        /\ \A i \in DOMAIN s : Len(q) + i \in DOMAIN t /\ t[Len(q) + i] = s[i]
    BY <1>2
  <2> HIDE DEF t
  <2> QED BY <2>1 DEF Range
<1> QED BY <1>1, <1>2, <1>3

\* Adding one event.
LEMMA AddOne ==
    ASSUME NEW S, NEW q \in Seq(S), NEW e \in S, NEW lit
    PROVE  /\ Append(q, e) \in Seq(S)
           /\ Shown(lit, Append(q, e)) = Shown(Shown(lit, q), <<e>>)
           /\ Range(q) \subseteq Range(Append(q, e))
<1> DEFINE last == <<e>>
<1>1. last \in Seq(S) /\ Append(q, e) = q \o last
  OBVIOUS
<1> HIDE DEF last
<1>2. /\ q \o last \in Seq(S)
      /\ Shown(lit, q \o last) = Shown(Shown(lit, q), last)
      /\ Range(q) \subseteq Range(q \o last)
  BY <1>1, AddLast
<1> QED BY <1>1, <1>2 DEF last

\* Events other than selectionChanged() leave the indicators alone.
LEMMA QuietShown ==
    ASSUME NEW lit \in SUBSET Slots, NEW q,
           \A i \in DOMAIN q : ~IsSelectionChanged(q[i])
    PROVE  Shown(lit, q) = lit
<1>1. \A i \in DOMAIN q, p \in Slots : q[i] # On(p) /\ q[i] # Off(p)
  BY DEF IsSelectionChanged, On, Off
<1> QED BY <1>1 DEF Shown
-----------------------------------------------------------------------------
(***************************************************************************)
(* Calls of the list.                                                      *)
(***************************************************************************)
\* The list is formed between steps, and a step's signals are taken off it.
LEMMA ListFormed ==
    ASSUME IInv
    PROVE  /\ Formed(pl) /\ pl \in Objects /\ pl.out = <<>> /\ pl.sel \in Seq(Slots)
           /\ \A lit \in SUBSET Slots : Shown(lit, pl.out) = lit
<1>1. Formed(pl) /\ pl \in Objects /\ pl.out = <<>> /\ pl.sel \in Seq(Slots)
  BY DEF IInv, TypeOK, NoDuplicates, Formed, Objects
<1>2. \A i \in DOMAIN pl.out : ~IsSelectionChanged(pl.out[i])
  BY <1>1
<1> QED BY <1>1, <1>2, QuietShown

LEMMA TakenOff ==
    ASSUME NEW m, Formed(m), NEW t, t = [m EXCEPT !.out = <<>>]
    PROVE  /\ Formed(t) /\ t.out = <<>> /\ t.sel = m.sel /\ t.cur = m.cur
           /\ SameModes(m, t)
<1>1. m \in Objects /\ IsInjective(m.sel) /\ <<>> \in Seq(Signals)
  BY DEF Formed
<1>2. t \in Objects /\ t.out = <<>> /\ t.sel = m.sel /\ t.cur = m.cur /\ SameModes(m, t)
  BY <1>1 DEF Objects, SameModes
<1> QED BY <1>1, <1>2 DEF Formed

\* A call from another thread posts its signals to the head.  It keeps the
\* invariant if it asks for a dump whenever it moves the front, and if its
\* signals are right.
LEMMA CallFromOutside ==
    ASSUME IInv, NEW m, Formed(m), SameModes(pl, m), InOtherThread(m),
           UNCHANGED <<threadVars, engineQueue, indicator, habit>>,
           Dump \in Range(m.out) \/ FrontStays(pl, m),
           NoOnce => LitExact(Announced, m)
    PROVE  /\ pl' \in Objects /\ pl'.out = <<>> /\ headQueue' \in Seq(Events)
           /\ NoDuplicates' /\ ModeOK' /\ AnnouncedOK' /\ StopOK'
<1>1. /\ Formed(pl') /\ pl'.out = <<>> /\ pl'.sel = m.sel /\ pl'.cur = m.cur
      /\ SameModes(m, pl')
  BY TakenOff DEF InOtherThread
<1>2. /\ m.out \in Seq(Events) /\ headQueue \in Seq(Events)
      /\ headQueue' = headQueue \o m.out
  <2>1. m.out \in Seq(Signals)
    BY DEF Formed, Objects
  <2>2. m.out \in Seq(Events)
    BY <2>1, EventTypes
  <2> QED BY <2>2 DEF IInv, TypeOK, InOtherThread
<1>3. /\ headQueue' \in Seq(Events)
      /\ Range(headQueue) \subseteq Range(headQueue')
      /\ Range(m.out) \subseteq Range(headQueue')
      /\ \A lit : Shown(lit, headQueue') = Shown(Shown(lit, headQueue), m.out)
  <2> DEFINE s == m.out
             q == headQueue
  <2>1. s \in Seq(Events) /\ q \in Seq(Events)
    BY <1>2
  <2> HIDE DEF s, q
  <2>2. /\ q \o s \in Seq(Events)
        /\ Range(q) \subseteq Range(q \o s) /\ Range(s) \subseteq Range(q \o s)
        /\ \A lit : Shown(lit, q \o s) = Shown(Shown(lit, q), s)
    BY <2>1, AddLast
  <2> QED BY <1>2, <2>2 DEF s, q
<1>4. NoDuplicates'
  BY <1>1 DEF NoDuplicates, Formed
<1>5. ModeOK'
  BY <1>1 DEF IInv, ModeOK, SameModes
<1>6. AnnouncedOK'
  <2>1. Announced' = Shown(Announced, m.out)
    BY <1>3 DEF Announced
  <2> QED BY <1>1, <2>1 DEF AnnouncedOK, NoOnce, LitExact, Selected
<1>7. StopOK'
  <2> SUFFICES ASSUME NoStepping
               PROVE  /\ headPC # "stepped"
                      /\ headPC = "idle" => Covered(pb)'
                      /\ headPC = "assign" => Covered(result)'
                      /\ headPC = "return" => Covered(pl.cur)'
    BY DEF StopOK, NoStepping, threadVars
  <2>1. /\ headPC # "stepped"
        /\ headPC = "idle" => Covered(pb)
        /\ headPC = "assign" => Covered(result)
        /\ headPC = "return" => Covered(pl.cur)
    BY DEF IInv, StopOK
  <2>2. CASE Dump \in Range(m.out)
    BY <1>3, <2>1, <2>2 DEF Covered
  <2>3. CASE FrontStays(pl, m)
    BY <1>1, <1>3, <2>1, <2>3 DEF Covered, FrontStays, threadVars
  <2> QED BY <2>2, <2>3
<1> QED BY <1>1, <1>3, <1>4, <1>5, <1>6, <1>7 DEF Formed

\* next(running) in the head thread: what it returns is the front of the list
\* it leaves, and outside ONCE it says nothing.
LEMMA CallInHead ==
    ASSUME IInv, NEW r \in BOOLEAN, NEW m \in NextSource(pl, r), InHeadThread(m)
    PROVE  /\ pl' \in Objects /\ pl'.out = <<>> /\ NoDuplicates'
           /\ pl'.stepMode = pl.stepMode
           /\ engineQueue' \in Seq(Signals) /\ pb' \in Slots \cup {NoSlot}
           /\ FrontOf(m) \in Slots \cup {NoSlot}
           /\ FrontOf(m) # NoSlot => pl'.sel # <<>> /\ FrontOf(m) = Head(pl'.sel)
           /\ pl.stepMode # "ONCE" =>
                 engineQueue' = engineQueue /\ Selected(pl') = Selected(pl)
<1>1. Formed(pl) /\ pl.out = <<>>
  BY ListFormed
<1>2. Formed(m) /\ SameModes(pl, m)
  BY <1>1, NextSourceKeeps
<1>3. pl.stepMode # "ONCE" => m.out = <<>> /\ Selected(m) = Selected(pl)
  BY <1>1, NextSourceSays
<1>4. /\ Formed(pl') /\ pl'.out = <<>> /\ pl'.sel = m.sel /\ SameModes(m, pl')
  BY <1>2, TakenOff DEF InHeadThread
<1>5. m.out \in Seq(Signals) /\ m.sel \in Seq(Slots)
  BY <1>2 DEF Formed, Objects
<1>6. Relayed(m.out) \in Seq(Signals) /\ (m.out = <<>> => Relayed(m.out) = <<>>)
  BY <1>5, RelayedTypes
<1>7. engineQueue \in Seq(Signals) /\ pb \in Slots \cup {NoSlot}
  BY DEF IInv, TypeOK
<1>8. engineQueue' = engineQueue \o Relayed(m.out)
  BY DEF InHeadThread
<1>9. engineQueue' \in Seq(Signals) /\ (m.out = <<>> => engineQueue' = engineQueue)
  BY <1>6, <1>7, <1>8
<1>10. pb' \in Slots \cup {NoSlot}
  BY <1>7 DEF InHeadThread
<1>11. /\ FrontOf(m) \in Slots \cup {NoSlot}
       /\ FrontOf(m) # NoSlot => m.sel # <<>> /\ FrontOf(m) = Head(m.sel)
  BY <1>5 DEF FrontOf
<1> QED
  BY <1>2, <1>3, <1>4, <1>9, <1>10, <1>11 DEF NoDuplicates, Formed, SameModes, Selected

\* Taking an event that is no selectionChanged() off the head's queue.
LEMMA HeadTook ==
    ASSUME IInv, NEW e, HeadTakes(e), ~IsSelectionChanged(e)
    PROVE  /\ headPC = "idle" /\ headQueue' \in Seq(Events) /\ e \in Events
           /\ \A lit : Shown(Shown(lit, engineQueue), headQueue)
                         = Shown(Shown(lit, engineQueue), headQueue')
           /\ e # Dump /\ Dump \in Range(headQueue) => Dump \in Range(headQueue')
<1>1. headQueue \in Seq(Events)
  BY DEF IInv, TypeOK
<1>2. headPC = "idle" /\ headQueue # <<>> /\ Head(headQueue) = e /\ headQueue' = Tail(headQueue)
  BY DEF HeadTakes
<1> DEFINE q == headQueue
<1>3. /\ Head(q) \in Events /\ Tail(q) \in Seq(Events)
      /\ \A lit : Shown(lit, q) = Shown(Shown(lit, <<Head(q)>>), Tail(q))
      /\ \A x : x \in Range(q) /\ x # Head(q) => x \in Range(Tail(q))
  <2>1. q \in Seq(Events) /\ q # <<>>
    BY <1>1, <1>2
  <2> HIDE DEF q
  <2> QED BY <2>1, TakeFirst
<1>4. \A lit \in SUBSET Slots : Shown(lit, <<e>>) = lit
  <2> DEFINE one == <<e>>
  <2>1. \A i \in DOMAIN one : ~IsSelectionChanged(one[i])
    OBVIOUS
  <2> HIDE DEF one
  <2>2. \A lit \in SUBSET Slots : Shown(lit, one) = lit
    BY <2>1, QuietShown
  <2> QED BY <2>2 DEF one
<1>5. \A lit : Shown(lit, engineQueue) \in SUBSET Slots
  BY ShownType
<1> QED BY <1>2, <1>3, <1>4, <1>5
-----------------------------------------------------------------------------
(***************************************************************************)
(* The actions.                                                            *)
(***************************************************************************)
LEMMA InitIInv == ASSUME Init PROVE IInv
<1>1. NewList \in Objects /\ NewList.sel = <<>> /\ NewList.out = <<>> /\ NewList.stepMode = "LOOP"
  BY DEF NewList, Objects, AllSelectionModes, AllStepModes
<1>2. TypeOK
  <2>1. NoClick \in [pos : Slots \cup {NoSlot}, active : BOOLEAN]
    BY DEF NoClick
  <2>2. running \in BOOLEAN
    BY Zenon DEF Init
  <2>3. headQueue \in Seq(Events) /\ engineQueue \in Seq(Signals) /\ indicator \subseteq Slots
    BY DEF Init
  <2> QED BY <1>1, <2>1, <2>2, <2>3 DEF Init, TypeOK
<1>3. NoDuplicates
  BY <1>1 DEF Init, NoDuplicates, IsInjective
<1>4. ClickOK /\ ModeOK
  BY <1>1 DEF Init, ClickOK, ModeOK
<1>5. AnnouncedOK
  BY <1>1 DEF Init, AnnouncedOK, Announced, Shown, Selected, Range
<1>6. StopOK
  BY DEF Init, StopOK, Covered
<1> QED BY <1>2, <1>3, <1>4, <1>5, <1>6 DEF IInv

\* Posting an event that is no selectionChanged() to the head.
LEMMA QuietPost ==
    ASSUME IInv, NEW e \in Events, ~IsSelectionChanged(e),
           headQueue' = Append(headQueue, e),
           UNCHANGED <<pl, threadVars, engineQueue, indicator, click, newMode, habit>>
    PROVE  IInv'
<1>1. headQueue \in Seq(Events)
  BY DEF IInv, TypeOK
<1> DEFINE q == headQueue
           one == <<e>>
<1>2. /\ headQueue' \in Seq(Events)
      /\ \A lit : Shown(lit, headQueue') = Shown(Shown(lit, q), one)
      /\ Range(q) \subseteq Range(headQueue')
  <2>1. q \in Seq(Events) /\ headQueue' = Append(q, e)
    BY <1>1
  <2> HIDE DEF q
  <2> QED BY <2>1, AddOne
<1>3. \A lit : Shown(lit, headQueue') = Shown(lit, q)
  <2>1. \A i \in DOMAIN one : ~IsSelectionChanged(one[i])
    OBVIOUS
  <2> HIDE DEF one
  <2>2. \A lit : Shown(lit, q) \in SUBSET Slots
    BY ShownType
  <2>3. \A lit \in SUBSET Slots : Shown(lit, one) = lit
    BY <2>1, QuietShown
  <2> QED BY <1>2, <2>2, <2>3
<1>4. TypeOK'
  BY <1>2 DEF IInv, TypeOK, threadVars
<1>5. AnnouncedOK'
  BY <1>3 DEF IInv, AnnouncedOK, Announced, NoOnce
<1>6. StopOK'
  BY <1>2 DEF IInv, StopOK, NoStepping, Covered, threadVars
<1> QED BY <1>4, <1>5, <1>6 DEF IInv, NoDuplicates, ClickOK, ModeOK

\* What the user does, clicks aside, that does not touch the list's entries.
LEMMA UserKeeps ==
    ASSUME IInv, UserStep
    PROVE  IInv'
<1>1. habit' = habit
  BY DEF UserStep
<1>2. ASSUME NEW pos \in Slots, ClickedTest(pos) PROVE IInv'
  <2>1. click' = [pos |-> pos, active |-> ~isSelected(pl, pos)]
        /\ UNCHANGED <<pl, threadVars, queues, newMode>>
    BY <1>2 DEF ClickedTest
  <2>2. (~isSelected(pl, pos)) \in BOOLEAN
    BY Zenon
  <2>3. click'.pos \in Slots /\ click' \in [pos : Slots \cup {NoSlot}, active : BOOLEAN]
    BY <2>1, <2>2
  <2>4. TypeOK'
    BY <1>1, <2>1, <2>3 DEF IInv, TypeOK, threadVars, queues
  <2> QED BY <1>1, <2>1, <2>3, <2>4
          DEF IInv, NoDuplicates, ClickOK, ModeOK, AnnouncedOK, Announced, NoOnce,
              StopOK, NoStepping, Covered, threadVars, queues
<1>3. ASSUME NEW mode \in SelectionModes, TruncateForMode(mode) PROVE IInv'
  <2>1. PICK m : m = Truncated(pl, mode)
    OBVIOUS
  <2>2. Formed(pl) /\ pl.out = <<>> /\ \A lit \in SUBSET Slots : Shown(lit, pl.out) = lit
    BY ListFormed
  <2>3. Announced \in SUBSET Slots
    BY ShownType DEF Announced
  <2>4. NoOnce => LitExact(Announced, pl)
    BY <2>2, <2>3 DEF IInv, AnnouncedOK, LitExact
  <2>5. Formed(m) /\ SameModes(pl, m) /\ FrontStays(pl, m) /\ (NoOnce => LitExact(Announced, m))
    <3>1. CASE mode = "SINGLE"
      <4>1. m = TruncateTo(pl)
        BY <2>1, <3>1 DEF Truncated
      <4> QED BY <2>2, <2>4, <4>1, TruncateKeeps, TruncateSays, TruncateFront
    <3>2. CASE mode # "SINGLE"
      BY <2>1, <2>2, <2>4, <3>2 DEF Truncated, SameModes, FrontStays
    <3> QED BY <3>1, <3>2
  <2>6. InOtherThread(m) /\ newMode' = mode
        /\ UNCHANGED <<threadVars, engineQueue, indicator, click, habit>>
    BY <1>1, <1>3, <2>1 DEF TruncateForMode
  <2>7. /\ pl' \in Objects /\ pl'.out = <<>> /\ headQueue' \in Seq(Events)
        /\ NoDuplicates' /\ ModeOK' /\ AnnouncedOK' /\ StopOK'
    BY <2>5, <2>6, CallFromOutside
  <2>8. TypeOK'
    BY <2>6, <2>7, SelectionAssumption DEF IInv, TypeOK, threadVars
  <2> QED BY <2>6, <2>7, <2>8 DEF IInv, ClickOK
<1>4. ASSUME NEW mode \in habit, setStepMode(mode) PROVE IInv'
  <2>1. pl' = [pl EXCEPT !.stepMode = mode] /\ UNCHANGED <<threadVars, queues, click, newMode>>
    BY <1>4 DEF setStepMode
  <2>2. mode \in AllStepModes
    BY SelectionAssumption DEF IInv, TypeOK
  <2>3. /\ pl' \in Objects /\ pl'.sel = pl.sel /\ pl'.cur = pl.cur /\ pl'.out = pl.out
        /\ pl'.stepMode = mode
    BY <2>1, <2>2 DEF IInv, TypeOK, Objects
  <2>4. TypeOK'
    BY <1>1, <2>1, <2>3 DEF IInv, TypeOK, threadVars, queues
  <2> QED BY <1>1, <2>1, <2>3, <2>4
          DEF IInv, NoDuplicates, ClickOK, ModeOK, AnnouncedOK, Announced, Selected, NoOnce,
              StopOK, NoStepping, Covered, threadVars, queues
<1>5. ASSUME manualNext PROVE IInv'
  <2>1. headQueue' = Append(headQueue, Manual)
        /\ UNCHANGED <<pl, threadVars, engineQueue, indicator, click, newMode>>
    BY <1>5 DEF manualNext
  <2>2. Manual \in Events /\ ~IsSelectionChanged(Manual)
    BY EventTypes DEF IsSelectionChanged
  <2> QED BY <1>1, <2>1, <2>2, QuietPost
<1> QED BY <1>2, <1>3, <1>4, <1>5 DEF UserStep

\* The engine thread: the second half of clicked(), and the indicators.
LEMMA EngineKeeps ==
    ASSUME IInv, EngineStep
    PROVE  IInv'
<1>1. habit' = habit
  BY DEF EngineStep
<1>2. ASSUME ClickedSelect PROVE IInv'
  <2>1. PICK m \in Select(pl, click.pos, click.active) : InOtherThread(m)
    BY <1>2 DEF ClickedSelect
  <2>2. click' = NoClick /\ UNCHANGED <<threadVars, engineQueue, indicator, newMode>>
    BY <1>2 DEF ClickedSelect
  <2>3. click.pos \in Slots /\ click.active \in BOOLEAN
    <3>1. click.pos \in Slots
      BY <1>2 DEF IInv, ClickOK, ClickedSelect
    <3> QED BY <3>1 DEF IInv, TypeOK
  <2>4. Formed(pl) /\ pl.out = <<>> /\ \A lit \in SUBSET Slots : Shown(lit, pl.out) = lit
    BY ListFormed
  <2>5. Announced \in SUBSET Slots
    BY ShownType DEF Announced
  <2>6. NoOnce => LitExact(Announced, pl) /\ pl.stepMode # "ONCE"
    BY <2>4, <2>5 DEF IInv, AnnouncedOK, LitExact, ModeOK, NoOnce
  <2>7. Formed(m) /\ SameModes(pl, m)
    BY <2>1, <2>3, <2>4, SelectKeeps
  <2>8. NoOnce => LitExact(Announced, m)
    BY <2>1, <2>3, <2>4, <2>6, SelectSays
  <2>9. Dump \in Range(m.out) \/ FrontStays(pl, m)
    BY <2>1, <2>3, <2>4, SelectFront
  <2>10. /\ pl' \in Objects /\ pl'.out = <<>> /\ headQueue' \in Seq(Events)
         /\ NoDuplicates' /\ ModeOK' /\ AnnouncedOK' /\ StopOK'
    BY <1>1, <2>1, <2>2, <2>7, <2>8, <2>9, CallFromOutside
  <2>11. NoClick \in [pos : Slots \cup {NoSlot}, active : BOOLEAN]
    BY DEF NoClick
  <2>12. TypeOK'
    BY <1>1, <2>2, <2>10, <2>11 DEF IInv, TypeOK, threadVars
  <2> QED BY <2>2, <2>10, <2>12 DEF IInv, ClickOK
<1>3. ASSUME EngineEvent PROVE IInv'
  <2> DEFINE q == engineQueue
             e == Head(engineQueue)
  <2>1. /\ q # <<>> /\ engineQueue' = Tail(q)
        /\ indicator' = IF e.active THEN indicator \cup {e.pos} ELSE indicator \ {e.pos}
        /\ UNCHANGED <<pl, threadVars, headQueue, click, newMode>>
    BY <1>3 DEF EngineEvent
  <2>2. /\ q \in Seq(Signals) /\ indicator \in SUBSET Slots
    BY DEF IInv, TypeOK
  <2>3. /\ Head(q) \in Signals /\ Tail(q) \in Seq(Signals)
        /\ \A lit : Shown(lit, q) = Shown(Shown(lit, <<Head(q)>>), Tail(q))
    <3> HIDE DEF q
    <3> QED BY <2>1, <2>2, TakeFirst
  <2>4. Shown(indicator, <<e>>) = indicator'
    <3>1. /\ \A p \in Slots : Shown(indicator, <<On(p)>>) = indicator \cup {p}
          /\ \A p \in Slots : Shown(indicator, <<Off(p)>>) = indicator \ {p}
          /\ Shown(indicator, <<Dump>>) = indicator
      BY <2>2, ShownOne, EventTypes
    <3>2. ASSUME NEW p \in Slots, e = On(p) PROVE Shown(indicator, <<e>>) = indicator'
      <4>1. e.active /\ e.pos = p
        BY <3>2 DEF On
      <4> HIDE DEF e
      <4> QED BY <2>1, <3>1, <3>2, <4>1
    <3>3. ASSUME NEW p \in Slots, e = Off(p) PROVE Shown(indicator, <<e>>) = indicator'
      <4>1. ~e.active /\ e.pos = p
        BY <3>3 DEF Off
      <4> HIDE DEF e
      <4> QED BY <2>1, <3>1, <3>3, <4>1
    <3>4. CASE e = Dump
      <4>1. ~e.active /\ e.pos \notin Slots
        BY <3>4, NoSlotAssumption DEF Dump
      <4> HIDE DEF e
      <4> QED BY <2>1, <2>2, <3>1, <3>4, <4>1
    <3> QED BY <2>3, <3>2, <3>3, <3>4 DEF Signals
  <2>5. indicator' \subseteq Slots
    BY <2>4, ShownType
  <2>6. TypeOK'
    BY <1>1, <2>1, <2>3, <2>5 DEF IInv, TypeOK, threadVars
  <2>7. Announced' = Announced
    BY <2>1, <2>3, <2>4 DEF Announced
  <2> QED BY <1>1, <2>1, <2>6, <2>7
          DEF IInv, NoDuplicates, ClickOK, ModeOK, AnnouncedOK, NoOnce,
              StopOK, NoStepping, Covered, threadVars
<1> QED BY <1>2, <1>3 DEF EngineStep

\* The assignment of the selection mode.
LEMMA GuiKeeps ==
    ASSUME IInv, GuiStep
    PROVE  IInv'
<1>1. /\ habit' = habit /\ newMode # "none" /\ newMode' = "none"
      /\ pl' = [pl EXCEPT !.selMode = newMode]
      /\ UNCHANGED <<threadVars, queues, click>>
  BY DEF GuiStep, AssignMode
<1>2. newMode \in AllSelectionModes
  BY <1>1 DEF IInv, TypeOK
<1>3. /\ pl' \in Objects /\ pl'.sel = pl.sel /\ pl'.cur = pl.cur /\ pl'.out = pl.out
      /\ pl'.stepMode = pl.stepMode
  BY <1>1, <1>2 DEF IInv, TypeOK, Objects
<1>4. TypeOK'
  BY <1>1, <1>3 DEF IInv, TypeOK, threadVars, queues
<1> QED BY <1>1, <1>3, <1>4
        DEF IInv, NoDuplicates, ClickOK, ModeOK, AnnouncedOK, Announced, Selected, NoOnce,
            StopOK, NoStepping, Covered, threadVars, queues

LEMMA TimerKeeps ==
    ASSUME IInv, TimerStep
    PROVE  IInv'
<1>1. /\ headQueue' = Append(headQueue, Data)
      /\ UNCHANGED <<pl, threadVars, engineQueue, indicator, click, newMode, habit>>
  BY DEF TimerStep, RequestMoreData
<1>2. Data \in Events /\ ~IsSelectionChanged(Data)
  BY EventTypes DEF IsSelectionChanged
<1> QED BY <1>1, <1>2, QuietPost

\* The head thread.
LEMMA HeadKeeps ==
    ASSUME IInv, HeadStep
    PROVE  IInv'
<1>1. habit' = habit
  BY DEF HeadStep
<1>2. NoStepping => pl.stepMode \in {"ONCE", "LOOP"}
  BY DEF IInv, ModeOK, TypeOK, Objects, AllStepModes, NoStepping
<1>3. NoOnce => pl.stepMode # "ONCE"
  BY DEF IInv, ModeOK, NoOnce
<1>4. Data # Dump /\ ~IsSelectionChanged(Data) /\ Manual # Dump
      /\ ~IsSelectionChanged(Manual) /\ ~IsSelectionChanged(Dump)
  BY EventTypes DEF IsSelectionChanged
<1>5. ASSUME NEW e, HeadTakes(e), e # Dump, ~IsSelectionChanged(e),
             UNCHANGED <<pl, threadVars, engineQueue, indicator, click, newMode>>
      PROVE  IInv'
  <2>1. /\ headQueue' \in Seq(Events)
        /\ \A lit : Shown(Shown(lit, engineQueue), headQueue)
                      = Shown(Shown(lit, engineQueue), headQueue')
        /\ Dump \in Range(headQueue) => Dump \in Range(headQueue')
    BY <1>5, HeadTook
  <2>2. TypeOK'
    BY <1>1, <1>5, <2>1 DEF IInv, TypeOK, threadVars
  <2>3. AnnouncedOK'
    BY <1>1, <1>5, <2>1 DEF IInv, AnnouncedOK, Announced, NoOnce
  <2>4. StopOK'
    BY <1>1, <1>5, <2>1 DEF IInv, StopOK, NoStepping, Covered, threadVars
  <2> QED BY <1>1, <1>5, <2>2, <2>3, <2>4 DEF IInv, NoDuplicates, ClickOK, ModeOK
<1>6. ASSUME dataRequestedPlaying \/ manualIgnored PROVE IInv'
  BY <1>4, <1>5, <1>6 DEF dataRequestedPlaying, manualIgnored
<1>7. ASSUME dataRequestedEnded PROVE IInv'
  <2>1. /\ HeadTakes(Data)
        /\ headPC' = IF WantsNext(pl) THEN "next" ELSE "return"
        /\ UNCHANGED <<pl, result, pb, engineQueue, indicator, click, newMode>>
    BY <1>7 DEF dataRequestedEnded
  <2>2. running' \in BOOLEAN
    <3>1. running' = (WantsNext(pl) /\ pl.cur # NoSlot)
      BY <1>7 DEF dataRequestedEnded
    <3>2. (WantsNext(pl) /\ pl.cur # NoSlot) \in BOOLEAN
      BY Zenon
    <3> QED BY <3>1, <3>2, Zenon
  <2>3. /\ headQueue' \in Seq(Events)
        /\ \A lit : Shown(Shown(lit, engineQueue), headQueue)
                      = Shown(Shown(lit, engineQueue), headQueue')
    BY <1>4, <2>1, HeadTook
  <2>4. TypeOK'
    BY <1>1, <2>1, <2>2, <2>3 DEF IInv, TypeOK
  <2>5. AnnouncedOK'
    BY <1>1, <2>1, <2>3 DEF IInv, AnnouncedOK, Announced, NoOnce
  <2>6. StopOK'
    <3>1. NoStepping => headPC' = "next"
      BY <1>2, <2>1 DEF WantsNext
    <3> QED BY <1>1, <3>1 DEF StopOK, NoStepping
  <2> QED BY <1>1, <2>1, <2>4, <2>5, <2>6 DEF IInv, NoDuplicates, ClickOK, ModeOK
<1>8. ASSUME getNext PROVE IInv'
  <2>1. PICK m \in NextSource(pl, running) : InHeadThread(m) /\ result' = FrontOf(m)
    BY <1>8 DEF getNext
  <2>2. headPC' = "assign" /\ UNCHANGED <<headQueue, indicator, click, newMode>>
    BY <1>8 DEF getNext
  <2>3. running \in BOOLEAN
    BY DEF IInv, TypeOK
  <2>4. /\ pl' \in Objects /\ pl'.out = <<>> /\ NoDuplicates'
        /\ pl'.stepMode = pl.stepMode
        /\ engineQueue' \in Seq(Signals) /\ pb' \in Slots \cup {NoSlot}
        /\ result' \in Slots \cup {NoSlot}
        /\ result' # NoSlot => pl'.sel # <<>> /\ result' = Head(pl'.sel)
        /\ pl.stepMode # "ONCE" =>
              engineQueue' = engineQueue /\ Selected(pl') = Selected(pl)
    BY <2>1, <2>3, CallInHead
  <2>5. running' \in BOOLEAN
    BY <1>8, Zenon DEF getNext
  <2>6. TypeOK'
    BY <1>1, <2>2, <2>4, <2>5 DEF IInv, TypeOK
  <2>7. AnnouncedOK'
    BY <1>1, <1>3, <2>2, <2>4 DEF IInv, AnnouncedOK, Announced, NoOnce
  <2>8. StopOK'
    BY <2>2, <2>4 DEF StopOK, Covered
  <2> QED BY <1>1, <2>2, <2>4, <2>6, <2>7, <2>8 DEF IInv, ClickOK, ModeOK
<1>9. ASSUME NEW p \in Slots \cup {NoSlot}, pl' = [pl EXCEPT !.cur = p]
      PROVE  /\ pl' \in Objects /\ pl'.cur = p /\ pl'.out = <<>> /\ pl'.sel = pl.sel
             /\ pl'.stepMode = pl.stepMode /\ Selected(pl') = Selected(pl)
  BY <1>9 DEF IInv, TypeOK, Objects, Selected
<1>10. ASSUME assignCurrent PROVE IInv'
  <2>1. /\ headPC = "assign" /\ pl' = [pl EXCEPT !.cur = result]
        /\ headPC' = "return" /\ result' = NoSlot
        /\ UNCHANGED <<running, pb, queues, click, newMode>>
    BY <1>10 DEF assignCurrent
  <2>2. result \in Slots \cup {NoSlot}
    BY DEF IInv, TypeOK
  <2>3. /\ pl' \in Objects /\ pl'.cur = result /\ pl'.out = <<>> /\ pl'.sel = pl.sel
        /\ pl'.stepMode = pl.stepMode /\ Selected(pl') = Selected(pl)
    BY <1>9, <2>1, <2>2
  <2>4. TypeOK'
    BY <1>1, <2>1, <2>3 DEF IInv, TypeOK, queues
  <2>5. AnnouncedOK'
    BY <1>1, <2>1, <2>3 DEF IInv, AnnouncedOK, Announced, NoOnce, queues
  <2>6. StopOK'
    BY <1>1, <2>1, <2>3 DEF IInv, StopOK, NoStepping, Covered, queues
  <2> QED BY <1>1, <2>1, <2>3, <2>4, <2>5, <2>6 DEF IInv, NoDuplicates, ClickOK, ModeOK
<1>11. ASSUME loadCurrent PROVE IInv'
  <2>1. /\ headPC = "return" /\ headPC' = "idle" /\ pb' = pl.cur
        /\ UNCHANGED <<pl, running, result, queues, click, newMode>>
    BY <1>11 DEF loadCurrent
  <2>2. pl.cur \in Slots \cup {NoSlot}
    BY DEF IInv, TypeOK, Objects
  <2>3. TypeOK'
    BY <1>1, <2>1, <2>2 DEF IInv, TypeOK, queues
  <2>4. StopOK'
    BY <1>1, <2>1 DEF IInv, StopOK, NoStepping, Covered, queues
  <2> QED BY <1>1, <2>1, <2>3, <2>4
          DEF IInv, NoDuplicates, ClickOK, ModeOK, AnnouncedOK, Announced, NoOnce, queues
<1>12. ASSUME manualStep PROVE IInv'
  <2>1. PICK m \in NextSource(pl, TRUE) : InHeadThread(m) /\ result' = FrontOf(m)
    BY <1>12 DEF manualStep
  <2>2. /\ HeadTakes(Manual) /\ pl.stepMode = "MANUAL" /\ headPC' = "stepped"
        /\ UNCHANGED <<running, indicator, click, newMode>>
    BY <1>12 DEF manualStep
  <2>3. /\ pl' \in Objects /\ pl'.out = <<>> /\ NoDuplicates'
        /\ pl'.stepMode = pl.stepMode
        /\ engineQueue' = engineQueue /\ engineQueue \in Seq(Signals)
        /\ pb' \in Slots \cup {NoSlot} /\ result' \in Slots \cup {NoSlot}
        /\ Selected(pl') = Selected(pl)
    BY <2>1, <2>2, CallInHead
  <2>4. /\ headQueue' \in Seq(Events)
        /\ \A lit : Shown(Shown(lit, engineQueue), headQueue)
                      = Shown(Shown(lit, engineQueue), headQueue')
    BY <1>4, <2>2, HeadTook
  <2>5. TypeOK'
    BY <1>1, <2>2, <2>3, <2>4 DEF IInv, TypeOK
  <2>6. AnnouncedOK'
    BY <1>1, <2>2, <2>3, <2>4 DEF IInv, AnnouncedOK, Announced, NoOnce
  <2>7. StopOK'
    BY <1>1, <1>2, <2>2 DEF StopOK, NoStepping
  <2> QED BY <1>1, <2>2, <2>3, <2>5, <2>6, <2>7 DEF IInv, ClickOK, ModeOK
<1>13. ASSUME manualAssign PROVE IInv'
  <2>1. /\ headPC = "stepped" /\ pl' = [pl EXCEPT !.cur = result]
        /\ pb' = NoSlot /\ headPC' = "idle" /\ result' = NoSlot
        /\ UNCHANGED <<running, queues, click, newMode>>
    BY <1>13 DEF manualAssign
  <2>2. result \in Slots \cup {NoSlot}
    BY DEF IInv, TypeOK
  <2>3. /\ pl' \in Objects /\ pl'.cur = result /\ pl'.out = <<>> /\ pl'.sel = pl.sel
        /\ pl'.stepMode = pl.stepMode /\ Selected(pl') = Selected(pl)
    BY <1>9, <2>1, <2>2
  <2>4. TypeOK'
    BY <1>1, <2>1, <2>3 DEF IInv, TypeOK, queues
  <2>5. AnnouncedOK'
    BY <1>1, <2>1, <2>3 DEF IInv, AnnouncedOK, Announced, NoOnce, queues
  <2>6. StopOK'
    BY <2>1 DEF StopOK, Covered
  <2> QED BY <1>1, <2>1, <2>3, <2>4, <2>5, <2>6 DEF IInv, NoDuplicates, ClickOK, ModeOK
<1>14. ASSUME dump PROVE IInv'
  <2>1. /\ HeadTakes(Dump) /\ pb' = NoSlot
        /\ UNCHANGED <<pl, headPC, running, result, engineQueue, indicator, click, newMode>>
    BY <1>14 DEF dump
  <2>2. /\ headPC = "idle" /\ headQueue' \in Seq(Events)
        /\ \A lit : Shown(Shown(lit, engineQueue), headQueue)
                      = Shown(Shown(lit, engineQueue), headQueue')
    BY <1>4, <2>1, HeadTook
  <2>3. TypeOK'
    BY <1>1, <2>1, <2>2 DEF IInv, TypeOK
  <2>4. AnnouncedOK'
    BY <1>1, <2>1, <2>2 DEF IInv, AnnouncedOK, Announced, NoOnce
  <2>5. StopOK'
    BY <2>1, <2>2 DEF StopOK, Covered
  <2> QED BY <1>1, <2>1, <2>3, <2>4, <2>5 DEF IInv, NoDuplicates, ClickOK, ModeOK
<1>15. ASSUME relay PROVE IInv'
  <2> DEFINE e == Head(headQueue)
             q == headQueue
             one == <<e>>
  <2>1. /\ headPC = "idle" /\ q # <<>> /\ IsSelectionChanged(e)
        /\ engineQueue' = Append(engineQueue, e) /\ headQueue' = Tail(q)
        /\ UNCHANGED <<pl, threadVars, indicator, click, newMode>>
    BY <1>15 DEF relay
  <2>2. q \in Seq(Events) /\ engineQueue \in Seq(Signals)
    BY DEF IInv, TypeOK
  <2>3. /\ e \in Events /\ headQueue' \in Seq(Events)
        /\ \A lit : Shown(lit, headQueue) = Shown(Shown(lit, one), headQueue')
        /\ \A x : x \in Range(headQueue) /\ x # e => x \in Range(headQueue')
    <3>1. /\ Head(q) \in Events /\ Tail(q) \in Seq(Events)
          /\ \A lit : Shown(lit, q) = Shown(Shown(lit, <<Head(q)>>), Tail(q))
          /\ \A x : x \in Range(q) /\ x # Head(q) => x \in Range(Tail(q))
      <4> HIDE DEF q
      <4> QED BY <2>1, <2>2, TakeFirst
    <3> QED BY <2>1, <3>1
  <2>4. e \in Signals /\ e # Dump
    BY <2>1, <2>3, EventTypes DEF Events, IsSelectionChanged
  <2> HIDE DEF e
  <2>5. /\ engineQueue' \in Seq(Signals)
        /\ \A lit : Shown(lit, engineQueue') = Shown(Shown(lit, engineQueue), one)
    <3> DEFINE s == engineQueue
    <3>1. s \in Seq(Signals) /\ engineQueue' = Append(s, e)
      BY <2>1, <2>2
    <3> HIDE DEF s
    <3>2. /\ Append(s, e) \in Seq(Signals)
          /\ \A lit : Shown(lit, Append(s, e)) = Shown(Shown(lit, s), <<e>>)
      BY <2>4, <3>1, AddOne
    <3> QED BY <3>1, <3>2 DEF s
  <2>6. TypeOK'
    BY <1>1, <2>1, <2>3, <2>5 DEF IInv, TypeOK, threadVars
  <2>7. Announced' = Announced
    BY <2>1, <2>3, <2>5 DEF Announced
  <2>8. AnnouncedOK'
    BY <1>1, <2>1, <2>7 DEF IInv, AnnouncedOK, NoOnce
  <2>9. StopOK'
    BY <1>1, <2>1, <2>3, <2>4 DEF IInv, StopOK, NoStepping, Covered, threadVars
  <2> QED BY <1>1, <2>1, <2>6, <2>8, <2>9 DEF IInv, NoDuplicates, ClickOK, ModeOK
<1> QED BY <1>6, <1>7, <1>8, <1>10, <1>11, <1>12, <1>13, <1>14, <1>15 DEF HeadStep

LEMMA NextIInv == ASSUME IInv, [Next]_vars PROVE IInv'
<1>1. CASE UNCHANGED vars
  BY <1>1 DEF IInv, TypeOK, NoDuplicates, ClickOK, ModeOK, AnnouncedOK, Announced, NoOnce,
              StopOK, NoStepping, Covered, vars, threadVars, queues
<1> QED BY <1>1, UserKeeps, EngineKeeps, GuiKeeps, TimerKeeps, HeadKeeps
        DEF Next, ThreadStep
-----------------------------------------------------------------------------
(***************************************************************************)
(* The theorems.                                                           *)
(***************************************************************************)
\* The inductive invariant holds throughout.
THEOREM Soundness == Spec => []IInv
<1>1. Init => IInv
  BY InitIInv
<1>2. IInv /\ [Next]_vars => IInv'
  BY NextIInv
<1> QED BY <1>1, <1>2, PTL DEF Spec

\* Types: a step of any thread leaves a list of positions, and the queues
\* hold events only.
THEOREM TypeCorrect == Spec => []TypeOK
<1>1. IInv => TypeOK
  BY DEF IInv
<1> QED BY <1>1, Soundness, PTL

\* Whatever the head removes between isSelected() and select() of clicked(),
\* no position is in the list twice.
THEOREM NeverTwice == Spec => []NoDuplicates
<1>1. IInv => NoDuplicates
  BY DEF IInv
<1> QED BY <1>1, Soundness, PTL

\* Once the signals of all threads have arrived, the indicators are the
\* selection, for a user who does not use ONCE.
THEOREM IndicatorsAlwaysSettle == Spec => []IndicatorsSettle
<1>1. IInv => IndicatorsSettle
  <2> SUFFICES ASSUME IInv, Settled, "ONCE" \notin habit
               PROVE  indicator = Selected(pl)
    BY DEF IndicatorsSettle
  <2>1. Announced = Selected(pl) /\ indicator \in SUBSET Slots
    BY DEF IInv, AnnouncedOK, NoOnce, TypeOK
  <2>2. Shown(indicator, engineQueue) = indicator
    <3>1. \A i \in DOMAIN engineQueue : ~IsSelectionChanged(engineQueue[i])
      BY DEF Settled
    <3> QED BY <2>1, <3>1, QuietShown
  <2>3. Shown(indicator, headQueue) = indicator
    BY <2>1, QuietShown DEF Settled
  <2> QED BY <2>1, <2>2, <2>3 DEF Announced
<1> QED BY <1>1, Soundness, PTL

\* A position that is projected and not selected any more has its stop order
\* in the queue, for a user who uses neither MANUAL nor BEAT.
THEOREM DeselectedAlwaysStopped == Spec => []DeselectedIsStopped
<1>1. IInv => DeselectedIsStopped
  <2> SUFFICES ASSUME IInv, headPC = "idle", pb # NoSlot, pb \notin Selected(pl), NoStepping
               PROVE  Dump \in Range(headQueue)
    BY DEF DeselectedIsStopped, NoStepping
  <2>1. Covered(pb)
    BY DEF IInv, StopOK
  <2>2. pl.sel # <<>> => Head(pl.sel) \in Selected(pl)
    BY ListFormed DEF Selected, Range
  <2> QED BY <2>1, <2>2 DEF Covered
<1> QED BY <1>1, Soundness, PTL
=============================================================================
