----------------------------- MODULE SourceProofs -----------------------------
(***************************************************************************)
(* Proofs about where frames come from: the frame sequencer, which steps   *)
(* through its children, and the ILDA importer, which makes the sources.   *)
(*                                                                         *)
(* The sequencer (Spec, of FrameSequencer).  A playback's pos may be left  *)
(* over from another table between two calls, but the test for the end     *)
(* comes first; from there to the call of a child the table can only be    *)
(* replaced by one of the same size, as long as nobody adopts Pingpong     *)
(* under it.                                                               *)
(*                                                                         *)
(* The importer (ImportSpec).  What a file means is defined over all of it *)
(* at once.  The loop of load() computes it from the front: its members    *)
(* are the tables in force for the next section, and the frames collected  *)
(* are those of the sections before.                                       *)
(***************************************************************************)
EXTENDS FrameSequencer, IldaImport, SequenceTheorems, TLAPS

\* A function on 1..n is a sequence of length n.
LEMMA TableIsSeq ==
    ASSUME NEW S, NEW n \in Nat, NEW f \in [1..n -> S]
    PROVE  f \in Seq(S) /\ Len(f) = n
<1>1. f \in Seq(S)
  BY SeqDef
<1>2. DOMAIN f = 1..Len(f) /\ Len(f) \in Nat
  BY <1>1, LenProperties
<1>3. DOMAIN f = 1..n
  OBVIOUS
<1> QED BY <1>1, <1>2, <1>3
-----------------------------------------------------------------------------
(***************************************************************************)
(* The frame sequencer: its invariant.                                     *)
(***************************************************************************)
\* Only the playbacks that play are ever inside nextFrame().
OthersIdle == \A p \in Playbacks : p \notin habit.playing => pb[p].pc = "idle"

\* The mode is one the user picks, or the one a sequencer starts with.
ModesPicked ==
    mode \in habit.modes \cup {"Sequential"} /\ newMode \in habit.modes \cup {"Sequential"}

\* No other playback can adopt a mode with tables of another size.
Undisturbed == Alone \/ "Pingpong" \notin habit.modes

\* The table of a playback that plays is as long as the mode wants it, and
\* pos is in it wherever the child at pos is asked next or was asked last.
TablesFit ==
    Undisturbed =>
        \A p \in habit.playing :
            /\ Len(pb[p].tbl) = TableSize(mode)
            /\ pb[p].pc \in {"ask", "advance"} => pb[p].pos < Len(pb[p].tbl)
            /\ pb[p].pc # "wild"

\* The inductive invariant of the sequencer.
IInv == TypeOK /\ OthersIdle /\ ModesPicked /\ TablesFit
-----------------------------------------------------------------------------
\* Whatever reset_index() (framesequencer.cpp:154-181) leaves in the table, it
\* has the size of the mode, which is not zero, and holds children only.
LEMMA TableShape ==
    ASSUME NEW m \in {"Sequential", "Random", "Pingpong"}, NEW t \in Tables(m)
    PROVE  /\ TableSize(m) \in Nat \ {0}
           /\ t \in Seq(Children) /\ Len(t) = TableSize(m)
<1> USE SequencerAssumption
<1>1. TableSize(m) \in Nat \ {0}
  BY DEF TableSize
<1>2. InOrder \in [1..NumChildren -> Children]
  BY DEF InOrder, Children
<1>3. t \in [1..TableSize(m) -> Children]
  <2>1. CASE m = "Sequential"
    BY <2>1, <1>2 DEF Tables, TableSize
  <2>2. CASE m = "Random"
    <3>1. PICK f \in Bijection(DOMAIN InOrder, DOMAIN InOrder) :
             t = [i \in DOMAIN InOrder |-> InOrder[f[i]]]
      BY <2>2 DEF Tables
    <3>2. DOMAIN InOrder = 1..NumChildren
      BY <1>2
    <3>3. f \in [1..NumChildren -> 1..NumChildren]
      BY <3>2 DEF Bijection, Injection
    <3> QED BY <2>2, <3>1, <3>2, <3>3, <1>2 DEF TableSize
  <2>3. CASE m = "Pingpong"
    BY <2>3 DEF Tables, TableSize, ThereAndBack, Children
  <2> QED BY <2>1, <2>2, <2>3
<1> QED BY <1>1, <1>3, TableIsSeq

\* The modes are known, and all but Pingpong have tables of one size.
LEMMA SizeOfModes ==
    ASSUME IInv
    PROVE  /\ mode \in {"Sequential", "Random", "Pingpong"}
           /\ newMode \in {"Sequential", "Random", "Pingpong"}
           /\ "Pingpong" \notin habit.modes => TableSize(newMode) = TableSize(mode)
BY SequencerAssumption DEF IInv, TypeOK, ModesPicked, TableSize

\* The initial states satisfy the invariant.
LEMMA InitIInv == Init => IInv
<1> SUFFICES ASSUME Init PROVE IInv
  OBVIOUS
<1> USE SequencerAssumption DEF Init
<1>1. \A p \in Playbacks : \E t \in Tables("Sequential") : pb[p] = Reset(NewPlayback, t)
  OBVIOUS
<1>2. \A p \in Playbacks :
         /\ pb[p] \in [pc : {"idle"}, pos : {0}, done : {0}, tbl : Seq(Children),
                       given : [Children -> {0}]]
         /\ Len(pb[p].tbl) = TableSize("Sequential")
  <2> SUFFICES ASSUME NEW p \in Playbacks
               PROVE  /\ pb[p] \in [pc : {"idle"}, pos : {0}, done : {0}, tbl : Seq(Children),
                                    given : [Children -> {0}]]
                      /\ Len(pb[p].tbl) = TableSize("Sequential")
    OBVIOUS
  <2>1. PICK t \in Tables("Sequential") : pb[p] = Reset(NewPlayback, t)
    BY <1>1
  <2>2. t \in Seq(Children) /\ Len(t) = TableSize("Sequential")
    BY TableShape
  <2>3. pb[p] = [pc |-> "idle", pos |-> 0, done |-> 0, tbl |-> t,
                 given |-> [c \in Children |-> 0]]
    BY <2>1 DEF Reset, NewPlayback
  <2> QED BY <2>2, <2>3
<1>3. TypeOK
  <2>1. pb \in [Playbacks -> [pc : {"idle", "test", "ask", "advance", "wild"},
                              pos : Nat, done : 0..MaxRepeats, tbl : Seq(Children),
                              given : [Children -> Nat]]]
    BY <1>2
  <2>2. \A p \in Playbacks, c \in Children : pb[p].given[c] <= ChildFrames[c]
    BY <1>2
  <2> QED BY <2>1, <2>2 DEF TypeOK
<1>4. habit.playing \subseteq Playbacks
  OBVIOUS
<1>5. OthersIdle /\ ModesPicked /\ TablesFit
  BY <1>2, <1>4 DEF OthersIdle, ModesPicked, TablesFit
<1> QED BY <1>3, <1>5 DEF IInv

Records == [pc : {"idle", "test", "ask", "advance", "wild"}, pos : Nat,
            done : 0..MaxRepeats, tbl : Seq(Children), given : [Children -> Nat]]

\* b is a playback that does not spoil the invariant.
Fits(b) ==
    /\ b \in Records /\ \A c \in Children : b.given[c] <= ChildFrames[c]
    /\ Undisturbed => /\ Len(b.tbl) = TableSize(mode')
                      /\ b.pc \in {"ask", "advance"} => b.pos < Len(b.tbl)
                      /\ b.pc # "wild"

\* A step of one playback, after which it fits, keeps the invariant.
LEMMA OnePlayback ==
    ASSUME IInv, NEW p \in habit.playing, NEW b, pb' = [pb EXCEPT ![p] = b], Fits(b),
           mode' \in {mode, newMode}, UNCHANGED <<newMode, repeats, habit>>,
           shown' \in [Playbacks -> Children \cup {None}]
    PROVE  IInv'
<1> USE SequencerAssumption
<1>1. p \in Playbacks /\ habit.playing \subseteq Playbacks
  BY DEF IInv, TypeOK
<1>2. pb' \in [Playbacks -> Records] /\ pb'[p] = b
  BY <1>1 DEF IInv, TypeOK, Records, Fits
<1>3. \A q \in Playbacks : q # p => pb'[q] = pb[q]
  BY <1>1 DEF IInv, TypeOK
<1>4. TypeOK'
  <2>1. \A q \in Playbacks, c \in Children : pb'[q].given[c] <= ChildFrames[c]
    BY <1>2, <1>3 DEF IInv, TypeOK, Fits
  <2> QED BY <2>1, <1>2 DEF IInv, TypeOK, Records
<1>5. OthersIdle' /\ ModesPicked'
  BY <1>1, <1>3 DEF IInv, OthersIdle, ModesPicked
<1>6. TablesFit'
  <2> SUFFICES ASSUME Undisturbed, NEW q \in habit.playing
               PROVE  /\ Len(pb'[q].tbl) = TableSize(mode')
                      /\ pb'[q].pc \in {"ask", "advance"} => pb'[q].pos < Len(pb'[q].tbl)
                      /\ pb'[q].pc # "wild"
    BY DEF TablesFit, Undisturbed, Alone
  <2>1. CASE q = p
    BY <2>1, <1>2 DEF Fits
  <2>2. CASE q # p
    <3>1. ~Alone
      BY <2>2 DEF Alone
    <3>2. TableSize(mode') = TableSize(mode)
      BY <3>1, SizeOfModes DEF Undisturbed
    <3> QED BY <2>2, <3>2, <1>1, <1>3 DEF IInv, TablesFit
  <2> QED BY <2>1, <2>2
<1> QED BY <1>4, <1>5, <1>6 DEF IInv

\* A playback that plays, before the step.
LEMMA Before ==
    ASSUME IInv, NEW p \in habit.playing
    PROVE  /\ p \in Playbacks /\ pb[p] \in Records
           /\ \A c \in Children : pb[p].given[c] \in 0..ChildFrames[c]
           /\ Undisturbed => /\ Len(pb[p].tbl) = TableSize(mode)
                             /\ pb[p].pc \in {"ask", "advance"} => pb[p].pos < Len(pb[p].tbl)
BY SequencerAssumption DEF IInv, TypeOK, TablesFit, Records

\* A playback with a new table at its start.
Rewound(k, d, t, g) == [pc |-> k, pos |-> 0, done |-> d, tbl |-> t, given |-> g]

\* What reset() leaves of a playback, and of a new one.
LEMMA ResetRewinds ==
    ASSUME NEW b \in Records, NEW t, NEW r
    PROVE  /\ r = Reset(b, t) => r = Rewound(b.pc, 0, t, b.given)
           /\ r = [Reset(b, t) EXCEPT !.pc = "idle"] => r = Rewound("idle", 0, t, b.given)
BY DEF Reset, Records, Rewound

LEMMA NewIsRewound ==
    ASSUME NEW t, NEW d, NEW r
    PROVE  /\ r = Reset(NewPlayback, t) => r = Rewound("idle", 0, t, [c \in Children |-> 0])
           /\ r = [NewPlayback EXCEPT !.done = d, !.tbl = t, !.pc = "ask"]
                 => r = Rewound("ask", d, t, [c \in Children |-> 0])
BY DEF Reset, NewPlayback, Rewound

\* Rewinding a playback keeps the invariant, whoever does it.
LEMMA RewoundKept ==
    ASSUME IInv, UNCHANGED <<source, habit>>, NEW p \in habit.playing,
           NEW t \in Tables(mode), NEW d \in 0..MaxRepeats, NEW k \in {"idle", "ask"},
           NEW g \in [Children -> Nat], \A c \in Children : g[c] <= ChildFrames[c],
           pb' = [pb EXCEPT ![p] = Rewound(k, d, t, g)],
           shown' \in [Playbacks -> Children \cup {None}]
    PROVE  IInv'
<1>1. mode \in {"Sequential", "Random", "Pingpong"}
  BY SizeOfModes
<1>2. TableSize(mode) \in Nat \ {0} /\ t \in Seq(Children) /\ Len(t) = TableSize(mode)
  BY <1>1, TableShape
<1>3. Rewound(k, d, t, g) \in Records
  BY <1>2 DEF Rewound, Records
<1>4. Fits(Rewound(k, d, t, g))
  BY <1>2, <1>3 DEF Fits, Rewound, source
<1> QED BY <1>4, OnePlayback DEF source

\* The rewinds of the holder, and those of nextFrame() itself.
LEMMA RewindsKept ==
    ASSUME IInv, UNCHANGED habit, NEW p \in habit.playing,
           Load(p) \/ reset(p) \/ Finish(p) \/ Repeat(p)
    PROVE  IInv'
<1> DEFINE zero == [c \in Children |-> 0]
           old == pb[p].given
<1>1. /\ p \in Playbacks /\ pb[p] \in Records /\ repeats \in 0..MaxRepeats
      /\ old \in [Children -> Nat] /\ \A c \in Children : old[c] <= ChildFrames[c]
      /\ pb[p].done \in 0..MaxRepeats /\ 0 \in 0..MaxRepeats
  BY Before, SequencerAssumption DEF IInv, TypeOK, Records
<1>2. zero \in [Children -> Nat] /\ \A c \in Children : zero[c] <= ChildFrames[c]
  BY SequencerAssumption
<1>3. UNCHANGED source /\ shown' \in [Playbacks -> Children \cup {None}]
  BY DEF Load, reset, Finish, Repeat, IInv, TypeOK
<1>4. CASE Load(p)
  <2>1. PICK t \in Tables(mode) : pb' = [pb EXCEPT ![p] = Reset(NewPlayback, t)]
    BY <1>4 DEF Load
  <2>2. Reset(NewPlayback, t) = Rewound("idle", 0, t, zero)
    BY NewIsRewound
  <2> QED BY <2>1, <2>2, <1>1, <1>2, <1>3, RewoundKept
<1>5. CASE reset(p)
  <2>1. PICK t \in Tables(mode) : pb' = [pb EXCEPT ![p] = Reset(pb[p], t)]
    BY <1>5 DEF reset
  <2>2. pb[p].pc = "idle"
    BY <1>5 DEF reset, MayStart
  <2>3. Reset(pb[p], t) = Rewound("idle", 0, t, old)
    BY <1>1, <2>2, ResetRewinds
  <2> QED BY <2>1, <2>3, <1>1, <1>3, RewoundKept
<1>6. CASE Finish(p)
  <2>1. PICK t \in Tables(mode) :
           pb' = [pb EXCEPT ![p] = [Reset(pb[p], t) EXCEPT !.pc = "idle"]]
    BY <1>6 DEF Finish
  <2>2. [Reset(pb[p], t) EXCEPT !.pc = "idle"] = Rewound("idle", 0, t, old)
    BY <1>1, ResetRewinds
  <2>3. pb' = [pb EXCEPT ![p] = Rewound("idle", 0, t, old)]
    BY <2>1, <2>2
  <2> QED BY <2>3, <1>1, <1>3, RewoundKept
<1>7. CASE Repeat(p)
  <2>1. PICK t \in Tables(mode) :
           pb' = [pb EXCEPT ![p] = [NewPlayback EXCEPT !.done = pb[p].done + 1, !.tbl = t,
                                                       !.pc = "ask"]]
    BY <1>7 DEF Repeat
  <2>2. pb[p].done < repeats
    BY <1>7 DEF Repeat
  <2>3. pb[p].done + 1 \in 0..MaxRepeats
    BY <2>2, <1>1, SequencerAssumption
  <2>4. [NewPlayback EXCEPT !.done = pb[p].done + 1, !.tbl = t, !.pc = "ask"]
           = Rewound("ask", pb[p].done + 1, t, zero)
    BY NewIsRewound
  <2> QED BY <2>1, <2>3, <2>4, <1>2, <1>3, RewoundKept
<1> QED BY <1>4, <1>5, <1>6, <1>7

\* A playback adopts the new mode, with a table for it.
LEMMA AdoptModeKept ==
    ASSUME IInv, UNCHANGED habit, NEW p \in habit.playing, AdoptMode(p)
    PROVE  IInv'
<1>1. /\ p \in Playbacks /\ pb[p] \in Records
      /\ \A c \in Children : pb[p].given[c] <= ChildFrames[c]
      /\ Undisturbed => Len(pb[p].tbl) = TableSize(mode)
  BY Before, SequencerAssumption
<1>2. mode' = newMode /\ UNCHANGED <<newMode, repeats, shown>>
  BY DEF AdoptMode
<1>3. PICK t \in IF mode = newMode THEN {pb[p].tbl} ELSE Tables(newMode) :
         pb' = [pb EXCEPT ![p].pc = "test", ![p].tbl = t]
  BY DEF AdoptMode
<1>4. t \in Seq(Children) /\ (Undisturbed => Len(t) = TableSize(newMode))
  <2>1. CASE mode = newMode
    BY <2>1, <1>1, <1>3 DEF Records
  <2>2. CASE mode # newMode
    BY <2>2, <1>3, TableShape, SizeOfModes
  <2> QED BY <2>1, <2>2
<1> DEFINE b == [pb[p] EXCEPT !.pc = "test", !.tbl = t]
<1>5. pb' = [pb EXCEPT ![p] = b]
  BY <1>1, <1>3 DEF IInv, TypeOK
<1>6. b \in Records /\ b.given = pb[p].given /\ b.tbl = t /\ b.pc = "test"
  BY <1>1, <1>4 DEF Records
<1>7. Fits(b)
  BY <1>1, <1>2, <1>4, <1>6 DEF Fits
<1>8. shown' \in [Playbacks -> Children \cup {None}]
  BY <1>2 DEF IInv, TypeOK
<1> HIDE DEF b
<1> QED BY <1>2, <1>5, <1>7, <1>8, OnePlayback

\* The test for the end, and the end of the table, only move on.
LEMMA MoveOnKept ==
    ASSUME IInv, UNCHANGED habit, NEW p \in habit.playing, GoOn(p) \/ EndOfTable(p)
    PROVE  IInv'
<1>1. /\ p \in Playbacks /\ pb[p] \in Records
      /\ \A c \in Children : pb[p].given[c] <= ChildFrames[c]
      /\ Undisturbed => Len(pb[p].tbl) = TableSize(mode)
  BY Before, SequencerAssumption
<1>2. UNCHANGED <<source, shown>>
  BY DEF GoOn, EndOfTable
<1>3. PICK k \in {"ask", "test"} : /\ pb' = [pb EXCEPT ![p].pc = k]
                                   /\ k = "ask" => ~RunOut(p)
  BY DEF GoOn, EndOfTable
<1> DEFINE b == [pb[p] EXCEPT !.pc = k]
<1>4. pb' = [pb EXCEPT ![p] = b]
  BY <1>1, <1>3 DEF IInv, TypeOK
<1>5. /\ b \in Records /\ b.given = pb[p].given /\ b.tbl = pb[p].tbl
      /\ b.pc = k /\ b.pos = pb[p].pos
  BY <1>1 DEF Records
<1>6. pb[p].pos \in Nat /\ Len(pb[p].tbl) \in Nat
  BY <1>1 DEF Records
<1>7. Fits(b)
  BY <1>1, <1>2, <1>3, <1>5, <1>6 DEF Fits, source, RunOut
<1>8. shown' \in [Playbacks -> Children \cup {None}]
  BY <1>2 DEF IInv, TypeOK
<1> HIDE DEF b
<1> QED BY <1>2, <1>4, <1>7, <1>8, OnePlayback DEF source

\* What a child was asked stays within what it has.
LEMMA AskedFits ==
    ASSUME NEW g \in [Children -> Nat], \A c \in Children : g[c] <= ChildFrames[c],
           NEW c \in Children
    PROVE  /\ Asked(g, c) \in [Children -> Nat]
           /\ \A d \in Children : Asked(g, c)[d] <= ChildFrames[d]
BY SequencerAssumption DEF Asked, Gives

\* index() and the call of the child there keep the invariant, when the
\* position was in the table.
LEMMA AskChildKept ==
    ASSUME IInv, UNCHANGED <<source, habit>>, NEW p \in habit.playing,
           NEW at \in Nat, NEW rewind \in BOOLEAN, AskChild(p, at, rewind),
           Undisturbed => at < Len(pb[p].tbl)
    PROVE  IInv'
<1> USE SequencerAssumption
<1>1. /\ p \in Playbacks /\ pb[p] \in Records
      /\ pb[p].given \in [Children -> Nat]
      /\ \A c \in Children : pb[p].given[c] <= ChildFrames[c]
      /\ Undisturbed => Len(pb[p].tbl) = TableSize(mode)
  BY Before DEF Records
<1> DEFINE Ends(t) == /\ pb' = [pb EXCEPT ![p].pc = "wild", ![p].tbl = t, ![p].pos = at]
                      /\ UNCHANGED shown
           before(c) == IF rewind THEN [pb[p].given EXCEPT ![c] = 0] ELSE pb[p].given
           after(t, c) == [pb[p] EXCEPT !.pos = at, !.tbl = t,
                                        !.pc = IF Gives(before(c), c) THEN "idle" ELSE "advance",
                                        !.given = Asked(before(c), c)]
<1>2. PICK t \in Repaired(pb[p].tbl) :
         IF at >= Len(t) THEN Ends(t)
         ELSE /\ pb' = [pb EXCEPT ![p] = after(t, t[at + 1])]
              /\ shown' = IF Gives(before(t[at + 1]), t[at + 1])
                          THEN [shown EXCEPT ![p] = t[at + 1]] ELSE shown
  BY DEF AskChild
<1>3. t \in Seq(Children) /\ (Undisturbed => Len(t) = TableSize(mode) /\ at < Len(t))
  <2>1. CASE Len(pb[p].tbl) = TableSize(mode)
    BY <2>1, <1>1, <1>2 DEF Repaired, Records
  <2>2. CASE Len(pb[p].tbl) # TableSize(mode)
    BY <2>2, <1>1, <1>2, TableShape, SizeOfModes DEF Repaired
  <2> QED BY <2>1, <2>2
<1>4. CASE at >= Len(t)
  <2>1. Len(t) \in Nat /\ ~(at < Len(t))
    BY <1>3, <1>4
  <2>2. ~Undisturbed
    BY <2>1, <1>3
  <2>3. Ends(t)
    BY <1>2, <1>4
  <2> DEFINE b == [pb[p] EXCEPT !.pc = "wild", !.tbl = t, !.pos = at]
  <2>4. pb' = [pb EXCEPT ![p] = b]
    BY <1>1, <2>3 DEF IInv, TypeOK
  <2>5. b \in Records /\ b.given = pb[p].given
    BY <1>1, <1>3 DEF Records
  <2>6. Fits(b)
    BY <1>1, <2>2, <2>5 DEF Fits
  <2>7. shown' \in [Playbacks -> Children \cup {None}]
    BY <2>3 DEF IInv, TypeOK
  <2> HIDE DEF b
  <2> QED BY <2>4, <2>6, <2>7, OnePlayback DEF source
<1>5. CASE at < Len(t)
  <2> DEFINE c == t[at + 1]
             b == after(t, c)
  <2>1. c \in Children
    BY <1>3, <1>5
  <2>2. /\ pb' = [pb EXCEPT ![p] = b]
        /\ shown' = IF Gives(before(c), c) THEN [shown EXCEPT ![p] = c] ELSE shown
    BY <1>2, <1>3, <1>5
  <2>3. before(c) \in [Children -> Nat] /\ \A d \in Children : before(c)[d] <= ChildFrames[d]
    BY <1>1, <2>1
  <2>4. /\ Asked(before(c), c) \in [Children -> Nat]
        /\ \A d \in Children : Asked(before(c), c)[d] <= ChildFrames[d]
    BY <2>1, <2>3, AskedFits
  <2>5. /\ b \in Records /\ b.given = Asked(before(c), c) /\ b.tbl = t /\ b.pos = at
        /\ b.pc \in {"idle", "advance"}
    <3> HIDE DEF before, c
    <3> QED BY <1>1, <1>3, <2>4 DEF Records
  <2> HIDE DEF b
  <2>6. Fits(b)
    BY <1>3, <1>5, <2>4, <2>5 DEF Fits, source
  <2>7. shown' \in [Playbacks -> Children \cup {None}]
    BY <2>1, <2>2, <1>1 DEF IInv, TypeOK
  <2> QED BY <2>2, <2>6, <2>7, OnePlayback DEF source
<1>6. Len(t) \in Nat
  BY <1>3
<1> QED BY <1>4, <1>5, <1>6

\* One step of a playback, its holder or the controls keeps the invariant.
LEMMA NextIInv == IInv /\ [Next]_vars => IInv'
<1> SUFFICES ASSUME IInv, [Next]_vars PROVE IInv'
  OBVIOUS
<1>1. ASSUME Controls PROVE IInv'
  <2>1. /\ mode' = mode /\ pb' = pb /\ shown' = shown /\ habit' = habit
        /\ newMode' \in habit.modes \cup {newMode}
        /\ repeats' \in habit.repeats \cup {repeats}
    BY <1>1 DEF Controls, modeChangedData, repeatsChangedData
  <2>2. newMode' \in Modes \cup {"Sequential"} /\ repeats' \in 0..MaxRepeats
    BY <2>1, SequencerAssumption DEF IInv, TypeOK
  <2> QED BY <2>1, <2>2 DEF IInv, TypeOK, OthersIdle, ModesPicked, TablesFit, Undisturbed, Alone
<1>2. ASSUME NEW p \in Playbacks, nextFrame(p) PROVE IInv'
  <2>1. p \in habit.playing /\ UNCHANGED habit
    BY <1>2 DEF nextFrame
  <2>2. CASE AdoptMode(p)
    BY <2>1, <2>2, AdoptModeKept
  <2>3. CASE GoOn(p) \/ EndOfTable(p)
    BY <2>1, <2>3, MoveOnKept
  <2>4. CASE Finish(p) \/ Repeat(p)
    BY <2>1, <2>4, RewindsKept
  <2>5. /\ pb[p].pos \in Nat /\ Len(pb[p].tbl) \in Nat
        /\ Undisturbed /\ pb[p].pc = "ask" => pb[p].pos < Len(pb[p].tbl)
    BY <2>1, Before DEF Records
  <2>6. CASE Ask(p)
    BY <2>1, <2>5, <2>6, AskChildKept DEF Ask, At
  <2>7. CASE Advance(p)
    <3>1. pb[p].pos + 1 \in Nat /\ pb[p].pos + 1 < Len(pb[p].tbl)
      BY <2>5, <2>7 DEF Advance
    <3> QED BY <2>1, <2>7, <3>1, AskChildKept DEF Advance
  <2> QED BY <1>2, <2>2, <2>3, <2>4, <2>6, <2>7 DEF nextFrame, Inside
<1>3. ASSUME NEW p \in Playbacks, Holder(p) PROVE IInv'
  BY <1>3, RewindsKept DEF Holder
<1>4. CASE UNCHANGED vars
  BY <1>4 DEF vars, source, IInv, TypeOK, OthersIdle, ModesPicked, TablesFit, Undisturbed, Alone
<1> QED BY <1>1, <1>2, <1>3, <1>4 DEF Next

\* The inductive invariant holds throughout.
THEOREM Inductive == Spec => []IInv
  BY InitIInv, NextIInv, PTL DEF Spec

\* Every variable keeps its type.
THEOREM TypeCorrect == Spec => []TypeOK
<1>1. IInv => TypeOK
  BY DEF IInv
<1> QED BY <1>1, Inductive, PTL

\* index() never reads beyond its table, while one playback has the sequencer
\* to itself or the user keeps away from Pingpong: for any number of children,
\* of playbacks and of repeats, and whatever modes are adopted when.
THEOREM IndexAlwaysInTable == Spec => []IndexInTable
<1>1. IInv => IndexInTable
  BY DEF IInv, OthersIdle, TablesFit, Undisturbed, IndexInTable
<1> QED BY <1>1, Inductive, PTL
-----------------------------------------------------------------------------
(***************************************************************************)
(* The importer: its invariant.                                            *)
(***************************************************************************)
\* The frames of the file among its first n sections.
FramesUpTo(n) == {k \in FramesOf(file) : k <= n}

\* One of the first n sections is the last that load() reads.
EndedBy(n) == \E j \in 1..n : EndsFile(file, j)

\* The members are the tables in force for section pos + 1.
TablesInForce ==
    /\ palette_ = PaletteFor(file, pos + 1)
    /\ trueColour <=> TrueTables(file, pos + 1) # {}
    /\ trueColour => colour = Items(file, Latest(TrueTables(file, pos + 1)))

\* In the loop of load(), the frames of what was read are collected.
ReadSoFar ==
    pc = "reading" =>
        /\ eof => EndedBy(pos)
        /\ Means(file, Collected, FramesUpTo(pos))
        /\ ~eof /\ pos < Len(file.sections) => ~EndedBy(pos) /\ TablesInForce

\* The calls of addFrameSource() and what the next one will be.
PlacesGiven ==
    /\ idx = Cell <=> added = <<>>
    /\ sequence = <<>> \/ Len(sequence) >= 2
    /\ OneGoesToTheCell

\* The inductive invariant of the importer.
ImportIInv == ImportTypeOK /\ ReadSoFar /\ PlacesGiven
-----------------------------------------------------------------------------
(***************************************************************************)
(* What a file means, read from the front.                                 *)
(***************************************************************************)
\* A file is a sequence of sections.
LEMMA FileShape ==
    ASSUME NEW f \in Files
    PROVE  /\ f.sections \in Seq(Sections) /\ Len(f.sections) \in Nat
           /\ DOMAIN f.sections = 1..Len(f.sections)
<1>1. PICK n \in 0..MaxSections : f.sections \in [1..n -> Sections]
  BY DEF Files
<1>2. n \in Nat
  BY ImportAssumption
<1>3. f.sections \in Seq(Sections) /\ Len(f.sections) = n
  BY <1>1, <1>2, TableIsSeq
<1> QED BY <1>1, <1>2, <1>3

\* The items of section k are a sequence of what its format says.
LEMMA SectionShape ==
    ASSUME NEW f \in Files, NEW k \in 1..Len(f.sections)
    PROVE  /\ f.sections[k] \in Sections /\ Format(f, k) \in Nat
           /\ Len(Items(f, k)) \in Nat /\ DOMAIN Items(f, k) = 1..Len(Items(f, k))
           /\ Items(f, k) # <<>> <=> Len(Items(f, k)) > 0
           /\ Format(f, k) \in Indexed => Items(f, k) \in Seq(Nat)
           /\ Format(f, k) \in 2..5 => Items(f, k) \in Seq(Colours)
           /\ Format(f, k) > 5 /\ Format(f, k) # NotIlda =>
                 Items(f, k) \in {<<"exact">>, <<"beyond">>, <<"short">>}
<1>1. f.sections[k] \in Sections
  BY FileShape
<1>2. /\ Format(f, k) \in Nat /\ Items(f, k) \in Seq(Range(Items(f, k)))
      /\ Format(f, k) \in Indexed => Items(f, k) \in Seq(Nat)
      /\ Format(f, k) > 5 /\ Format(f, k) # NotIlda =>
            Items(f, k) \in {<<"exact">>, <<"beyond">>, <<"short">>}
  BY <1>1, ImportAssumption DEF Format, Items
<1>3. /\ Len(Items(f, k)) \in Nat /\ DOMAIN Items(f, k) = 1..Len(Items(f, k))
      /\ Items(f, k) # <<>> <=> Len(Items(f, k)) > 0
  BY <1>2, LenProperties, EmptySeq
<1>4. ASSUME Format(f, k) \in 2..5 PROVE Items(f, k) \in Seq(Colours)
  <2>1. Range(Items(f, k)) \subseteq Colours
    BY <1>1, <1>4 DEF Colours, FileColours, Format, Items
  <2>2. \A i \in 1..Len(Items(f, k)) : Items(f, k)[i] \in Colours
    BY <2>1, <1>3 DEF Range
  <2>3. Items(f, k) \in [1..Len(Items(f, k)) -> Range(Items(f, k))]
    BY <1>2, <1>3
  <2>4. Items(f, k) \in [1..Len(Items(f, k)) -> Colours]
    BY <2>2, <2>3
  <2> QED BY <2>4, <1>3, TableIsSeq
<1> QED BY <1>1, <1>2, <1>3, <1>4

\* Colours that do not come from the file.
LEMMA OtherColours == Black \in Colours /\ Garbage \in Colours /\ Range(Default) \subseteq Colours
BY DEF Colours

\* The latest of some sections and a later one is that one.
LEMMA LatestAdded ==
    ASSUME NEW S \in SUBSET Nat, NEW k \in Nat, \A j \in S : j < k
    PROVE  Latest(S \cup {k}) = k
<1>1. k \in S \cup {k} /\ \A i \in S \cup {k} : i <= k
  OBVIOUS
<1>2. \A j \in S \cup {k} : (\A i \in S \cup {k} : i <= j) => j = k
  OBVIOUS
<1> QED BY <1>1, <1>2 DEF Latest

\* Sections that give no frame are read.
LEMMA ReadNoFrame ==
    ASSUME NEW f \in Files, NEW frames, NEW p \in Nat, NEW q \in Nat, p <= q,
           Means(f, frames, {k \in FramesOf(f) : k <= p}),
           \A k \in FramesOf(f) : k <= p \/ k > q
    PROVE  Means(f, frames, {k \in FramesOf(f) : k <= q})
<1>1. FramesOf(f) \subseteq Nat
  BY FileShape DEF FramesOf
<1>2. {k \in FramesOf(f) : k <= p} = {k \in FramesOf(f) : k <= q}
  BY <1>1
<1> QED BY <1>2

\* A frame is read and added to those before it.
LEMMA ReadFrame ==
    ASSUME NEW f \in Files, NEW S, NEW frames \in Seq(S), NEW fr \in S, NEW p \in Nat,
           Means(f, frames, {k \in FramesOf(f) : k <= p}),
           p + 1 \in FramesOf(f), fr = Picture(f, p + 1)
    PROVE  Means(f, Append(frames, fr), {k \in FramesOf(f) : k <= p + 1})
<1> DEFINE K == {k \in FramesOf(f) : k <= p}
           L == {k \in FramesOf(f) : k <= p + 1}
           N == Len(frames)
           more == Append(frames, fr)
<1>1. PICK at \in [DOMAIN frames -> K] :
         /\ \A m, n \in DOMAIN frames : m < n => at[m] < at[n]
         /\ \A k \in K : \E n \in DOMAIN frames : at[n] = k
         /\ \A n \in DOMAIN frames : frames[n] = Picture(f, at[n])
  BY DEF Means
<1>2. FramesOf(f) \subseteq Nat
  BY FileShape DEF FramesOf
<1>3. N \in Nat /\ DOMAIN frames = 1..N /\ DOMAIN more = 1..(N + 1)
  BY AppendProperties, LenProperties
<1>4. more[N + 1] = fr /\ \A n \in 1..N : more[n] = frames[n]
  BY AppendProperties
<1>5. L = K \cup {p + 1}
  BY <1>2
<1> DEFINE to == [n \in 1..(N + 1) |-> IF n = N + 1 THEN p + 1 ELSE at[n]]
<1>6. to \in [DOMAIN more -> L]
  BY <1>1, <1>3, <1>5
<1>7. /\ to[N + 1] = p + 1
      /\ \A n \in 1..N : to[n] = at[n] /\ at[n] \in K
  BY <1>1, <1>3
<1> HIDE DEF to, more
<1>8. \A m, n \in DOMAIN more : m < n => to[m] < to[n]
  <2> SUFFICES ASSUME NEW m \in 1..(N + 1), NEW n \in 1..(N + 1), m < n
               PROVE  to[m] < to[n]
    BY <1>3
  <2>1. m \in 1..N /\ to[m] \in K
    BY <1>3, <1>7
  <2>2. CASE n = N + 1
    BY <2>1, <2>2, <1>2, <1>7
  <2>3. CASE n # N + 1
    <3>1. n \in 1..N /\ to[n] = at[n] /\ to[m] = at[m]
      BY <2>1, <2>3, <1>3, <1>7
    <3> QED BY <2>1, <3>1, <1>1, <1>3
  <2> QED BY <2>2, <2>3
<1>9. \A k \in L : \E n \in DOMAIN more : to[n] = k
  <2> SUFFICES ASSUME NEW k \in L PROVE \E n \in 1..(N + 1) : to[n] = k
    BY <1>3
  <2>1. CASE k = p + 1
    BY <2>1, <1>3, <1>7
  <2>2. CASE k \in K
    <3>1. PICK n \in 1..N : at[n] = k
      BY <2>2, <1>1, <1>3
    <3> QED BY <3>1, <1>3, <1>7
  <2> QED BY <2>1, <2>2, <1>5
<1>10. \A n \in DOMAIN more : more[n] = Picture(f, to[n])
  <2> SUFFICES ASSUME NEW n \in 1..(N + 1) PROVE more[n] = Picture(f, to[n])
    BY <1>3
  <2>1. CASE n = N + 1
    BY <2>1, <1>4, <1>7
  <2>2. CASE n \in 1..N
    BY <2>2, <1>1, <1>3, <1>4, <1>7
  <2> QED BY <2>1, <2>2, <1>3
<1> QED BY <1>6, <1>8, <1>9, <1>10 DEF Means, more

\* The palette in force behind section k.
LEMMA PaletteBehind ==
    ASSUME NEW f \in Files, NEW k \in 1..Len(f.sections)
    PROVE  /\ Format(f, k) = 2 => PaletteFor(f, k + 1) = Items(f, k)
           /\ Format(f, k) # 2 => PaletteFor(f, k + 1) = PaletteFor(f, k)
<1>1. k \in Nat /\ (k + 1) - 1 = k /\ 1..k = 1..(k - 1) \cup {k}
  BY FileShape
<1>2. ASSUME Format(f, k) = 2 PROVE PaletteFor(f, k + 1) = Items(f, k)
  <2>1. Palettes(f, k + 1) = Palettes(f, k) \cup {k}
    BY <1>1, <1>2 DEF Palettes
  <2>2. Palettes(f, k) \subseteq Nat /\ \A j \in Palettes(f, k) : j < k
    BY <1>1 DEF Palettes
  <2>3. Latest(Palettes(f, k + 1)) = k
    BY <2>1, <2>2, <1>1, LatestAdded
  <2> QED BY <2>1, <2>3 DEF PaletteFor
<1>3. ASSUME Format(f, k) # 2 PROVE PaletteFor(f, k + 1) = PaletteFor(f, k)
  <2>1. Palettes(f, k + 1) = Palettes(f, k)
    BY <1>1, <1>3 DEF Palettes
  <2> QED BY <2>1 DEF PaletteFor
<1> QED BY <1>2, <1>3

\* Section k is a true colour table that can be used.
UsableTable(f, k) == Format(f, k) = 3 /\ HasItems(f, k) /\ Items(f, k) # TooMany

\* The true colour tables in force behind section k.
LEMMA TrueTablesBehind ==
    ASSUME NEW f \in Files, NEW k \in 1..Len(f.sections)
    PROVE  /\ Format(f, k) \in Indexed => TrueTables(f, k + 1) = {}
           /\ UsableTable(f, k) => /\ TrueTables(f, k + 1) # {}
                                   /\ Latest(TrueTables(f, k + 1)) = k
           /\ Format(f, k) \notin Indexed /\ ~UsableTable(f, k) =>
                 TrueTables(f, k + 1) = TrueTables(f, k)
<1>1. k \in Nat /\ (k + 1) - 1 = k /\ 1..k = 1..(k - 1) \cup {k}
  BY FileShape
<1>2. \A j \in 1..(k - 1) : j..k = j..(k - 1) \cup {k} /\ j < k
  BY <1>1
<1>3. ASSUME Format(f, k) \in Indexed PROVE TrueTables(f, k + 1) = {}
  <2>1. \A j \in 1..k : k \in j..k
    BY <1>1
  <2> QED BY <2>1, <1>1, <1>3 DEF TrueTables
<1>4. ASSUME Format(f, k) \notin Indexed
      PROVE  TrueTables(f, k + 1) = IF UsableTable(f, k) THEN TrueTables(f, k) \cup {k}
                                    ELSE TrueTables(f, k)
  <2>1. \A j \in 1..(k - 1) : j \in TrueTables(f, k + 1) <=> j \in TrueTables(f, k)
    BY <1>1, <1>2, <1>4 DEF TrueTables
  <2>2. k \in TrueTables(f, k + 1) <=> UsableTable(f, k)
    BY <1>1, <1>4 DEF TrueTables, UsableTable
  <2>3. TrueTables(f, k + 1) \subseteq 1..k /\ TrueTables(f, k) \subseteq 1..(k - 1)
    BY <1>1 DEF TrueTables
  <2>4. CASE UsableTable(f, k)
    BY <2>1, <2>2, <2>3, <2>4, <1>1
  <2>5. CASE ~UsableTable(f, k)
    <3>1. TrueTables(f, k + 1) \subseteq 1..(k - 1)
      BY <2>2, <2>3, <2>5, <1>1
    <3>2. TrueTables(f, k + 1) = TrueTables(f, k)
      BY <3>1, <2>1, <2>3
    <3> QED BY <3>2, <2>5
  <2> QED BY <2>4, <2>5
<1>5. ASSUME UsableTable(f, k)
      PROVE  TrueTables(f, k + 1) # {} /\ Latest(TrueTables(f, k + 1)) = k
  <2>1. TrueTables(f, k + 1) = TrueTables(f, k) \cup {k}
    BY <1>4, <1>5 DEF UsableTable, Indexed
  <2>2. TrueTables(f, k) \subseteq Nat /\ \A j \in TrueTables(f, k) : j < k
    BY <1>1, <1>2 DEF TrueTables
  <2> QED BY <2>1, <2>2, <1>1, LatestAdded
<1> QED BY <1>3, <1>4, <1>5
-----------------------------------------------------------------------------
(***************************************************************************)
(* Reading a section.                                                      *)
(***************************************************************************)
\* The section that comes next, in the words of what the file means.
LEMMA AtSection ==
    ASSUME ImportTypeOK, pos < Len(file.sections)
    PROVE  /\ pos \in Nat /\ pos + 1 \in 1..Len(file.sections)
           /\ Section.format = Format(file, pos + 1) /\ Section.items = Items(file, pos + 1)
           /\ \A at : Cut(at) <=> CutIn(file, pos + 1, at)
           /\ Count = IF CutIn(file, pos + 1, "header") THEN 0 ELSE Len(Items(file, pos + 1))
<1>1. pos \in Nat /\ Len(file.sections) \in Nat
  BY FileShape DEF ImportTypeOK
<1> QED BY <1>1 DEF Section, Format, Items, Cut, CutIn, Count

\* A frame comes behind those that were collected.
LEMMA FrameAdded ==
    ASSUME ImportTypeOK, PlacesGiven, NEW fr \in Seq(Colours), fr # <<>>, Frame(fr)
    PROVE  /\ Collected \in Seq(Seq(Colours)) /\ Collected' = Append(Collected, fr)
           /\ frame' \in Seq(Colours) /\ sequence' \in Seq(Seq(Colours))
           /\ sequence' = <<>> \/ Len(sequence') >= 2
<1> USE DEF NoFrame
<1>1. frame \in Seq(Colours) /\ sequence \in Seq(Seq(Colours))
  BY DEF ImportTypeOK
<1>2. frame' \in Seq(Colours) /\ Collected \in Seq(Seq(Colours))
  BY <1>1 DEF Frame, Collected
<1>3. CASE sequence # <<>>
  <2>1. sequence' = Append(sequence, fr) /\ Len(sequence) >= 2
    BY <1>3 DEF Frame, PlacesGiven
  <2>2. sequence' \in Seq(Seq(Colours)) /\ Len(sequence') = Len(sequence) + 1
    BY <2>1, <1>1, AppendProperties
  <2>3. sequence' # <<>> /\ Len(sequence') >= 2
    <3>1. Len(sequence) \in Nat /\ Len(<<>>) = 0
      BY <1>1, LenProperties
    <3>2. Len(sequence') >= 2 /\ Len(sequence') # 0
      BY <2>1, <2>2, <3>1
    <3> QED BY <3>1, <3>2
  <2> QED BY <1>1, <1>2, <1>3, <2>1, <2>2, <2>3 DEF Collected
<1>4. CASE sequence = <<>> /\ frame # <<>>
  <2>1. sequence' = <<frame, fr>>
    BY <1>4 DEF Frame
  <2>2. /\ <<frame, fr>> \in Seq(Seq(Colours)) /\ Len(<<frame, fr>>) = 2
        /\ <<frame, fr>> = Append(<<frame>>, fr) /\ <<frame, fr>> # <<>>
    BY <1>1
  <2> QED BY <1>2, <1>4, <2>1, <2>2 DEF Collected
<1>5. CASE sequence = <<>> /\ frame = <<>>
  <2>1. sequence' = <<>> /\ frame' = fr
    BY <1>5 DEF Frame
  <2>2. <<fr>> = Append(<<>>, fr)
    OBVIOUS
  <2> QED BY <1>2, <1>5, <2>1, <2>2 DEF Collected
<1> QED BY <1>3, <1>4, <1>5

\* A section that gives no frame is read.
LEMMA Skipped ==
    ASSUME ImportIInv, pc = "reading", ~eof, pos < Len(file.sections),
           UNCHANGED <<pending, file, pc, frame, sequence, idx, added>>,
           palette_' \in Seq(Colours), colour' \in Seq(Colours), trueColour' \in BOOLEAN,
           eof' \in BOOLEAN, error' \in {0, 1, 2}, pos' \in (pos + 1)..Len(file.sections),
           (pos' = pos + 1 /\ pos + 1 \notin FramesOf(file)) \/ EndsFile(file, pos + 1),
           eof' => EndsFile(file, pos + 1),
           ~eof' /\ pos' < Len(file.sections) => ~EndsFile(file, pos + 1) /\ TablesInForce'
    PROVE  ImportIInv'
<1>1. /\ pos \in Nat /\ Len(file.sections) \in Nat /\ pos + 1 \in 1..Len(file.sections)
      /\ file \in Files /\ pos' \in Nat
  BY FileShape DEF ImportIInv, ImportTypeOK
<1>2. ImportTypeOK'
  BY <1>1 DEF ImportIInv, ImportTypeOK
<1>3. ReadSoFar'
  <2>1. eof' => EndedBy(pos')
    BY <1>1 DEF EndedBy
  <2>2. \A k \in FramesOf(file) : k <= pos \/ k > pos'
    <3> SUFFICES ASSUME NEW k \in FramesOf(file), k > pos, k <= pos' PROVE FALSE
      BY FileShape, <1>1 DEF FramesOf
    <3>1. k \in Nat /\ pos + 1 \in 1..k
      BY FileShape, <1>1 DEF FramesOf
    <3>2. ~EndsFile(file, pos + 1)
      BY <3>1 DEF FramesOf
    <3> QED BY <3>1, <3>2, <1>1
  <2>3. Means(file, Collected, {k \in FramesOf(file) : k <= pos})
    BY DEF ImportIInv, ReadSoFar, FramesUpTo
  <2>4. Means(file, Collected, {k \in FramesOf(file) : k <= pos'})
    BY <1>1, <2>2, <2>3, ReadNoFrame
  <2>5. Collected' = Collected
    BY DEF Collected
  <2>6. ASSUME ~eof', pos' < Len(file.sections) PROVE ~EndedBy(pos') /\ TablesInForce'
    <3>1. ~EndedBy(pos) /\ ~EndsFile(file, pos + 1) /\ pos' = pos + 1
      BY <2>6 DEF ImportIInv, ReadSoFar
    <3> QED BY <3>1, <2>6, <1>1 DEF EndedBy
  <2> QED BY <2>1, <2>4, <2>5, <2>6 DEF ReadSoFar, FramesUpTo, EndedBy
<1>4. PlacesGiven'
  BY DEF ImportIInv, PlacesGiven, OneGoesToTheCell
<1> QED BY <1>2, <1>3, <1>4 DEF ImportIInv

\* A frame is read, as the file means it.
LEMMA FrameRead ==
    ASSUME ImportIInv, pc = "reading", ~eof, pos < Len(file.sections),
           UNCHANGED <<pending, file, pc, eof, error, idx, added>>,
           palette_' \in Seq(Colours), colour' \in Seq(Colours), trueColour' \in BOOLEAN,
           pos' = pos + 1, pos + 1 \in FramesOf(file),
           NEW fr \in Seq(Colours), fr # <<>>, Frame(fr), fr = Picture(file, pos + 1),
           pos' < Len(file.sections) => TablesInForce'
    PROVE  ImportIInv'
<1>1. /\ pos \in Nat /\ Len(file.sections) \in Nat /\ pos + 1 \in 1..Len(file.sections)
      /\ file \in Files
  BY FileShape DEF ImportIInv, ImportTypeOK
<1>2. /\ Collected \in Seq(Seq(Colours)) /\ Collected' = Append(Collected, fr)
      /\ frame' \in Seq(Colours) /\ sequence' \in Seq(Seq(Colours))
      /\ sequence' = <<>> \/ Len(sequence') >= 2
  BY FrameAdded DEF ImportIInv
<1>3. ImportTypeOK'
  BY <1>1, <1>2 DEF ImportIInv, ImportTypeOK
<1>4. ReadSoFar'
  <2>1. Means(file, Collected, {k \in FramesOf(file) : k <= pos})
    BY DEF ImportIInv, ReadSoFar, FramesUpTo
  <2>2. Means(file, Append(Collected, fr), {k \in FramesOf(file) : k <= pos + 1})
    BY <1>1, <1>2, <2>1, ReadFrame
  <2>3. ASSUME pos' < Len(file.sections) PROVE ~EndedBy(pos') /\ TablesInForce'
    <3>1. pos + 1 \in 1..(pos + 1) /\ ~EndedBy(pos)
      BY <1>1 DEF ImportIInv, ReadSoFar
    <3>2. ~EndsFile(file, pos + 1)
      BY <3>1 DEF FramesOf
    <3> QED BY <3>1, <3>2, <2>3, <1>1 DEF EndedBy
  <2> QED BY <1>2, <2>2, <2>3 DEF ReadSoFar, FramesUpTo, EndedBy
<1>5. PlacesGiven'
  BY <1>2 DEF ImportIInv, PlacesGiven, OneGoesToTheCell
<1> QED BY <1>3, <1>4, <1>5 DEF ImportIInv

\* The items as the stream gives them.
LEMMA ItemsRead ==
    ASSUME ImportTypeOK, pos < Len(file.sections), ~Cut("header")
    PROVE  /\ Count = Len(Items(file, pos + 1)) /\ DOMAIN Items(file, pos + 1) = 1..Count
           /\ \A zero : \A i \in 1..Count : Item(i, zero) = ReadItem(file, pos + 1, i, zero)
           /\ Format(file, pos + 1) \in 2..5 => \A i \in 1..Count : Item(i, Black) \in Colours
           /\ Format(file, pos + 1) \in Indexed => \A i \in 1..Count : Item(i, 0) \in Nat
           /\ pos + 1 < Len(file.sections) =>
                 \A zero : [i \in 1..Count |-> Item(i, zero)] = Items(file, pos + 1)
<1> DEFINE k == pos + 1
<1>1. /\ pos \in Nat /\ k \in 1..Len(file.sections) /\ file \in Files
      /\ Section.format = Format(file, k) /\ Section.items = Items(file, k)
      /\ \A at : Cut(at) <=> CutIn(file, k, at)
      /\ Count = Len(Items(file, k))
  BY AtSection DEF ImportTypeOK
<1>2. /\ Count \in Nat /\ DOMAIN Items(file, k) = 1..Count
      /\ Format(file, k) \in 2..5 => Items(file, k) \in Seq(Colours)
      /\ Format(file, k) \in Indexed => Items(file, k) \in Seq(Nat)
  BY <1>1, SectionShape
<1>3. \A zero : \A i \in 1..Count : Item(i, zero) = ReadItem(file, k, i, zero)
  BY <1>1 DEF Item, ReadItem
<1>4. \A zero : \A i \in 1..Count : Item(i, zero) \in {zero, Items(file, k)[i]}
  BY <1>1 DEF Item
<1>5. ASSUME Format(file, k) \in 2..5, NEW i \in 1..Count PROVE Item(i, Black) \in Colours
  <2>1. Items(file, k) \in Seq(Colours) /\ i \in 1..Len(Items(file, k))
    BY <1>1, <1>2, <1>5
  <2>2. Items(file, k)[i] \in Colours
    BY <2>1
  <2> QED BY <2>2, <1>4, OtherColours
<1>6. ASSUME Format(file, k) \in Indexed, NEW i \in 1..Count PROVE Item(i, 0) \in Nat
  <2>1. Items(file, k) \in Seq(Nat) /\ i \in 1..Len(Items(file, k))
    BY <1>1, <1>2, <1>6
  <2>2. Items(file, k)[i] \in Nat
    BY <2>1
  <2> QED BY <2>2, <1>4
<1>7. ASSUME k < Len(file.sections), NEW zero
      PROVE  [i \in 1..Count |-> Item(i, zero)] = Items(file, k)
  <2>1. \A i \in 1..Count : Item(i, zero) = Items(file, k)[i]
    BY <1>1, <1>7 DEF Item, CutIn
  <2>2. Items(file, k) = [i \in 1..Count |-> Items(file, k)[i]]
    <3>1. file.sections[k] \in Sections
      BY <1>1, SectionShape
    <3>2. Items(file, k) \in Seq(Range(Items(file, k)))
      BY <3>1, ImportAssumption DEF Items
    <3> QED BY <3>2, <1>2
  <2> QED BY <2>1, <2>2
<1> QED BY <1>1, <1>2, <1>3, <1>5, <1>6, <1>7

\* Where load() stops reading.
LEMMA StopKept ==
    ASSUME ImportIInv, NotASection \/ NameTakenForIlda
    PROVE  ImportIInv'
<1>1. pc = "reading" /\ ~eof /\ pos < Len(file.sections)
  BY DEF NotASection, NameTakenForIlda, Reading
<1>2. /\ pos \in Nat /\ Len(file.sections) \in Nat /\ pos + 1 \in 1..Len(file.sections)
      /\ Section.format = Format(file, pos + 1) /\ \A at : Cut(at) <=> CutIn(file, pos + 1, at)
  BY <1>1, AtSection, FileShape DEF ImportIInv, ImportTypeOK
<1>3. EndsFile(file, pos + 1)
  BY <1>2 DEF NotASection, NameTakenForIlda, Reading, EndsFile
<1>4. eof' = TRUE /\ pos' \in (pos + 1)..Len(file.sections) /\ error' \in {error, 2}
  BY <1>2 DEF NotASection, NameTakenForIlda
<1>5. UNCHANGED <<pending, file, pc, palette_, colour, trueColour, frame, sequence, idx, added>>
  BY DEF NotASection, NameTakenForIlda, members
<1>6. /\ palette_' \in Seq(Colours) /\ colour' \in Seq(Colours) /\ trueColour' \in BOOLEAN
      /\ error' \in {0, 1, 2}
  BY <1>4, <1>5 DEF ImportIInv, ImportTypeOK
<1> QED BY <1>1, <1>3, <1>4, <1>5, <1>6, Skipped

\* A table is read into a palette, whole or cut off.
LEMMA TableRead ==
    ASSUME ImportTypeOK, pos < Len(file.sections), Format(file, pos + 1) \in 2..5
    PROVE  /\ Count \in Nat /\ [i \in 1..Count |-> Item(i, Black)] \in Seq(Colours)
           /\ Count # 0 => [i \in 1..Count |-> Item(i, Black)] # <<>>
<1>1. CASE Cut("header")
  <2>1. Count = 0
    BY <1>1 DEF Count
  <2> QED BY <2>1
<1>2. CASE ~Cut("header")
  <2>1. Count \in Nat
    <3>1. pos + 1 \in 1..Len(file.sections) /\ file \in Files
      BY AtSection DEF ImportTypeOK
    <3> QED BY <1>2, <3>1, ItemsRead, SectionShape
  <2>2. \A i \in 1..Count : Item(i, Black) \in Colours
    BY <1>2, ItemsRead
  <2>3. [i \in 1..Count |-> Item(i, Black)] \in [1..Count -> Colours]
    BY <2>2
  <2>4. /\ [i \in 1..Count |-> Item(i, Black)] \in Seq(Colours)
        /\ Len([i \in 1..Count |-> Item(i, Black)]) = Count
    BY <2>1, <2>3, TableIsSeq
  <2> QED BY <2>1, <2>4
<1> QED BY <1>1, <1>2

\* A palette is replaced.
LEMMA ReadColorTableKept ==
    ASSUME ImportIInv, readColorTable
    PROVE  ImportIInv'
<1>1. pc = "reading" /\ ~eof /\ pos < Len(file.sections) /\ ImportTypeOK
  BY DEF readColorTable, Whole, Reading, ImportIInv
<1>2. /\ pos \in Nat /\ Len(file.sections) \in Nat /\ pos + 1 \in 1..Len(file.sections)
      /\ file \in Files /\ Section.format = Format(file, pos + 1)
      /\ \A at : Cut(at) <=> CutIn(file, pos + 1, at)
  BY <1>1, AtSection, FileShape DEF ImportTypeOK
<1>3. Format(file, pos + 1) = 2 /\ ~CutIn(file, pos + 1, "name")
  BY <1>2 DEF readColorTable, Whole, Reading
<1>4. ~EndsFile(file, pos + 1) /\ pos + 1 \notin FramesOf(file)
  BY <1>3, ImportAssumption DEF EndsFile, FramesOf, Indexed, TrueFrame
<1>5. /\ palette_' = [i \in 1..Count |-> Item(i, Black)] /\ pos' = pos + 1
      /\ UNCHANGED <<pending, file, pc, colour, trueColour, frame, sequence, eof, error, idx, added>>
  BY DEF readColorTable
<1>6. palette_' \in Seq(Colours)
  BY <1>1, <1>3, <1>5, TableRead
<1>7. ASSUME pos' < Len(file.sections) PROVE TablesInForce'
  <2>1. ~Cut("header")
    BY <1>2, <1>5, <1>7 DEF CutIn
  <2>2. palette_' = PaletteFor(file, pos + 2)
    <3>1. palette_' = Items(file, pos + 1)
      BY <2>1, <1>1, <1>5, <1>7, ItemsRead
    <3>2. (pos + 1) + 1 = pos + 2
      BY <1>2
    <3> QED BY <3>1, <3>2, <1>2, <1>3, PaletteBehind
  <2>3. TrueTables(file, (pos + 1) + 1) = TrueTables(file, pos + 1)
    BY <1>2, <1>3, TrueTablesBehind DEF UsableTable, Indexed
  <2>4. TablesInForce
    BY <1>1 DEF ImportIInv, ReadSoFar
  <2> QED BY <2>2, <2>3, <2>4, <1>2, <1>5 DEF TablesInForce
<1>8. /\ pos' \in (pos + 1)..Len(file.sections) /\ colour' \in Seq(Colours)
      /\ trueColour' \in BOOLEAN /\ eof' \in BOOLEAN /\ error' \in {0, 1, 2}
  BY <1>1, <1>2, <1>5 DEF ImportTypeOK
<1> QED BY <1>1, <1>4, <1>5, <1>6, <1>7, <1>8, Skipped

\* A true colour table is read, refused, or ends the data.
LEMMA ReadTrueColorSectionKept ==
    ASSUME ImportIInv, readTrueColorSection
    PROVE  ImportIInv'
<1>1. pc = "reading" /\ ~eof /\ pos < Len(file.sections) /\ ImportTypeOK
  BY DEF readTrueColorSection, Whole, Reading, ImportIInv
<1> DEFINE k == pos + 1
<1>2. /\ pos \in Nat /\ Len(file.sections) \in Nat /\ k \in 1..Len(file.sections)
      /\ file \in Files /\ Section.format = Format(file, k) /\ Section.items = Items(file, k)
      /\ \A at : Cut(at) <=> CutIn(file, k, at)
      /\ Count = IF CutIn(file, k, "header") THEN 0 ELSE Len(Items(file, k))
  BY <1>1, AtSection, FileShape DEF ImportTypeOK
<1>3. Format(file, k) = 3 /\ ~CutIn(file, k, "name")
  BY <1>2 DEF readTrueColorSection, Whole, Reading
<1>4. Items(file, k) # <<>> <=> Len(Items(file, k)) > 0
  BY <1>2, SectionShape
<1>5. k \notin FramesOf(file) /\ (EndsFile(file, k) <=> ~HasItems(file, k))
  BY <1>3, ImportAssumption DEF EndsFile, FramesOf, Indexed, TrueFrame
<1>6. HasItems(file, k) <=> Count # 0
  <2>1. Len(Items(file, k)) \in Nat
    BY <1>2, SectionShape
  <2> QED BY <2>1, <1>2, <1>4 DEF HasItems
<1>7. /\ palette_' = palette_ /\ pos' = k
      /\ UNCHANGED <<pending, file, pc, frame, sequence, error, idx, added>>
  BY DEF readTrueColorSection, members
<1>8. \/ /\ Items(file, k) = TooMany /\ ~Cut("header") /\ UNCHANGED <<members, eof>>
      \/ /\ ~(Items(file, k) = TooMany /\ ~Cut("header"))
         /\ Count = 0 /\ eof' = TRUE /\ UNCHANGED members
      \/ /\ ~(Items(file, k) = TooMany /\ ~Cut("header")) /\ Count # 0
         /\ colour' = [i \in 1..Count |-> Item(i, Black)] /\ trueColour' = TRUE
         /\ UNCHANGED eof
  BY <1>2 DEF readTrueColorSection
<1>9. /\ palette_' \in Seq(Colours) /\ colour' \in Seq(Colours) /\ trueColour' \in BOOLEAN
      /\ eof' \in BOOLEAN /\ error' \in {0, 1, 2} /\ pos' \in (pos + 1)..Len(file.sections)
  <2>1. [i \in 1..Count |-> Item(i, Black)] \in Seq(Colours)
    BY <1>1, <1>3, TableRead
  <2> HIDE DEF k
  <2>2. colour' \in Seq(Colours) /\ trueColour' \in BOOLEAN /\ eof' \in BOOLEAN
    BY <2>1, <1>1, <1>8 DEF ImportTypeOK, members
  <2> QED BY <2>2, <1>1, <1>2, <1>7 DEF ImportTypeOK, k
<1>10. eof' => EndsFile(file, k)
  BY <1>1, <1>5, <1>6, <1>8
<1>11. ASSUME ~eof', pos' < Len(file.sections) PROVE ~EndsFile(file, k) /\ TablesInForce'
  <2>1. TablesInForce
    BY <1>1 DEF ImportIInv, ReadSoFar
  <2>2. PaletteFor(file, k + 1) = PaletteFor(file, k)
    BY <1>2, <1>3, PaletteBehind
  <2>3. ~Cut("header") /\ ~CutIn(file, k, "header")
    BY <1>2, <1>7, <1>11 DEF CutIn
  <2>4. Count # 0
    BY <1>2, <1>4, <1>8, <1>11, <2>3, ImportAssumption
  <2>5. CASE Items(file, k) = TooMany
    <3>1. TrueTables(file, k + 1) = TrueTables(file, k)
      BY <2>5, <1>2, <1>3, TrueTablesBehind DEF UsableTable, Indexed
    <3>2. UNCHANGED <<colour, trueColour>>
      BY <2>3, <2>5, <1>8 DEF members
    <3> QED BY <2>1, <2>2, <2>4, <3>1, <3>2, <1>5, <1>6, <1>7 DEF TablesInForce
  <2>6. CASE Items(file, k) # TooMany
    <3>1. TrueTables(file, k + 1) # {} /\ Latest(TrueTables(file, k + 1)) = k
      BY <2>4, <2>6, <1>2, <1>3, <1>6, TrueTablesBehind DEF UsableTable
    <3>2. colour' = [i \in 1..Count |-> Item(i, Black)] /\ trueColour' = TRUE
      BY <2>4, <2>6, <1>8
    <3>3. colour' = Items(file, k)
      BY <3>2, <2>3, <1>1, <1>7, <1>11, ItemsRead
    <3> QED BY <2>1, <2>2, <2>4, <3>1, <3>2, <3>3, <1>5, <1>6, <1>7 DEF TablesInForce
  <2> QED BY <2>5, <2>6
<1> QED BY <1>1, <1>5, <1>7, <1>9, <1>10, <1>11, Skipped

\* The section is a frame with points.
LEMMA FrameSection ==
    ASSUME ImportIInv, pc = "reading", ~eof, pos < Len(file.sections), Count # 0, ~Cut("name"),
           Format(file, pos + 1) \in Indexed \cup TrueFrame
    PROVE  pos + 1 \in FramesOf(file) /\ ~Cut("header")
<1> DEFINE k == pos + 1
<1>1. /\ pos \in Nat /\ k \in 1..Len(file.sections) /\ file \in Files
      /\ \A at : Cut(at) <=> CutIn(file, k, at)
      /\ Count = IF CutIn(file, k, "header") THEN 0 ELSE Len(Items(file, k))
  BY AtSection DEF ImportIInv, ImportTypeOK
<1>2. Len(Items(file, k)) > 0 <=> Items(file, k) # <<>>
  BY <1>1, SectionShape
<1>3. Len(Items(file, k)) \in Nat
  BY <1>1, SectionShape
<1>4. HasItems(file, k) /\ ~Cut("header")
  BY <1>1, <1>2, <1>3 DEF HasItems
<1>5. ~EndsFile(file, k)
  BY <1>1, <1>4, ImportAssumption DEF EndsFile, Indexed, TrueFrame
<1>6. \A j \in 1..k : ~EndsFile(file, j)
  <2>1. ~EndedBy(pos)
    BY DEF ImportIInv, ReadSoFar
  <2> QED BY <2>1, <1>1, <1>5 DEF EndedBy
<1> QED BY <1>1, <1>4, <1>6, FileShape DEF FramesOf

\* A frame without points, or one that is cut off in its header, is the end.
LEMMA NoPoints ==
    ASSUME ImportIInv, pos < Len(file.sections), Count = 0,
           Format(file, pos + 1) \in Indexed \cup TrueFrame
    PROVE  EndsFile(file, pos + 1)
<1> DEFINE k == pos + 1
<1>1. /\ pos \in Nat /\ k \in 1..Len(file.sections) /\ file \in Files
      /\ Count = IF CutIn(file, k, "header") THEN 0 ELSE Len(Items(file, k))
  BY AtSection DEF ImportIInv, ImportTypeOK
<1>2. Len(Items(file, k)) > 0 <=> Items(file, k) # <<>>
  BY <1>1, SectionShape
<1> QED BY <1>1, <1>2 DEF EndsFile, HasItems

\* A true colour frame.
LEMMA ReadFormat5Kept ==
    ASSUME ImportIInv, readFormat5
    PROVE  ImportIInv'
<1> DEFINE k == pos + 1
           fr == [i \in 1..Count |-> Item(i, Black)]
<1>1. pc = "reading" /\ ~eof /\ pos < Len(file.sections) /\ ImportTypeOK /\ ~Cut("name")
  BY DEF readFormat5, Whole, Reading, ImportIInv
<1>2. /\ pos \in Nat /\ Len(file.sections) \in Nat /\ k \in 1..Len(file.sections)
      /\ file \in Files /\ Format(file, k) \in TrueFrame
  BY <1>1, AtSection, FileShape DEF ImportTypeOK, readFormat5, Whole, Reading
<1>3. /\ pos' = k /\ UNCHANGED <<pending, file, pc, palette_, colour, trueColour, error, idx, added>>
  BY DEF readFormat5, members
<1>4. /\ palette_' \in Seq(Colours) /\ colour' \in Seq(Colours) /\ trueColour' \in BOOLEAN
      /\ error' \in {0, 1, 2} /\ pos' \in (pos + 1)..Len(file.sections)
  BY <1>1, <1>2, <1>3 DEF ImportTypeOK
<1>5. CASE Count = 0
  <2>1. eof' = TRUE /\ UNCHANGED <<frame, sequence>>
    BY <1>5 DEF readFormat5
  <2>2. EndsFile(file, k)
    BY <1>1, <1>2, <1>5, NoPoints
  <2> QED BY <1>1, <1>3, <1>4, <2>1, <2>2, Skipped
<1>6. CASE Count # 0
  <2>1. Frame(fr) /\ UNCHANGED eof
    BY <1>6 DEF readFormat5
  <2>2. k \in FramesOf(file) /\ ~Cut("header")
    BY <1>1, <1>2, <1>6, FrameSection
  <2>3. fr \in Seq(Colours) /\ fr # <<>>
    BY <1>1, <1>2, <1>6, TableRead DEF TrueFrame
  <2>4. fr = Picture(file, k)
    <3>1. \A i \in 1..Count : ColourOf(file, k, i) = ReadItem(file, k, i, Black)
      BY <1>2 DEF ColourOf
    <3>2. DOMAIN Items(file, k) = 1..Count
      BY <1>1, <2>2, ItemsRead
    <3>3. \A i \in 1..Count : Item(i, Black) = ReadItem(file, k, i, Black)
      BY <1>1, <2>2, ItemsRead
    <3> QED BY <3>1, <3>2, <3>3 DEF Picture
  <2>5. ASSUME pos' < Len(file.sections) PROVE TablesInForce'
    <3>1. TablesInForce
      BY <1>1 DEF ImportIInv, ReadSoFar
    <3>2. Format(file, k) \notin Indexed /\ Format(file, k) \notin {2, 3}
      BY <1>2 DEF TrueFrame, Indexed
    <3>3. PaletteFor(file, k + 1) = PaletteFor(file, k)
      BY <1>2, <3>2, PaletteBehind
    <3>4. TrueTables(file, k + 1) = TrueTables(file, k)
      BY <1>2, <3>2, TrueTablesBehind DEF UsableTable
    <3> QED BY <3>1, <3>3, <3>4, <1>3 DEF TablesInForce
  <2> HIDE DEF fr
  <2> QED BY <1>1, <1>3, <1>4, <2>1, <2>2, <2>3, <2>4, <2>5, FrameRead
<1> QED BY <1>5, <1>6

\* v[i] of a vector of colours is a colour, garbage included.
LEMMA GetColour ==
    ASSUME NEW v \in Seq(Colours), NEW i
    PROVE  Get(v, i) \in Colours
BY OtherColours DEF Get

\* An indexed frame.
LEMMA ReadFrameSectionKept ==
    ASSUME ImportIInv, readFrameSection
    PROVE  ImportIInv'
<1> DEFINE k == pos + 1
           fr == [i \in 1..Count |-> IF trueColour THEN Get(colour, i)
                                     ELSE Get(palette_, Item(i, 0) + 1)]
<1>1. pc = "reading" /\ ~eof /\ pos < Len(file.sections) /\ ImportTypeOK /\ ~Cut("name")
  BY DEF readFrameSection, Whole, Reading, ImportIInv
<1>2. /\ pos \in Nat /\ Len(file.sections) \in Nat /\ k \in 1..Len(file.sections)
      /\ file \in Files /\ Format(file, k) \in Indexed
  BY <1>1, AtSection, FileShape DEF ImportTypeOK, readFrameSection, Whole, Reading
<1>3. /\ pos' = k /\ UNCHANGED <<pending, file, pc, error, idx, added>>
  BY DEF readFrameSection
<1>4. error' \in {0, 1, 2} /\ pos' \in (pos + 1)..Len(file.sections)
  BY <1>1, <1>2, <1>3 DEF ImportTypeOK
<1>5. CASE Count = 0
  <2>1. eof' = TRUE /\ UNCHANGED <<frame, sequence, palette_, colour, trueColour>>
    BY <1>5 DEF readFrameSection, members
  <2>2. EndsFile(file, k)
    BY <1>1, <1>2, <1>5, NoPoints
  <2>3. palette_' \in Seq(Colours) /\ colour' \in Seq(Colours) /\ trueColour' \in BOOLEAN
    BY <1>1, <2>1 DEF ImportTypeOK
  <2> QED BY <1>1, <1>3, <1>4, <2>1, <2>2, <2>3, Skipped
<1>6. CASE Count # 0
  <2>1. Frame(fr) /\ colour' = <<>> /\ trueColour' = FALSE /\ UNCHANGED <<palette_, eof>>
    BY <1>6 DEF readFrameSection
  <2>2. k \in FramesOf(file) /\ ~Cut("header")
    BY <1>1, <1>2, <1>6, FrameSection
  <2>3. /\ Count = Len(Items(file, k)) /\ Count \in Nat /\ DOMAIN Items(file, k) = 1..Count
        /\ \A i \in 1..Count : Item(i, 0) = ReadItem(file, k, i, 0)
    BY <1>1, <1>2, <2>2, ItemsRead, SectionShape
  <2>4. fr \in Seq(Colours) /\ fr # <<>>
    <3>1. fr \in [1..Count -> Colours]
      BY <1>1, GetColour DEF ImportTypeOK
    <3>2. fr \in Seq(Colours) /\ Len(fr) = Count
      BY <2>3, <3>1, TableIsSeq
    <3> HIDE DEF fr
    <3> QED BY <3>2, <1>6
  <2>5. TablesInForce
    BY <1>1 DEF ImportIInv, ReadSoFar
  <2>6. fr = Picture(file, k)
    <3>1. \A i \in 1..Count : ColourOf(file, k, i) =
             IF trueColour THEN Get(colour, i) ELSE Get(palette_, Item(i, 0) + 1)
      BY <1>2, <2>3, <2>5 DEF ColourOf, TablesInForce, Indexed, TrueFrame
    <3> QED BY <3>1, <2>3 DEF Picture
  <2>7. ASSUME pos' < Len(file.sections) PROVE TablesInForce'
    <3>1. PaletteFor(file, k + 1) = PaletteFor(file, k)
      BY <1>2, PaletteBehind DEF Indexed
    <3>2. TrueTables(file, k + 1) = {}
      BY <1>2, TrueTablesBehind
    <3> QED BY <3>1, <3>2, <2>1, <2>5, <1>3 DEF TablesInForce
  <2>8. palette_' \in Seq(Colours) /\ colour' \in Seq(Colours)
    BY <1>1, <2>1 DEF ImportTypeOK
  <2>9. trueColour' \in BOOLEAN
    BY <2>1, Zenon
  <2> HIDE DEF fr
  <2> QED BY <1>1, <1>3, <1>4, <2>1, <2>2, <2>4, <2>6, <2>7, <2>8, <2>9, FrameRead
<1> QED BY <1>5, <1>6

\* A section of an unknown format is skipped, to wherever that leads.
LEMMA UnknownSectionKept ==
    ASSUME ImportIInv, UnknownSection
    PROVE  ImportIInv'
<1> DEFINE k == pos + 1
           skip == IF Cut("header") THEN "exact" ELSE Section.items[1]
<1>1. pc = "reading" /\ ~eof /\ pos < Len(file.sections) /\ ImportTypeOK /\ ~Cut("name")
  BY DEF UnknownSection, Whole, Reading, ImportIInv
<1>2. /\ pos \in Nat /\ Len(file.sections) \in Nat /\ k \in 1..Len(file.sections)
      /\ file \in Files /\ Section.format = Format(file, k) /\ Section.items = Items(file, k)
      /\ \A at : Cut(at) <=> CutIn(file, k, at)
  BY <1>1, AtSection, FileShape DEF ImportTypeOK
<1>3. Format(file, k) > 5 /\ Format(file, k) # NotIlda /\ Format(file, k) \in Nat
  <2>1. Format(file, k) \in Nat
    BY <1>2, SectionShape
  <2> QED BY <2>1, <1>2 DEF UnknownSection, Whole, Reading
<1>4. Items(file, k) \in {<<"exact">>, <<"beyond">>, <<"short">>}
  BY <1>2, <1>3, SectionShape
<1>5. /\ pos' = (IF skip = "beyond" THEN Len(file.sections) ELSE k)
      /\ eof' = (skip = "short")
      /\ error' = (IF skip = "short" THEN 2 ELSE error)
      /\ UNCHANGED <<pending, file, pc, palette_, colour, trueColour, frame, sequence, idx, added>>
  BY DEF UnknownSection, members
<1>6. skip \in {"exact", "beyond", "short"} /\ (skip # "exact" => Items(file, k) # <<"exact">>)
  BY <1>2, <1>4
<1>7. k \notin FramesOf(file) /\ (skip # "exact" => EndsFile(file, k))
  BY <1>3, <1>6 DEF FramesOf, Indexed, TrueFrame, EndsFile
<1> HIDE DEF skip
<1>8. eof' \in BOOLEAN
  BY <1>5, Zenon
<1>9. /\ palette_' \in Seq(Colours) /\ colour' \in Seq(Colours) /\ trueColour' \in BOOLEAN
      /\ error' \in {0, 1, 2} /\ pos' \in (pos + 1)..Len(file.sections)
  BY <1>1, <1>2, <1>5 DEF ImportTypeOK
<1>10. ASSUME ~eof', pos' < Len(file.sections) PROVE ~EndsFile(file, k) /\ TablesInForce'
  <2>1. skip = "exact" /\ pos' = k
    <3>1. skip # "short"
      BY <1>5, <1>10, Zenon
    <3>2. skip # "beyond"
      BY <1>2, <1>5, <1>10
    <3> QED BY <3>1, <3>2, <1>5, <1>6
  <2>2. Items(file, k) = <<"exact">> /\ ~CutIn(file, k, "name")
    BY <2>1, <1>1, <1>2, <1>4, <1>10 DEF skip, CutIn
  <2>3. ~EndsFile(file, k)
    BY <2>2, <1>3 DEF EndsFile, Indexed, TrueFrame
  <2>4. TablesInForce
    BY <1>1 DEF ImportIInv, ReadSoFar
  <2>5. PaletteFor(file, k + 1) = PaletteFor(file, k)
    BY <1>2, <1>3, PaletteBehind
  <2>6. TrueTables(file, k + 1) = TrueTables(file, k)
    BY <1>2, <1>3, TrueTablesBehind DEF UsableTable, Indexed
  <2> QED BY <2>1, <2>3, <2>4, <2>5, <2>6, <1>5 DEF TablesInForce
<1>11. /\ eof' => EndsFile(file, k)
       /\ (pos' = k /\ k \notin FramesOf(file)) \/ EndsFile(file, k)
  BY <1>5, <1>7
<1>12. UNCHANGED <<pending, file, pc, frame, sequence, idx, added>>
  BY <1>5
<1> HIDE DEF k
<1> QED BY <1>1, <1>8, <1>9, <1>10, <1>11, <1>12, Skipped DEF k
-----------------------------------------------------------------------------
(***************************************************************************)
(* One file after the other.                                               *)
(***************************************************************************)
\* The initial states satisfy the invariant.
LEMMA InitImportIInv == ImportInit => ImportIInv
<1> SUFFICES ASSUME ImportInit PROVE ImportIInv
  OBVIOUS
<1>1. NoFile \in Files
  <2>1. <<>> \in [1..0 -> Sections]
    OBVIOUS
  <2>2. 0 \in 0..MaxSections
    BY ImportAssumption
  <2> QED BY <2>1, <2>2 DEF NoFile, Files, Cuts
<1>2. pending \in Seq(Files) /\ file \in Files /\ file.sections = <<>>
  BY <1>1, ImportAssumption DEF ImportInit, NoFile
<1>3. trueColour \in BOOLEAN /\ eof \in BOOLEAN
  BY Zenon DEF ImportInit
<1>4. ImportTypeOK
  BY <1>2, <1>3 DEF ImportInit, ImportTypeOK, NoFrame
<1>5. ReadSoFar
  BY DEF ImportInit, ReadSoFar
<1>6. PlacesGiven
  BY DEF ImportInit, PlacesGiven, OneGoesToTheCell
<1> QED BY <1>4, <1>5, <1>6 DEF ImportIInv

\* Before any section of a file is read.
LEMMA LoadKept ==
    ASSUME ImportIInv, load
    PROVE  ImportIInv'
<1>1. pending \in Seq(Files) /\ pending # <<>>
  BY DEF load, ImportIInv, ImportTypeOK
<1>2. /\ file' = Head(pending) /\ pending' = Tail(pending) /\ pos' = 0 /\ pc' = "reading"
      /\ palette_' = Default /\ colour' = <<>> /\ trueColour' = FALSE /\ error' = 0
      /\ frame' = <<>> /\ sequence' = <<>> /\ eof' = FALSE /\ UNCHANGED <<idx, added>>
  BY DEF load, NoFrame
<1>3. file' \in Files /\ pending' \in Seq(Files)
  BY <1>1, <1>2, HeadTailProperties
<1>4. Default \in Seq(Colours)
  <2>1. Default \in Seq(Range(Default))
    BY ImportAssumption
  <2> QED BY <2>1, OtherColours
<1>5. trueColour' \in BOOLEAN /\ eof' \in BOOLEAN
  BY <1>2, Zenon
<1>6. ImportTypeOK'
  <2>1. Len(file'.sections) \in Nat
    BY <1>3, FileShape
  <2> QED BY <1>2, <1>3, <1>4, <1>5, <2>1 DEF ImportIInv, ImportTypeOK
<1>7. ReadSoFar'
  <2>1. \A f \in Files : {k \in FramesOf(f) : k <= 0} = {}
    BY FileShape DEF FramesOf
  <2>2. Collected' = <<>>
    BY <1>2 DEF Collected, NoFrame
  <2>3. \A f : Means(f, <<>>, {})
    <3>1. <<>> \in [DOMAIN <<>> -> {}]
      OBVIOUS
    <3>2. DOMAIN <<>> = {}
      OBVIOUS
    <3> QED BY <3>1, <3>2, Zenon DEF Means
  <2>4. Means(file, Collected, FramesUpTo(pos))'
    BY <1>2, <1>3, <2>1, <2>2, <2>3 DEF FramesUpTo
  <2>5. ~EndedBy(pos)'
    BY <1>2 DEF EndedBy
  <2>6. \A f : PaletteFor(f, 1) = Default /\ TrueTables(f, 1) = {}
    BY DEF PaletteFor, Palettes, TrueTables
  <2>7. TablesInForce'
    BY <1>2, <2>6 DEF TablesInForce
  <2> QED BY <1>2, <2>4, <2>5, <2>7 DEF ReadSoFar
<1>8. PlacesGiven'
  BY <1>2 DEF ImportIInv, PlacesGiven, OneGoesToTheCell
<1> QED BY <1>6, <1>7, <1>8 DEF ImportIInv

\* ShowImporter adds the frames of the file, to the cell only the first time.
LEMMA LoadReturnsKept ==
    ASSUME ImportIInv, LoadReturns
    PROVE  ImportIInv'
<1>1. /\ pc' = "next" /\ palette_' = <<>> /\ colour' = <<>>
      /\ UNCHANGED <<pending, file, pos, trueColour, frame, sequence, eof, error>>
  BY DEF LoadReturns
<1>2. ReadSoFar'
  BY <1>1 DEF ReadSoFar
<1>3. CASE frame = NoFrame
  <2>1. added' = added /\ idx' = idx
    BY <1>3 DEF LoadReturns
  <2>2. ImportTypeOK'
    BY <1>1, <2>1 DEF ImportIInv, ImportTypeOK
  <2>3. PlacesGiven'
    BY <1>1, <2>1 DEF ImportIInv, PlacesGiven, OneGoesToTheCell
  <2> QED BY <1>2, <2>2, <2>3 DEF ImportIInv
<1>4. CASE frame # NoFrame
  <2> DEFINE Sources == [kind : {"Static_frame", "Colour_modulator"}, frames : Seq(Seq(Colours))]
             new == [idx |-> idx, source |-> Result]
  <2>1. added' = Append(added, new) /\ idx' = -1
    BY <1>4 DEF LoadReturns
  <2>2. /\ frame \in Seq(Colours) /\ sequence \in Seq(Seq(Colours)) /\ idx \in {Cell, -1}
        /\ added \in Seq([idx : {Cell, -1}, source : Sources])
        /\ sequence = <<>> \/ Len(sequence) >= 2
        /\ idx = Cell <=> added = <<>>
    BY DEF ImportIInv, ImportTypeOK, PlacesGiven
  <2>3. /\ Result \in Sources
        /\ Result.kind = "Static_frame" <=> Len(Result.frames) = 1
    <3>1. CASE sequence # <<>>
      <4>1. Result = [kind |-> "Colour_modulator", frames |-> sequence]
        BY <3>1 DEF Result
      <4>2. Len(sequence) # 1
        <5>1. Len(sequence) \in Nat
          BY <2>2, LenProperties
        <5>2. Len(sequence) >= 2
          BY <2>2, <3>1
        <5> QED BY <5>1, <5>2
      <4>3. Result.kind = "Colour_modulator" /\ Result.frames = sequence
        BY <4>1
      <4>4. Result \in Sources
        BY <2>2, <4>1
      <4> QED BY <4>2, <4>3, <4>4
    <3>2. CASE sequence = <<>>
      <4> DEFINE one == <<frame>>
      <4>1. Result = [kind |-> "Static_frame", frames |-> one]
        BY <3>2 DEF Result
      <4>2. one \in Seq(Seq(Colours)) /\ Len(one) = 1
        BY <2>2
      <4> HIDE DEF one
      <4> QED BY <4>1, <4>2
    <3> QED BY <3>1, <3>2
  <2>4. /\ new \in [idx : {Cell, -1}, source : Sources]
        /\ new.idx = idx /\ new.source = Result
    BY <2>2, <2>3
  <2> HIDE DEF new, Sources
  <2>5. /\ added' \in Seq([idx : {Cell, -1}, source : Sources])
        /\ Len(added') = Len(added) + 1 /\ added' # <<>> /\ Len(added) \in Nat
        /\ DOMAIN added = 1..Len(added) /\ DOMAIN added' = 1..(Len(added) + 1)
        /\ added'[Len(added) + 1] = new
        /\ \A n \in 1..Len(added) : added'[n] = added[n]
    BY <2>1, <2>2, <2>4, AppendProperties, LenProperties
  <2>6. ImportTypeOK'
    BY <1>1, <2>1, <2>5 DEF ImportIInv, ImportTypeOK, Sources
  <2>7. OneGoesToTheCell'
    <3> SUFFICES ASSUME NEW n \in 1..(Len(added) + 1)
                 PROVE  /\ added'[n].idx = Cell <=> n = 1
                        /\ added'[n].source.kind = "Static_frame"
                              <=> Len(added'[n].source.frames) = 1
      BY <2>5 DEF OneGoesToTheCell
    <3>1. CASE n \in 1..Len(added)
      <4>1. OneGoesToTheCell
        BY DEF ImportIInv, PlacesGiven
      <4> QED BY <2>5, <3>1, <4>1 DEF OneGoesToTheCell
    <3>2. CASE n = Len(added) + 1
      <4>1. added = <<>> <=> Len(added) = 0
        BY <2>2, EmptySeq
      <4> QED BY <2>2, <2>3, <2>4, <2>5, <3>2, <4>1
    <3> QED BY <2>5, <3>1, <3>2
  <2>8. PlacesGiven'
    BY <1>1, <2>1, <2>2, <2>5, <2>7 DEF PlacesGiven, Cell
  <2> QED BY <1>2, <2>6, <2>8 DEF ImportIInv
<1> QED BY <1>3, <1>4

\* One step of the importer keeps the invariant.
LEMMA NextImportIInv == ImportIInv /\ [ImportNext]_importVars => ImportIInv'
<1> SUFFICES ASSUME ImportIInv, [ImportNext]_importVars PROVE ImportIInv'
  OBVIOUS
<1>1. CASE loadFails
  <2>1. /\ pending' = Tail(pending) /\ error' = 1 /\ pc = "next"
        /\ UNCHANGED <<file, pc, pos, palette_, colour, trueColour, frame, sequence, eof, idx, added>>
    BY <1>1 DEF loadFails, members
  <2>2. pending' \in Seq(Files)
    BY <1>1, <2>1 DEF loadFails, ImportIInv, ImportTypeOK
  <2>3. ImportTypeOK'
    BY <2>1, <2>2 DEF ImportIInv, ImportTypeOK
  <2>4. ReadSoFar' /\ PlacesGiven'
    BY <2>1 DEF ImportIInv, ReadSoFar, PlacesGiven, OneGoesToTheCell
  <2> QED BY <2>3, <2>4 DEF ImportIInv
<1>2. CASE UNCHANGED importVars
  <2>1. UNCHANGED <<pending, file, pc, pos, palette_, colour, trueColour, frame, sequence, eof,
                    error, idx, added>>
    BY <1>2 DEF importVars
  <2>2. ImportTypeOK'
    BY <2>1 DEF ImportIInv, ImportTypeOK
  <2>3. ReadSoFar'
    BY <2>1 DEF ImportIInv, ReadSoFar, EndedBy, FramesUpTo, Collected, TablesInForce
  <2>4. PlacesGiven'
    BY <2>1 DEF ImportIInv, PlacesGiven, OneGoesToTheCell
  <2> QED BY <2>2, <2>3, <2>4 DEF ImportIInv
<1> QED
  BY <1>1, <1>2, LoadKept, StopKept, ReadFrameSectionKept, ReadColorTableKept,
     ReadTrueColorSectionKept, ReadFormat5Kept, UnknownSectionKept, LoadReturnsKept
     DEF ImportNext, Done

\* The inductive invariant holds throughout.
THEOREM ImportInductive == ImportSpec => []ImportIInv
  BY InitImportIInv, NextImportIInv, PTL DEF ImportSpec

\* Every variable keeps its type.
THEOREM ImportTypeCorrect == ImportSpec => []ImportTypeOK
<1>1. ImportIInv => ImportTypeOK
  BY DEF ImportIInv
<1> QED BY <1>1, ImportInductive, PTL

\* load() returns the frames the file means, in their order and with the
\* colours of the tables in force, for files of any sections, cut off anywhere.
THEOREM FramesAlwaysAsMeant == ImportSpec => []FramesAsMeant
<1>1. ImportIInv => FramesAsMeant
  <2> SUFFICES ASSUME ImportIInv, Through
               PROVE  Means(file, Collected, FramesOf(file))
    BY DEF FramesAsMeant
  <2>1. /\ Means(file, Collected, FramesUpTo(pos))
        /\ eof => EndedBy(pos)
        /\ eof \/ pos = Len(file.sections)
        /\ file \in Files /\ pos \in Nat /\ Len(file.sections) \in Nat
    BY FileShape DEF ImportIInv, ReadSoFar, Through, ImportTypeOK
  <2>2. \A k \in FramesOf(file) : k <= pos
    <3> SUFFICES ASSUME NEW k \in FramesOf(file), ~(k <= pos) PROVE FALSE
      OBVIOUS
    <3>1. k \in 1..Len(file.sections) /\ \A j \in 1..k : ~EndsFile(file, j)
      BY <2>1, FileShape DEF FramesOf
    <3>2. \A j \in 1..pos : j \in 1..k
      BY <2>1, <3>1
    <3> QED BY <2>1, <3>1, <3>2 DEF EndedBy
  <2>3. FramesUpTo(pos) = FramesOf(file)
    BY <2>2 DEF FramesUpTo
  <2> QED BY <2>1, <2>3
<1> QED BY <1>1, ImportInductive, PTL

\* Of the files imported to a cell the first one with a frame, and no other,
\* goes there, whichever files fail to open or hold nothing.
THEOREM OneAlwaysGoesToTheCell == ImportSpec => []OneGoesToTheCell
<1>1. ImportIInv => OneGoesToTheCell
  BY DEF ImportIInv, PlacesGiven
<1> QED BY <1>1, ImportInductive, PTL
=============================================================================
