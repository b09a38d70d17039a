--------------------------- MODULE ShowEngineProofs ---------------------------
(***************************************************************************)
(* What holds of the engine's vector and its jobs for every set of files,  *)
(* imports, drops and requests.                                            *)
(*                                                                         *)
(* The properties look at moments (a completion is queued, all events are  *)
(* handled); the invariant says what leads up to them: where each job is   *)
(* (OneEach, LocksOK, ThreadsOK), what the saver has passed (SaveOK), that *)
(* every slot a cell does not show has its event on the way (ViewOK), and  *)
(* that what the clearing of a show has passed is empty or announced       *)
(* (ClearedOK).                                                            *)
(***************************************************************************)
EXTENDS ShowEngine, SequenceTheorems, FiniteSetTheorems, TLAPS

Queued(event) == Contains(engineQueue, event)

\* Each job is at one place at a time: cleared for, running, or completed and
\* queued; and at most one completion of a kind is queued.
OneEach ==
    /\ IsInjective(engineQueue)
    /\ saver.pc = "writing" => ~Queued("Saved")
    /\ ~Idle("load") => ~Queued("Loaded")
    /\ ~Idle("import") => ~Queued("Imported")
    /\ guiPC \in {"clear", "null", "tell"} => Idle("load") /\ ~Queued("Loaded")

\* The destructor has the mutex of the saver while it waits for the loader's.
LocksOK ==
    /\ guiPC # "waitLoad" =>
          ("save" \in locked <=> saver.pc = "writing" \/ Queued("Saved"))
    /\ guiPC = "waitLoad" => saver.pc # "writing" /\ ~Queued("Saved")
    /\ "load" \in locked <=> \/ guiPC \in {"clear", "null", "tell"} \/ ~Idle("load")
                             \/ Queued("Loaded")
    /\ "import" \in locked <=> ~Idle("import") \/ Queued("Imported")

\* A thread whose completion is queued has come to its end and is not deleted.
ThreadsOK == /\ Queued("Saved") => saver.pc = "done"
             /\ Queued("Loaded") => worker["load"].pc = "done"
             /\ Queued("Imported") => worker["import"].pc = "done"

\* What stays in the show is still in the vector, and what the saver has passed
\* of it is in the file.
SaveOK ==
    /\ saver.pc = "writing" => /\ kept \subseteq ImageOf(sources)
                               /\ \A x \in kept : x.pos < saver.i => x \in saver.image
    /\ Queued("Saved") => kept \subseteq saver.image

\* No save or load is under way, and no event that says that one has ended.
Calm == /\ saver.pc # "writing" /\ ~Queued("Saved")
        /\ guiPC \notin {"clear", "null", "tell"} /\ Idle("load") /\ ~Queued("Loaded")
        /\ \A e \in Range(guiQueue) : e.type \notin {"showSaved", "showLoaded"}

\* While an import is marked nothing is under way that resets the flag.
MarkOK == /\ guiPC = "main" => requests = 0
          /\ requests = 0 => ~marked
          /\ marked => unsaved /\ Calm

Watched == {p \in Positions : p < GridSize}

\* A worker has changed the slot, and its event has not been handled.
Emitting(w, p) == worker[w].pc \in {"emitSize", "emit"} /\ worker[w].pos = p
Pending(p) == \/ Changed(p) \in Range(guiQueue)
              \/ \E w \in {"load", "import"} : Emitting(w, p)

\* loadShow() has nulled the slot and is about to tell the grids.
Telling(p) == guiPC = "tell" /\ clearing.i = p /\ clearing.op # Empty

ViewOK == \A p \in Watched : view[p] = At(p) \/ Pending(p) \/ Telling(p)

\* loadShow() has seen to the slot, or found it empty.
Passed(p) == \/ guiPC \in {"clear", "null", "tell"} /\ p < clearing.i
             \/ guiPC = "tell" /\ p = clearing.i
             \/ guiPC = "null" /\ p = clearing.i /\ clearing.op = Empty

ClearedOK == /\ guiPC \notin {"clear", "null", "tell"} => clearing.i = 0
             /\ \A p \in Watched : Passed(p) => At(p) = Empty \/ Pending(p)

\* The inductive invariant.
IInv == TypeOK /\ OneEach /\ LocksOK /\ ThreadsOK /\ SaveOK /\ MarkOK /\ ViewOK /\ ClearedOK
-----------------------------------------------------------------------------
(***************************************************************************)
(* Queues and the vector.                                                  *)
(***************************************************************************)
\* Posting an event.
LEMMA Posted ==
    ASSUME NEW S, NEW q \in Seq(S), NEW e \in S
    PROVE  /\ Append(q, e) \in Seq(S)
           /\ Range(Append(q, e)) = Range(q) \cup {e}
           /\ \A x : Contains(Append(q, e), x) <=> Contains(q, x) \/ x = e
           /\ IsInjective(q) /\ ~Contains(q, e) => IsInjective(Append(q, e))
<1> DEFINE t == Append(q, e)
<1>1. /\ t \in Seq(S) /\ Len(t) = Len(q) + 1 /\ Len(q) \in Nat
      /\ DOMAIN t = 1..(Len(q) + 1) /\ DOMAIN q = 1..Len(q)
      /\ \A i \in 1..Len(q) : t[i] = q[i]
      /\ t[Len(q) + 1] = e
  OBVIOUS
<1>2. 1..(Len(q) + 1) = 1..Len(q) \cup {Len(q) + 1}
  BY <1>1
<1> HIDE DEF t
<1>3. Range(t) = Range(q) \cup {e}
  BY <1>1, <1>2 DEF Range
<1>4. \A x : Contains(t, x) <=> Contains(q, x) \/ x = e
  BY <1>1, <1>2 DEF Contains
<1>5. ASSUME IsInjective(q), ~Contains(q, e) PROVE IsInjective(t)
  <2> SUFFICES ASSUME NEW i \in DOMAIN t, NEW j \in DOMAIN t, t[i] = t[j] PROVE i = j
    BY DEF IsInjective
  <2>1. CASE i \in 1..Len(q) /\ j \in 1..Len(q)
    BY <1>1, <1>5, <2>1 DEF IsInjective
  <2>2. CASE i = Len(q) + 1 \/ j = Len(q) + 1
    BY <1>1, <1>2, <1>5, <2>2 DEF Contains
  <2> QED BY <1>1, <1>2, <2>1, <2>2
<1> QED BY <1>1, <1>3, <1>4, <1>5 DEF t

\* Taking the first event of a queue that holds each event once.
LEMMA Taken ==
    ASSUME NEW S, NEW q \in Seq(S), q # <<>>
    PROVE  /\ Head(q) \in S /\ Tail(q) \in Seq(S)
           /\ Range(Tail(q)) \subseteq Range(q) /\ Range(q) \subseteq Range(Tail(q)) \cup {Head(q)}
           /\ Head(q) \in Range(q)
           /\ IsInjective(q) => /\ IsInjective(Tail(q))
                                /\ \A x : Contains(Tail(q), x) <=> Contains(q, x) /\ x # Head(q)
<1> DEFINE t == Tail(q)
<1>1. /\ Head(q) \in S /\ t \in Seq(S) /\ Len(q) \in Nat \ {0} /\ Len(t) = Len(q) - 1
      /\ DOMAIN t = 1..(Len(q) - 1) /\ DOMAIN q = 1..Len(q) /\ Head(q) = q[1]
      /\ \A i \in 1..(Len(q) - 1) : t[i] = q[i + 1] /\ i + 1 \in 2..Len(q)
  OBVIOUS
<1>2. \A i \in 1..Len(q) : i = 1 \/ (i \in 2..Len(q) /\ i - 1 \in 1..(Len(q) - 1) /\ i = (i - 1) + 1)
  BY <1>1
<1> HIDE DEF t
<1>3. \A i \in 2..Len(q) : i - 1 \in 1..(Len(q) - 1) /\ t[i - 1] = q[i] /\ i \in 1..Len(q) /\ i # 1
  BY <1>1
<1>4. /\ Range(t) \subseteq Range(q) /\ Range(q) \subseteq Range(t) \cup {Head(q)}
      /\ Head(q) \in Range(q)
  <2>1. \A i \in DOMAIN t : \E j \in DOMAIN q : t[i] = q[j]
    BY <1>1, <1>3
  <2>2. \A j \in DOMAIN q : j = 1 \/ \E i \in DOMAIN t : t[i] = q[j]
    BY <1>1, <1>2, <1>3
  <2>3. 1 \in DOMAIN q
    BY <1>1
  <2> QED BY <1>1, <2>1, <2>2, <2>3 DEF Range
<1>5. ASSUME IsInjective(q) PROVE IsInjective(t)
  <2> SUFFICES ASSUME NEW i \in DOMAIN t, NEW j \in DOMAIN t, t[i] = t[j] PROVE i = j
    BY DEF IsInjective
  <2>1. q[i + 1] = q[j + 1] /\ i + 1 \in DOMAIN q /\ j + 1 \in DOMAIN q
    BY <1>1
  <2>2. i + 1 = j + 1
    BY <1>5, <2>1 DEF IsInjective
  <2> QED BY <1>1, <2>2
<1>6. ASSUME IsInjective(q), NEW x PROVE Contains(t, x) <=> Contains(q, x) /\ x # Head(q)
  <2>1. ASSUME NEW i \in 1..Len(t), t[i] = x PROVE Contains(q, x) /\ x # Head(q)
    <3>1. x = q[i + 1] /\ i + 1 \in 1..Len(q) /\ i + 1 # 1 /\ 1 \in 1..Len(q)
      BY <1>1, <2>1
    <3> QED BY <1>1, <1>6, <3>1 DEF Contains, IsInjective
  <2>2. ASSUME NEW i \in 1..Len(q), q[i] = x, x # Head(q) PROVE Contains(t, x)
    <3>1. i # 1
      BY <1>1, <2>2
    <3>2. i \in 2..Len(q)
      BY <1>2, <3>1
    <3> QED BY <1>1, <1>3, <2>2, <3>2 DEF Contains
  <2> QED BY <2>1, <2>2 DEF Contains
<1> QED BY <1>1, <1>4, <1>5, <1>6 DEF t

\* A slot of a vector; At(pos) is that of the engine's.
Slot(vector, pos) == IF pos < Len(vector) THEN vector[pos + 1] ELSE Empty

\* Storing at a position changes that slot and no other.
LEMMA StoredSlots ==
    ASSUME sources \in Seq(Contents), NEW pos \in Nat, NEW frame \in Contents
    PROVE  /\ Stored(pos, frame) \in Seq(Contents)
           /\ \A q \in Nat : Slot(Stored(pos, frame), q) = IF q = pos THEN frame ELSE At(q)
<1> DEFINE n == IF pos < Len(sources) THEN Len(sources) ELSE pos + 1
           t == Stored(pos, frame)
<1>1. n \in Nat /\ pos < n /\ Len(sources) \in Nat /\ Len(sources) <= n
      /\ (n > Len(sources) => n = pos + 1)
  OBVIOUS
<1>2. \A q \in Nat : At(q) \in Contents /\ (q >= Len(sources) => At(q) = Empty)
  BY DEF At, Contents
<1>3. t = [i \in 1..n |-> IF i = pos + 1 THEN frame ELSE At(i - 1)]
  BY DEF Stored
<1> HIDE DEF n, t
<1>4. t \in [1..n -> Contents]
  <2>1. \A i \in 1..n : i - 1 \in Nat
    BY <1>1
  <2> QED BY <1>2, <1>3, <2>1
<1>5. t \in Seq(Contents) /\ Len(t) = n
  <2>1. t \in Seq(Contents)
    BY <1>1, <1>4, SeqDef
  <2>2. DOMAIN t = 1..n /\ DOMAIN t = 1..Len(t) /\ Len(t) \in Nat
    BY <1>4, <2>1, LenProperties
  <2> QED BY <1>1, <2>1, <2>2
<1>6. ASSUME NEW q \in Nat PROVE Slot(t, q) = IF q = pos THEN frame ELSE At(q)
  <2>1. CASE q < n
    <3>1. q + 1 \in 1..n /\ (q + 1) - 1 = q /\ (q + 1 = pos + 1 <=> q = pos)
      BY <1>1, <2>1
    <3>2. t[q + 1] = IF q + 1 = pos + 1 THEN frame ELSE At((q + 1) - 1)
      BY <1>3, <3>1
    <3> QED BY <1>5, <2>1, <3>1, <3>2 DEF Slot
  <2>2. CASE ~(q < n)
    <3>1. q # pos /\ q >= Len(sources)
      BY <1>1, <2>2
    <3> QED BY <1>2, <1>5, <2>2, <3>1 DEF Slot
  <2> QED BY <2>1, <2>2
<1> QED BY <1>5, <1>6 DEF t

\* What a vector holds, as a set of entries.
LEMMA Images ==
    ASSUME NEW vector \in Seq(Contents)
    PROVE  /\ ImageOf(vector) \subseteq Entries
           /\ \A x \in ImageOf(vector) :
                 /\ x.pos \in Nat /\ x.pos < Len(vector)
                 /\ Slot(vector, x.pos) = x.frame /\ x.frame # Empty
                 /\ x = [pos |-> x.pos, frame |-> x.frame]
<1> SUFFICES ASSUME NEW x \in ImageOf(vector)
             PROVE  /\ x \in Entries
                    /\ x.pos \in Nat /\ x.pos < Len(vector)
                    /\ Slot(vector, x.pos) = x.frame /\ x.frame # Empty
                    /\ x = [pos |-> x.pos, frame |-> x.frame]
  OBVIOUS
<1>1. PICK i \in DOMAIN vector : vector[i] # Empty /\ x = [pos |-> i - 1, frame |-> vector[i]]
  BY DEF ImageOf
<1>2. i \in 1..Len(vector) /\ Len(vector) \in Nat /\ vector[i] \in Frames
  BY <1>1 DEF Contents
<1>3. i - 1 \in Nat /\ i - 1 < Len(vector) /\ (i - 1) + 1 = i
  BY <1>2
<1>4. x.pos = i - 1 /\ x.frame = vector[i]
  BY <1>1
<1> QED BY <1>1, <1>2, <1>3, <1>4 DEF Entries, Slot
-----------------------------------------------------------------------------
(***************************************************************************)
(* Types.                                                                  *)
(***************************************************************************)
LEMMA ConstantTypes ==
    /\ Cells \subseteq Nat /\ DropFrames \subseteq Contents /\ Empty \in Contents
    /\ \A f \in Files : FileContents[f] \in Seq(Entries)
    /\ \A e \in Entries : e.pos \in Nat /\ e.frame \in Contents
<1>1. Positions \subseteq Nat
  BY ShowAssumption DEF Positions
<1>2. [pos : Positions, frame : Frames] \subseteq Entries
  BY <1>1 DEF Entries
<1>3. \A f \in Files : FileContents[f] \in Seq(Entries)
  <2> SUFFICES ASSUME NEW f \in Files PROVE FileContents[f] \in Seq(Entries)
    OBVIOUS
  <2>1. FileContents[f] \in Seq([pos : Positions, frame : Frames])
    BY ShowAssumption
  <2> DEFINE S == [pos : Positions, frame : Frames]
             c == FileContents[f]
  <2>2. c \in Seq(S) /\ S \subseteq Entries
    BY <1>2, <2>1
  <2> HIDE DEF S, c
  <2>3. c \in Seq(Entries)
    BY <2>2
  <2> QED BY <2>3 DEF c
<1>4. Cells \subseteq Nat /\ DropFrames \subseteq Contents /\ Empty \in Contents
  BY <1>1, ShowAssumption DEF Contents
<1>5. \A e \in Entries : e.pos \in Nat /\ e.frame \in Contents
  BY DEF Contents, Entries
<1> QED BY <1>3, <1>4, <1>5

\* Storing keeps the types of the vector and of kept.
LEMMA StoreTypes ==
    ASSUME TypeOK, NEW pos \in Nat, NEW frame \in Contents, Store(Stored(pos, frame))
    PROVE  /\ sources' \in Seq(Contents)
           /\ kept' \subseteq kept
           /\ \A q \in Nat : At(q)' = IF q = pos THEN frame ELSE At(q)
<1>1. sources' = Stored(pos, frame) /\ kept' \subseteq kept
  BY DEF Store
<1>2. /\ sources' \in Seq(Contents)
      /\ \A q \in Nat : Slot(sources', q) = IF q = pos THEN frame ELSE At(q)
  <2>1. /\ Stored(pos, frame) \in Seq(Contents)
        /\ \A q \in Nat : Slot(Stored(pos, frame), q) = IF q = pos THEN frame ELSE At(q)
    <3>1. sources \in Seq(Contents)
      BY DEF TypeOK
    <3> QED BY <3>1, StoredSlots, Zenon
  <2> QED BY <1>1, <2>1
<1>3. \A q \in Nat : At(q)' = Slot(sources', q)
  BY DEF At, Slot
<1> QED BY <1>1, <1>2, <1>3

\* The three flags.
LEMMA FlagsKept ==
    ASSUME TypeOK, [Next]_vars
    PROVE  engineLoop' \in BOOLEAN /\ unsaved' \in BOOLEAN /\ marked' \in BOOLEAN
<1>1. engineLoop \in BOOLEAN /\ unsaved \in BOOLEAN /\ marked \in BOOLEAN
  BY DEF TypeOK
<1>2. ASSUME saveShow PROVE unsaved' = unsaved /\ engineLoop' = engineLoop /\ marked' \in {marked, FALSE}
  BY <1>2, Zenon DEF saveShow, StartSave, SaveOpens, SaveFails, SaveCrashes
<1>3. ASSUME NEW f \in Files, loadShow(f)
      PROVE  unsaved' = unsaved /\ engineLoop' = engineLoop /\ marked' \in BOOLEAN
  <2>1. unsaved' = unsaved /\ engineLoop' = engineLoop
    BY <1>3 DEF loadShow
  <2>2. marked' \in BOOLEAN
    BY <1>3, Zenon DEF loadShow
  <2> QED BY <2>1, <2>2
<1>4. ASSUME NEW fs \in Imports, NEW pos \in Cells \cup {-1}, importShow(fs, pos)
      PROVE  unsaved' \in BOOLEAN /\ engineLoop' = engineLoop /\ marked' \in BOOLEAN
  <2>1. engineLoop' = engineLoop
    BY <1>4 DEF importShow
  <2>2. marked' \in BOOLEAN
    BY <1>4, Zenon DEF importShow
  <2>3. unsaved' \in BOOLEAN
    BY <1>4, Zenon DEF importShow
  <2> QED BY <2>1, <2>2, <2>3
<1>5. ASSUME NEW f \in DropFrames, NEW pos \in Cells, Drop(f, pos)
      PROVE  unsaved' = unsaved /\ engineLoop' = engineLoop /\ marked' = marked
  BY <1>5 DEF Drop, window
<1>6. ASSUME GuiStep PROVE engineLoop' = engineLoop /\ marked' = marked /\ unsaved' \in {unsaved, FALSE}
  BY <1>6, Zenon DEF GuiStep, MainLoadsFile, MainEntersLoop, ReadSlot, NullSlot, TellGrids, ClearVector,
         frameSourceChanged, NewGrid, ConnectGrid, EnoughGrids, savedOrLoaded, window
<1>7. ASSUME SaverStep \/ LoaderStep \/ ImporterStep \/ EngineStep
      PROVE  engineLoop' = engineLoop /\ marked' = marked /\ unsaved' = unsaved
  BY <1>7 DEF SaverStep, LoaderStep, ImporterStep, EngineStep, SaveSlot, SaverFinished,
              LoadSequence, ImportFile, WorkerStep, EmitSize, EmitChanged, WorkerFinished,
              Saved, Completed, window
<1>8. ASSUME Quit \/ ShutdownStep
      PROVE  engineLoop' \in {engineLoop, FALSE} /\ marked' = marked /\ unsaved' = unsaved
  BY <1>8, Zenon DEF Quit, ShutdownStep, EngineLoopStops, AwaitSave, AwaitLoad, ShutdownFrame, window
<1>9. ASSUME Waiting \/ UNCHANGED vars
      PROVE  engineLoop' = engineLoop /\ marked' = marked /\ unsaved' = unsaved
  BY <1>9 DEF Waiting, vars, window
<1>10. FALSE \in BOOLEAN
  BY Zenon
<1> QED BY <1>1, <1>2, <1>3, <1>4, <1>5, <1>6, <1>7, <1>8, <1>9, <1>10 DEF Next, UserStep

Pcs == {"none", "next", "emitSize", "emit", "done", "deleted"}
SaverPcs == {"none", "writing", "done", "deleted"}

\* What TypeOK says of the loader and the importer, and of everything else
\* but the three flags.
WorkerTypes ==
    /\ worker \in [{"load", "import"} ->
                      [pc : Pcs,
                       left : Seq(Entries) \cup Seq(Contents), pos : Nat \cup {-1}]]
    /\ worker["load"].left \in Seq(Entries) /\ worker["import"].left \in Seq(Contents)
    /\ \A w \in {"load", "import"} :
          worker[w].pc \in {"emitSize", "emit"} => worker[w].pos \in Nat

OtherTypes ==
    /\ sources \in Seq(Contents)
    /\ locked \subseteq {"save", "load", "import"}
    /\ saver \in [pc : SaverPcs, i : Nat, image : SUBSET Entries]
    /\ kept \subseteq Entries
    /\ engineQueue \in Seq({"Saved", "Loaded", "Imported"})
    /\ guiPC \in {"main", "clear", "null", "tell", "idle", "connect",
                  "quit", "waitSave", "waitLoad", "gone", "crashed"}
    /\ clearing \in [i : Nat, op : Contents] /\ argv \in Seq(Files)
    /\ guiQueue \in Seq(GuiEvents)
    /\ grids \in Nat \ {0} /\ view \in [Positions -> Contents] /\ requests \in Nat

Left(w) == IF w = "load" THEN Seq(Entries) ELSE Seq(Contents)

\* A worker's record.
WorkerRecord(w, r) == /\ r \in [pc : Pcs, left : Left(w), pos : Nat \cup {-1}]
                      /\ r.pc \in {"emitSize", "emit"} => r.pos \in Nat

\* A step that replaces the record of one of the two.
LEMMA WorkerUpdate ==
    ASSUME WorkerTypes, NEW w \in {"load", "import"}, NEW r, WorkerRecord(w, r),
           worker' = [worker EXCEPT ![w] = r]
    PROVE  WorkerTypes'
<1>1. r \in [pc : Pcs, left : Seq(Entries) \cup Seq(Contents), pos : Nat \cup {-1}]
  BY DEF WorkerRecord, Left
<1>2. /\ worker' \in [{"load", "import"} ->
                      [pc : Pcs, left : Seq(Entries) \cup Seq(Contents), pos : Nat \cup {-1}]]
      /\ worker'[w] = r /\ \A v \in {"load", "import"} : v # w => worker'[v] = worker[v]
  BY <1>1 DEF WorkerTypes, Pcs
<1>3. CASE w = "load"
  BY <1>2, <1>3 DEF WorkerTypes, WorkerRecord, Left, Pcs
<1>4. CASE w = "import"
  BY <1>2, <1>4 DEF WorkerTypes, WorkerRecord, Left, Pcs
<1> QED BY <1>3, <1>4

\* addFrameSource(fs, -1) finds a position.
LEMMA FirstFreeType == sources \in Seq(Contents) => FirstFree \in Nat
<1> SUFFICES ASSUME sources \in Seq(Contents) PROVE FirstFree \in Nat
  OBVIOUS
<1>1. DOMAIN sources = 1..Len(sources) /\ Len(sources) \in Nat
  OBVIOUS
<1>2. IsFiniteSet(DOMAIN sources)
  BY <1>1, FS_Interval
<1> DEFINE taken == {n \in DOMAIN sources : \A i \in 1..n : sources[i] # Empty}
<1>3. IsFiniteSet(taken)
  BY <1>2, FS_Subset
<1> HIDE DEF taken
<1>4. Cardinality(taken) \in Nat
  BY <1>3, FS_CardinalityType
<1> QED BY <1>4 DEF FirstFree, taken

\* The two workers keep their types.
LEMMA WorkerTypesKept ==
    ASSUME TypeOK, Next
    PROVE  WorkerTypes'
<1>1. WorkerTypes
  BY DEF TypeOK, WorkerTypes, Pcs
<1>2. WorkerRecord("load", worker["load"]) /\ WorkerRecord("import", worker["import"])
  BY <1>1 DEF WorkerTypes, WorkerRecord, Pcs, Left
<1>3. ASSUME UNCHANGED worker PROVE WorkerTypes'
  BY <1>1, <1>3 DEF WorkerTypes
<1>4. ASSUME NEW f \in Files, NEW after, StartLoad(f, after) PROVE WorkerTypes'
  <2> DEFINE pc == Deleted(worker["load"].pc)
             r == [worker["load"] EXCEPT !.pc = pc, !.left = FileContents[f]]
             d == [worker["load"] EXCEPT !.pc = pc]
  <2>1. pc \in {"none", "deleted"}
    BY DEF Deleted
  <2>2. CASE LoadOpens(f)
    <3>1. worker' = [worker EXCEPT !["load"] = r]
      BY <1>1, <2>2 DEF LoadOpens, WorkerTypes
    <3> HIDE DEF pc
    <3>2. WorkerRecord("load", r)
      BY <1>2, <2>1, ConstantTypes DEF WorkerRecord, Left, Pcs
    <3> HIDE DEF r
    <3> QED BY <1>1, <3>1, <3>2, WorkerUpdate
  <2>3. CASE LoadFails(f, after)
    <3>1. worker' = [worker EXCEPT !["load"] = d]
      BY <1>1, <2>3 DEF LoadFails, WorkerTypes
    <3> HIDE DEF pc
    <3>2. WorkerRecord("load", d)
      BY <1>2, <2>1 DEF WorkerRecord, Left, Pcs
    <3> HIDE DEF d
    <3> QED BY <1>1, <3>1, <3>2, WorkerUpdate
  <2> QED BY <1>3, <1>4, <2>2, <2>3 DEF StartLoad, LoadCrashes
<1>5. ASSUME NEW fs \in Imports, NEW pos \in Cells \cup {-1}, importShow(fs, pos) PROVE WorkerTypes'
  <2> DEFINE r == [pc |-> "next", left |-> fs, pos |-> pos]
  <2>1. CASE worker' = [worker EXCEPT !["import"] = r]
    <3>1. WorkerRecord("import", r)
      BY ShowAssumption, ConstantTypes DEF WorkerRecord, Left, Pcs
    <3> HIDE DEF r
    <3> QED BY <1>1, <2>1, <3>1, WorkerUpdate
  <2> QED BY <1>3, <1>5, <2>1 DEF importShow
<1>6. ASSUME ClearVector PROVE WorkerTypes'
  <2> DEFINE r == [worker["load"] EXCEPT !.pc = "next"]
  <2>1. worker' = [worker EXCEPT !["load"] = r]
    BY <1>6 DEF ClearVector
  <2>2. WorkerRecord("load", r)
    BY <1>2 DEF WorkerRecord, Left, Pcs
  <2> HIDE DEF r
  <2> QED BY <1>1, <2>1, <2>2, WorkerUpdate
<1>7. ASSUME NEW w \in {"load", "import"}, NEW pos \in Nat, NEW frame, addFrameSource(w, pos, frame),
             worker[w].left # <<>>
      PROVE  WorkerTypes'
  <2> DEFINE r == [worker[w] EXCEPT !.pc = IF pos >= Len(sources) THEN "emitSize" ELSE "emit",
                                    !.left = Tail(worker[w].left), !.pos = pos]
  <2>1. worker' = [worker EXCEPT ![w] = r]
    BY <1>1, <1>7 DEF addFrameSource, WorkerTypes
  <2>2. Tail(worker[w].left) \in Left(w)
    <3>1. CASE w = "load"
      BY <1>1, <1>7, <3>1 DEF WorkerTypes, Left
    <3>2. CASE w = "import"
      BY <1>1, <1>7, <3>2 DEF WorkerTypes, Left
    <3> QED BY <3>1, <3>2
  <2>3. WorkerRecord(w, r)
    BY <1>2, <2>2 DEF WorkerRecord, Pcs
  <2> HIDE DEF r
  <2> QED BY <1>1, <2>1, <2>3, WorkerUpdate
<1>8. ASSUME NEW w \in {"load", "import"}, WorkerStep(w) PROVE WorkerTypes'
  <2>1. CASE EmitSize(w)
    <3> DEFINE r == [worker[w] EXCEPT !.pc = "emit"]
    <3>1. worker' = [worker EXCEPT ![w] = r] /\ worker[w].pc = "emitSize"
      BY <2>1 DEF EmitSize
    <3>2. WorkerRecord(w, r)
      BY <1>2, <3>1 DEF WorkerRecord, Pcs
    <3> HIDE DEF r
    <3> QED BY <1>1, <3>1, <3>2, WorkerUpdate
  <2>2. CASE EmitChanged(w)
    <3> DEFINE r == [worker[w] EXCEPT !.pc = "next", !.pos = -1]
    <3>1. worker' = [worker EXCEPT ![w] = r]
      BY <1>1, <2>2 DEF EmitChanged, WorkerTypes
    <3>2. WorkerRecord(w, r)
      BY <1>2 DEF WorkerRecord, Pcs
    <3> HIDE DEF r
    <3> QED BY <1>1, <3>1, <3>2, WorkerUpdate
  <2>3. CASE WorkerFinished(w)
    <3> DEFINE r == [NoWorker EXCEPT !.pc = "done"]
    <3>1. worker' = [worker EXCEPT ![w] = r]
      BY <2>3 DEF WorkerFinished
    <3>2. r = [pc |-> "done", left |-> <<>>, pos |-> -1]
      BY DEF NoWorker
    <3> HIDE DEF r
    <3>3. <<>> \in Left(w)
      BY DEF Left
    <3>4. WorkerRecord(w, r)
      BY <3>2, <3>3 DEF WorkerRecord, Pcs
    <3> QED BY <1>1, <3>1, <3>4, WorkerUpdate
  <2> QED BY <1>8, <2>1, <2>2, <2>3 DEF WorkerStep
<1>9. ASSUME LoadSequence PROVE WorkerTypes'
  <2> DEFINE item == Head(worker["load"].left)
  <2>1. worker["load"].left # <<>> /\ addFrameSource("load", item.pos, item.frame)
    BY <1>9 DEF LoadSequence
  <2>2. item \in Entries
    BY <1>1, <2>1 DEF WorkerTypes
  <2> HIDE DEF item
  <2>3. item.pos \in Nat
    BY <2>2, ConstantTypes
  <2> QED BY <1>7, <2>1, <2>3
<1>10. ASSUME ImportFile PROVE WorkerTypes'
  <2> DEFINE frame == Head(worker["import"].left)
             pos == IF worker["import"].pos < 0 THEN FirstFree ELSE worker["import"].pos
  <2>1. worker["import"].left # <<>>
    BY <1>10 DEF ImportFile
  <2>2. CASE frame = Empty
    <3> DEFINE r == [worker["import"] EXCEPT !.left = Tail(worker["import"].left)]
    <3>1. worker' = [worker EXCEPT !["import"] = r]
      BY <1>10, <2>2 DEF ImportFile
    <3>2. Tail(worker["import"].left) \in Seq(Contents)
      BY <1>1, <2>1 DEF WorkerTypes
    <3>3. WorkerRecord("import", r)
      BY <1>2, <3>2 DEF WorkerRecord, Left, Pcs
    <3> HIDE DEF r
    <3> QED BY <1>1, <3>1, <3>3, WorkerUpdate
  <2>3. CASE frame # Empty
    <3>1. addFrameSource("import", pos, frame)
      BY <1>10, <2>3 DEF ImportFile
    <3>2. FirstFree \in Nat
      BY FirstFreeType DEF TypeOK
    <3>3. pos \in Nat
      BY <1>1, <3>2 DEF WorkerTypes
    <3> HIDE DEF pos, frame
    <3> QED BY <1>7, <2>1, <3>1, <3>3
  <2> QED BY <2>2, <2>3
<1>11. ASSUME \/ saveShow \/ Quit \/ SaverStep \/ EngineStep \/ ShutdownStep \/ Waiting
              \/ \E f \in DropFrames, pos \in Cells : Drop(f, pos)
       PROVE  UNCHANGED worker
  BY <1>11 DEF saveShow, Quit, SaverStep, SaveSlot, SaverFinished, EngineStep, Saved, Completed,
       ShutdownStep, EngineLoopStops, AwaitSave, AwaitLoad, ShutdownFrame, Waiting, Drop,
       vars, workers
<1>12. ASSUME GuiStep
       PROVE  \/ UNCHANGED worker \/ ClearVector
              \/ argv # <<>> /\ StartLoad(Head(argv), "main")
  BY <1>12 DEF GuiStep, MainLoadsFile, MainEntersLoop, ReadSlot, NullSlot, TellGrids,
       frameSourceChanged, NewGrid, ConnectGrid, EnoughGrids, savedOrLoaded, workers
<1>13. argv # <<>> => Head(argv) \in Files
  BY DEF TypeOK
<1>14. ASSUME NEW f \in Files, loadShow(f) PROVE StartLoad(f, "idle")
  BY <1>14 DEF loadShow
<1> QED BY <1>3, <1>4, <1>5, <1>6, <1>8, <1>9, <1>10, <1>11, <1>12, <1>13, <1>14
        DEF Next, UserStep, LoaderStep, ImporterStep

\* So does everything else.
LEMMA OtherTypesKept ==
    ASSUME TypeOK, Next
    PROVE  OtherTypes'
<1>1. OtherTypes /\ WorkerTypes
  BY DEF TypeOK, OtherTypes, WorkerTypes, Pcs, SaverPcs
<1>2. ASSUME NEW pos \in Nat, NEW frame \in Contents, Store(Stored(pos, frame))
      PROVE  sources' \in Seq(Contents) /\ kept' \subseteq Entries
  BY <1>1, <1>2, StoreTypes DEF OtherTypes
<1>3. ASSUME NEW pos \in Nat PROVE At(pos) \in Contents
  BY <1>1, ConstantTypes DEF OtherTypes, At
<1>4. ASSUME NEW e \in GuiEvents, guiQueue' = Append(guiQueue, e) PROVE guiQueue' \in Seq(GuiEvents)
  BY <1>1, <1>4 DEF OtherTypes
<1>5. ASSUME guiQueue # <<>>
      PROVE  /\ Head(guiQueue) \in GuiEvents /\ Head(guiQueue).n \in Nat
             /\ Tail(guiQueue) \in Seq(GuiEvents)
  <2>1. Head(guiQueue) \in GuiEvents /\ Tail(guiQueue) \in Seq(GuiEvents)
    BY <1>1, <1>5 DEF OtherTypes
  <2> QED BY <2>1 DEF GuiEvents
<1>6. ASSUME engineQueue # <<>> PROVE Tail(engineQueue) \in Seq({"Saved", "Loaded", "Imported"})
  BY <1>1, <1>6 DEF OtherTypes
<1>7. ASSUME saveShow PROVE OtherTypes'
  <2>1. ImageOf(sources) \subseteq Entries
    BY <1>1, Images DEF OtherTypes
  <2>2. [pc |-> "writing", i |-> 0, image |-> {}]
          \in [pc : SaverPcs, i : Nat, image : SUBSET Entries]
    BY DEF SaverPcs
  <2>3. requests' \in Nat
    BY <1>1, <1>7 DEF saveShow, Counted, OtherTypes
  <2>4. /\ saver' \in [pc : SaverPcs, i : Nat, image : SUBSET Entries]
        /\ kept' \subseteq Entries /\ locked' \subseteq {"save", "load", "import"}
    <3>1. CASE SaveOpens
      BY <1>1, <2>1, <2>2, <3>1 DEF SaveOpens, OtherTypes
    <3>2. CASE SaveFails
      <4>1. Deleted(saver.pc) \in SaverPcs
        BY DEF Deleted, SaverPcs
      <4> QED BY <1>1, <3>2, <4>1 DEF SaveFails, OtherTypes
    <3> QED BY <1>1, <1>7, <3>1, <3>2 DEF saveShow, StartSave, SaveCrashes, OtherTypes
  <2>5. guiPC' \in {"idle", "crashed"}
    BY <1>7 DEF saveShow, UserMay, StartSave, SaveOpens, SaveFails, SaveCrashes
  <2> QED BY <1>1, <1>7, <2>3, <2>4, <2>5 DEF saveShow, OtherTypes
<1>8. ASSUME NEW f \in Files, loadShow(f) PROVE OtherTypes'
  <2>1. requests' \in Nat
    BY <1>1, <1>8 DEF loadShow, Counted, OtherTypes
  <2>2. locked' \subseteq {"save", "load", "import"} /\ guiPC' \in {"clear", "idle", "crashed"}
    BY <1>1, <1>8 DEF loadShow, StartLoad, LoadOpens, LoadFails, LoadCrashes, OtherTypes
  <2> QED BY <1>1, <1>8, <2>1, <2>2 DEF loadShow, OtherTypes
<1>9. ASSUME NEW fs \in Imports, NEW pos \in Cells \cup {-1}, importShow(fs, pos) PROVE OtherTypes'
  <2>1. requests' \in Nat
    BY <1>1, <1>9 DEF importShow, OtherTypes
  <2>2. locked' \subseteq {"save", "load", "import"}
    BY <1>1, <1>9 DEF importShow, OtherTypes
  <2> QED BY <1>1, <1>9, <2>1, <2>2 DEF importShow, OtherTypes, gui
<1>10. ASSUME NEW f \in DropFrames, NEW pos \in Cells, Drop(f, pos) PROVE OtherTypes'
  <2>1. pos \in Nat /\ f \in Contents
    BY ConstantTypes
  <2>2. sources' \in Seq(Contents) /\ kept' \subseteq Entries
    BY <1>2, <1>10, <2>1 DEF Drop
  <2>3. view' \in [Positions -> Contents]
    BY <1>1, <1>10, <2>1 DEF Drop, OtherTypes
  <2>4. requests' \in Nat
    BY <1>1, <1>10 DEF Drop, OtherTypes
  <2> QED BY <1>1, <1>10, <2>2, <2>3, <2>4 DEF Drop, OtherTypes
<1>11. ASSUME MainLoadsFile PROVE OtherTypes'
  <2>1. argv' \in Seq(Files)
    BY <1>1, <1>11 DEF MainLoadsFile, OtherTypes
  <2>2. locked' \subseteq {"save", "load", "import"} /\ guiPC' \in {"clear", "main", "crashed"}
    BY <1>1, <1>11 DEF MainLoadsFile, StartLoad, LoadOpens, LoadFails, LoadCrashes, OtherTypes
  <2> QED BY <1>1, <1>11, <2>1, <2>2 DEF MainLoadsFile, OtherTypes
<1>12. ASSUME MainEntersLoop \/ ConnectGrid PROVE OtherTypes'
  <2>1. grids' \in Nat \ {0} /\ guiPC' = "idle"
    BY <1>1, <1>12 DEF MainEntersLoop, ConnectGrid, OtherTypes
  <2> QED BY <1>1, <1>12, <2>1 DEF MainEntersLoop, ConnectGrid, OtherTypes, workers
<1>13. ASSUME ReadSlot PROVE OtherTypes'
  <2>1. At(clearing.i) \in Contents
    BY <1>1, <1>3 DEF OtherTypes
  <2> QED BY <1>1, <1>13, <2>1 DEF ReadSlot, OtherTypes, workers
<1>14. ASSUME NullSlot PROVE OtherTypes'
  <2>1. sources' \in Seq(Contents) /\ kept' \subseteq Entries
    BY <1>1, <1>2, <1>14, ConstantTypes DEF NullSlot, OtherTypes
  <2> QED BY <1>1, <1>14, <2>1 DEF NullSlot, OtherTypes
<1>15. ASSUME TellGrids PROVE OtherTypes'
  <2>1. At(clearing.i) \in Contents
    BY <1>1, <1>3 DEF OtherTypes
  <2>2. view' \in [Positions -> Contents]
    BY <1>1, <1>15, <2>1 DEF TellGrids, OtherTypes
  <2>3. clearing' \in [i : Nat, op : Contents]
    BY <1>1, <1>15, ConstantTypes DEF TellGrids, OtherTypes
  <2> QED BY <1>1, <1>15, <2>2, <2>3 DEF TellGrids, OtherTypes, workers
<1>16. ASSUME ClearVector PROVE OtherTypes'
  <2>1. sources' \in Seq(Contents) /\ kept' \subseteq Entries
    BY <1>1, <1>16 DEF ClearVector, Store, OtherTypes
  <2>2. NotClearing \in [i : Nat, op : Contents]
    BY ConstantTypes DEF NotClearing
  <2> QED BY <1>1, <1>16, <2>1, <2>2 DEF ClearVector, OtherTypes
<1>17. ASSUME frameSourceChanged PROVE OtherTypes'
  <2>1. At(Head(guiQueue).n) \in Contents /\ guiQueue' \in Seq(GuiEvents)
    BY <1>3, <1>5, <1>17 DEF frameSourceChanged, GuiTakes
  <2>2. view' \in [Positions -> Contents]
    BY <1>1, <1>17, <2>1 DEF frameSourceChanged, OtherTypes
  <2> QED BY <1>1, <1>17, <2>1, <2>2 DEF frameSourceChanged, OtherTypes, workers
<1>18. ASSUME NewGrid PROVE OtherTypes'
  <2>1. \A p \in Positions : At(p) \in Contents
    BY <1>3, ShowAssumption DEF Positions
  <2>2. view' \in [Positions -> Contents]
    BY <1>1, <1>18, <2>1 DEF NewGrid, OtherTypes
  <2> QED BY <1>1, <1>18, <2>2 DEF NewGrid, OtherTypes, workers
<1>19. ASSUME EnoughGrids \/ savedOrLoaded PROVE OtherTypes'
  <2>1. guiQueue' \in Seq(GuiEvents)
    BY <1>5, <1>19 DEF EnoughGrids, savedOrLoaded, GuiTakes
  <2> QED BY <1>1, <1>19, <2>1 DEF EnoughGrids, savedOrLoaded, OtherTypes, workers
<1>20. ASSUME SaveSlot PROVE OtherTypes'
  <2> DEFINE e == [pos |-> saver.i, frame |-> At(saver.i)]
  <2>1. saver.i \in Nat /\ saver.image \subseteq Entries
    BY <1>1 DEF OtherTypes
  <2>2. At(saver.i) # Empty => e \in Entries
    BY <1>3, <2>1 DEF Contents, Entries
  <2> DEFINE image == IF At(saver.i) = Empty THEN saver.image ELSE saver.image \cup {e}
  <2>3. saver' = [saver EXCEPT !.i = saver.i + 1, !.image = image] /\ image \in SUBSET Entries
    BY <1>20, <2>1, <2>2 DEF SaveSlot
  <2> HIDE DEF e, image
  <2>4. saver' \in [pc : SaverPcs, i : Nat, image : SUBSET Entries]
    <3>1. saver \in [pc : SaverPcs, i : Nat, image : SUBSET Entries] /\ saver.i + 1 \in Nat
      BY <1>1, <2>1 DEF OtherTypes
    <3> QED BY <2>3, <3>1
  <2> QED BY <1>1, <1>20, <2>4 DEF SaveSlot, OtherTypes, gui
<1>21. ASSUME SaverFinished PROVE OtherTypes'
  <2>1. engineQueue' \in Seq({"Saved", "Loaded", "Imported"})
    BY <1>1, <1>21 DEF SaverFinished, OtherTypes
  <2> QED BY <1>1, <1>21, <2>1 DEF SaverFinished, OtherTypes, SaverPcs, gui
<1>22. ASSUME LoadSequence PROVE OtherTypes'
  <2> DEFINE item == Head(worker["load"].left)
  <2>1. worker["load"].left # <<>> /\ addFrameSource("load", item.pos, item.frame)
    BY <1>22 DEF LoadSequence
  <2>2. item \in Entries
    BY <1>1, <2>1 DEF WorkerTypes
  <2> HIDE DEF item
  <2>3. sources' \in Seq(Contents) /\ kept' \subseteq Entries
    BY <1>2, <2>1, <2>2, ConstantTypes DEF addFrameSource
  <2> QED BY <1>1, <1>22, <2>3 DEF LoadSequence, OtherTypes, gui
<1>23. ASSUME ImportFile PROVE OtherTypes'
  <2> DEFINE frame == Head(worker["import"].left)
             pos == IF worker["import"].pos < 0 THEN FirstFree ELSE worker["import"].pos
  <2>1. worker["import"].left # <<>>
    BY <1>23 DEF ImportFile
  <2>2. frame \in Contents
    BY <1>1, <2>1 DEF WorkerTypes
  <2>3. FirstFree \in Nat
    BY <1>1, FirstFreeType DEF OtherTypes
  <2>4. pos \in Nat
    BY <1>1, <2>3 DEF WorkerTypes
  <2>5. UNCHANGED <<sources, kept>> \/ addFrameSource("import", pos, frame)
    BY <1>23 DEF ImportFile
  <2> HIDE DEF pos, frame
  <2>6. sources' \in Seq(Contents) /\ kept' \subseteq Entries
    BY <1>1, <1>2, <2>2, <2>4, <2>5 DEF addFrameSource, OtherTypes
  <2> QED BY <1>1, <1>23, <2>6 DEF ImportFile, OtherTypes, gui
<1>24. ASSUME NEW w \in {"load", "import"}, WorkerStep(w) PROVE OtherTypes'
  <2>1. CASE EmitSize(w)
    <3>1. Resized(Len(sources)) \in GuiEvents
      BY <1>1 DEF Resized, GuiEvents, OtherTypes
    <3>2. guiQueue' \in Seq(GuiEvents)
      BY <1>4, <2>1, <3>1 DEF EmitSize
    <3> QED BY <1>1, <2>1, <3>2 DEF EmitSize, OtherTypes
  <2>2. CASE EmitChanged(w)
    <3>1. Changed(worker[w].pos) \in GuiEvents
      BY <1>1, <2>2 DEF Changed, GuiEvents, WorkerTypes, EmitChanged
    <3>2. guiQueue' \in Seq(GuiEvents)
      BY <1>1, <1>4, <2>2, <3>1 DEF EmitChanged, OtherTypes
    <3> QED BY <1>1, <2>2, <3>2 DEF EmitChanged, OtherTypes
  <2>3. CASE WorkerFinished(w)
    <3>1. Completion[w] \in {"Saved", "Loaded", "Imported"}
      BY DEF Completion
    <3>2. engineQueue' \in Seq({"Saved", "Loaded", "Imported"})
      BY <1>1, <2>3, <3>1 DEF WorkerFinished, OtherTypes
    <3> QED BY <1>1, <2>3, <3>2 DEF WorkerFinished, OtherTypes, gui
  <2> QED BY <1>24, <2>1, <2>2, <2>3 DEF WorkerStep
<1>25. ASSUME Saved \/ (\E w \in {"load", "import"} : Completed(w)) PROVE OtherTypes'
  <2>1. engineQueue' \in Seq({"Saved", "Loaded", "Imported"})
    BY <1>6, <1>25 DEF Saved, Completed, EngineTakes
  <2>2. \A type \in {"showSaved", "showLoaded"} : [type |-> type, n |-> 0] \in GuiEvents
    BY DEF GuiEvents
  <2>3. guiQueue' \in Seq(GuiEvents)
    BY <1>1, <1>4, <1>25, <2>2 DEF Saved, Completed, Told, OtherTypes
  <2> QED BY <1>1, <1>25, <2>1, <2>3 DEF Saved, Completed, OtherTypes, workers
<1>26. ASSUME Quit \/ ShutdownStep PROVE OtherTypes'
  BY <1>1, <1>26 DEF Quit, ShutdownStep, EngineLoopStops, AwaitSave, AwaitLoad, GuiUnchanged,
       ShutdownFrame, OtherTypes, workers
<1>27. ASSUME Waiting PROVE OtherTypes'
  BY <1>1, <1>27 DEF Waiting, OtherTypes, vars, workers, gui
<1> QED BY <1>7, <1>8, <1>9, <1>10, <1>11, <1>12, <1>13, <1>14, <1>15, <1>16, <1>17, <1>18,
           <1>19, <1>20, <1>21, <1>22, <1>23, <1>24, <1>25, <1>26, <1>27
        DEF Next, UserStep, GuiStep, SaverStep, LoaderStep, ImporterStep, EngineStep

LEMMA TypesKept == ASSUME TypeOK, [Next]_vars PROVE TypeOK'
<1>1. engineLoop' \in BOOLEAN /\ unsaved' \in BOOLEAN /\ marked' \in BOOLEAN
  BY FlagsKept
<1>2. CASE Next
  BY <1>1, <1>2, WorkerTypesKept, OtherTypesKept DEF TypeOK, WorkerTypes, OtherTypes, Pcs, SaverPcs
<1>3. CASE UNCHANGED vars
  BY <1>1, <1>3 DEF TypeOK, vars, workers, gui
<1> QED BY <1>2, <1>3
-----------------------------------------------------------------------------
(***************************************************************************)
(* The mutexes.                                                            *)
(***************************************************************************)
SameIdle == (Idle("load")' <=> Idle("load")) /\ (Idle("import")' <=> Idle("import"))

\* What a step does to the program counters of the workers.
LEMMA WorkerPcs ==
    ASSUME TypeOK
    PROVE  /\ \A w \in {"load", "import"} : \A pos, frame :
                 addFrameSource(w, pos, frame) /\ worker[w].pc = "next" => SameIdle
           /\ LoadSequence => SameIdle
           /\ ImportFile => SameIdle
           /\ \A w \in {"load", "import"} : EmitSize(w) \/ EmitChanged(w) => SameIdle
           /\ \A f, after : LocksOK /\ StartLoad(f, after) => SameIdle
<1>1. worker \in [{"load", "import"} ->
                    [pc : Pcs, left : Seq(Entries) \cup Seq(Contents), pos : Nat \cup {-1}]]
  BY DEF TypeOK, Pcs
<1>2. ASSUME NEW w \in {"load", "import"}, NEW pos, NEW frame, addFrameSource(w, pos, frame),
             worker[w].pc = "next"
      PROVE  SameIdle
  BY <1>1, <1>2 DEF addFrameSource, SameIdle, Idle
<1>3. LoadSequence => SameIdle
  BY <1>2 DEF LoadSequence
<1>4. ASSUME ImportFile PROVE SameIdle
  <2>1. CASE worker' = [worker EXCEPT !["import"].left = Tail(@)]
    BY <1>1, <2>1 DEF SameIdle, Idle
  <2> QED BY <1>2, <1>4, <2>1 DEF ImportFile
<1>5. ASSUME NEW w \in {"load", "import"}, EmitSize(w) \/ EmitChanged(w) PROVE SameIdle
  BY <1>1, <1>5 DEF EmitSize, EmitChanged, SameIdle, Idle
<1>6. ASSUME NEW f, NEW after, LocksOK, StartLoad(f, after) PROVE SameIdle
  <2>1. "load" \notin locked => Idle("load")
    BY <1>6 DEF LocksOK
  <2>2. CASE LoadOpens(f) \/ LoadFails(f, after)
    BY <1>1, <2>1, <2>2 DEF LoadOpens, LoadFails, Deleted, SameIdle, Idle
  <2>3. CASE UNCHANGED worker
    BY <2>3 DEF SameIdle, Idle
  <2> QED BY <1>6, <2>2, <2>3 DEF StartLoad, LoadCrashes
<1> QED BY <1>2, <1>3, <1>4, <1>5, <1>6

\* A mutex is taken and given back with its job.
LEMMA LocksKept ==
    ASSUME TypeOK, OneEach, LocksOK, [Next]_vars
    PROVE  OneEach' /\ LocksOK'
<1> DEFINE C == {"clear", "null", "tell"}
<1>1. /\ engineQueue \in Seq({"Saved", "Loaded", "Imported"}) /\ IsInjective(engineQueue)
      /\ worker \in [{"load", "import"} ->
                    [pc : Pcs, left : Seq(Entries) \cup Seq(Contents), pos : Nat \cup {-1}]]
  BY DEF TypeOK, OneEach, Pcs
<1>2. ASSUME locked' = locked, engineQueue' = engineQueue, SameIdle,
             saver'.pc = "writing" <=> saver.pc = "writing",
             guiPC' \in C <=> guiPC \in C, guiPC' = "waitLoad" <=> guiPC = "waitLoad"
      PROVE  OneEach' /\ LocksOK'
  BY <1>2 DEF OneEach, LocksOK, Queued, SameIdle
<1>3. ASSUME UNCHANGED worker PROVE SameIdle
  BY <1>3 DEF SameIdle, Idle
<1>4. ASSUME saveShow PROVE OneEach' /\ LocksOK'
  <2>1. guiPC = "idle" /\ engineQueue' = engineQueue /\ SameIdle
    BY <1>3, <1>4 DEF saveShow, UserMay
  <2>2. guiPC' \in {"idle", "crashed"}
    BY <1>4, <2>1 DEF saveShow, StartSave, SaveOpens, SaveFails, SaveCrashes
  <2>3. CASE SaveOpens
    <3>1. "save" \notin locked /\ locked' = locked \cup {"save"} /\ saver'.pc = "writing"
      BY <2>3 DEF SaveOpens
    <3> QED BY <2>1, <2>2, <3>1 DEF OneEach, LocksOK, Queued, SameIdle
  <2>4. CASE SaveFails
    <3>1. saver'.pc # "writing" /\ saver.pc # "writing" /\ locked' = locked
      BY <2>1, <2>4 DEF SaveFails, Deleted, TypeOK, LocksOK
    <3> QED BY <1>2, <2>1, <2>2, <3>1
  <2>5. CASE UNCHANGED <<locked, saver>>
    BY <1>2, <2>1, <2>2, <2>5
  <2> QED BY <1>4, <2>3, <2>4, <2>5 DEF saveShow, StartSave, SaveCrashes
<1>5. ASSUME NEW f, NEW after \in {"idle", "main"}, guiPC = after, StartLoad(f, after),
             saver' = saver, engineQueue' = engineQueue
      PROVE  OneEach' /\ LocksOK'
  <2>1. SameIdle
    BY <1>5, WorkerPcs
  <2>2. CASE "load" \notin locked /\ locked' = locked \cup {"load"} /\ guiPC' = "clear"
    BY <1>5, <2>1, <2>2 DEF OneEach, LocksOK, Queued, SameIdle
  <2>3. CASE locked' = locked /\ guiPC' \in {after, "crashed"}
    BY <1>2, <1>5, <2>1, <2>3
  <2> QED BY <1>5, <2>2, <2>3 DEF StartLoad, LoadOpens, LoadFails, LoadCrashes
<1>6. ASSUME NEW f \in Files, loadShow(f) PROVE OneEach' /\ LocksOK'
  BY <1>5, <1>6 DEF loadShow, UserMay
<1>7. ASSUME MainLoadsFile PROVE OneEach' /\ LocksOK'
  BY <1>5, <1>7 DEF MainLoadsFile
<1>8. ASSUME NEW fs \in Imports, NEW pos \in Cells \cup {-1}, importShow(fs, pos)
      PROVE  OneEach' /\ LocksOK'
  <2>1. guiPC = "idle" /\ guiPC' = guiPC /\ engineQueue' = engineQueue /\ saver' = saver
    BY <1>8 DEF importShow, UserMay, gui
  <2>2. CASE "import" \in locked
    BY <1>2, <1>3, <1>8, <2>1, <2>2 DEF importShow
  <2>3. CASE "import" \notin locked
    <3>1. /\ locked' = locked \cup {"import"}
          /\ worker' = [worker EXCEPT !["import"] = [pc |-> "next", left |-> fs, pos |-> pos]]
      BY <1>8, <2>3 DEF importShow
    <3>2. ~Idle("import")' /\ (Idle("load")' <=> Idle("load"))
      BY <1>1, <3>1 DEF Idle
    <3> QED BY <2>1, <2>3, <3>1, <3>2 DEF OneEach, LocksOK, Queued
  <2> QED BY <2>2, <2>3
<1>9. ASSUME ClearVector PROVE OneEach' /\ LocksOK'
  <2>1. /\ guiPC = "clear" /\ guiPC' \in {"main", "idle"}
        /\ locked' = locked /\ engineQueue' = engineQueue /\ saver' = saver
        /\ worker' = [worker EXCEPT !["load"].pc = "next"]
    BY <1>9 DEF ClearVector
  <2>2. ~Idle("load")' /\ (Idle("import")' <=> Idle("import"))
    BY <1>1, <2>1 DEF Idle
  <2> QED BY <2>1, <2>2 DEF OneEach, LocksOK, Queued
<1>10. ASSUME \/ MainEntersLoop \/ ReadSlot \/ NullSlot \/ TellGrids \/ frameSourceChanged
              \/ NewGrid \/ ConnectGrid \/ EnoughGrids \/ savedOrLoaded
       PROVE  OneEach' /\ LocksOK'
  <2>1. UNCHANGED <<locked, engineQueue, saver, worker>>
    BY <1>10 DEF MainEntersLoop, ReadSlot, NullSlot, TellGrids, frameSourceChanged, NewGrid,
         ConnectGrid, EnoughGrids, savedOrLoaded, workers
  <2>2. guiPC' \in C <=> guiPC \in C
    BY <1>10 DEF MainEntersLoop, ReadSlot, NullSlot, TellGrids, frameSourceChanged, NewGrid,
         ConnectGrid, EnoughGrids, savedOrLoaded, GuiTakes
  <2>3. guiPC' # "waitLoad" /\ guiPC # "waitLoad"
    BY <1>10 DEF MainEntersLoop, ReadSlot, NullSlot, TellGrids, frameSourceChanged, NewGrid,
         ConnectGrid, EnoughGrids, savedOrLoaded, GuiTakes
  <2> QED BY <1>2, <1>3, <2>1, <2>2, <2>3
<1>11. ASSUME \/ \E f \in DropFrames, pos \in Cells : Drop(f, pos)
              \/ LoadSequence \/ ImportFile
              \/ \E w \in {"load", "import"} : EmitSize(w) \/ EmitChanged(w)
       PROVE  OneEach' /\ LocksOK'
  <2>1. UNCHANGED <<locked, engineQueue, saver, guiPC>>
    BY <1>11 DEF Drop, LoadSequence, ImportFile, EmitSize, EmitChanged, gui
  <2>2. SameIdle
    BY <1>3, <1>11, WorkerPcs DEF Drop
  <2> QED BY <1>2, <2>1, <2>2
<1>12. ASSUME SaveSlot PROVE OneEach' /\ LocksOK'
  <2>1. saver'.pc = saver.pc
    BY <1>12 DEF SaveSlot, TypeOK
  <2>2. UNCHANGED <<locked, engineQueue, worker, guiPC>>
    BY <1>12 DEF SaveSlot, gui
  <2> QED BY <1>2, <1>3, <2>1, <2>2
<1>13. ASSUME SaverFinished PROVE OneEach' /\ LocksOK'
  <2>1. /\ saver.pc = "writing" /\ saver'.pc = "done" /\ engineQueue' = Append(engineQueue, "Saved")
        /\ UNCHANGED <<locked, worker, guiPC>>
    BY <1>13 DEF SaverFinished, TypeOK, gui
  <2>2. ~Queued("Saved")
    BY <2>1 DEF OneEach
  <2>3. /\ \A x : Queued(x)' <=> Queued(x) \/ x = "Saved"
        /\ IsInjective(engineQueue')
    BY <1>1, <2>1, <2>2, Posted DEF Queued
  <2>4. SameIdle
    BY <1>3, <2>1
  <2> QED BY <2>1, <2>3, <2>4 DEF OneEach, LocksOK, SameIdle
<1>14. ASSUME NEW w \in {"load", "import"}, WorkerFinished(w) PROVE OneEach' /\ LocksOK'
  <2>1. /\ worker[w].pc = "next" /\ worker' = [worker EXCEPT ![w] = [NoWorker EXCEPT !.pc = "done"]]
        /\ engineQueue' = Append(engineQueue, Completion[w])
        /\ UNCHANGED <<locked, saver, guiPC>>
    BY <1>14 DEF WorkerFinished, gui
  <2>2. /\ ~Idle(w) /\ Idle(w)'
        /\ \A v \in {"load", "import"} : v # w => (Idle(v)' <=> Idle(v))
    BY <1>1, <2>1 DEF Idle, NoWorker
  <2>3. ~Queued(Completion[w]) /\ Completion[w] \in {"Saved", "Loaded", "Imported"}
    BY <2>2 DEF OneEach, Completion
  <2>4. /\ \A x : Queued(x)' <=> Queued(x) \/ x = Completion[w]
        /\ IsInjective(engineQueue')
    BY <1>1, <2>1, <2>3, Posted DEF Queued
  <2>5. CASE w = "load"
    <3>1. Completion[w] = "Loaded"
      BY <2>5 DEF Completion
    <3> QED BY <2>1, <2>2, <2>4, <2>5, <3>1 DEF OneEach, LocksOK
  <2>6. CASE w = "import"
    <3>1. Completion[w] = "Imported"
      BY <2>6 DEF Completion
    <3> QED BY <2>1, <2>2, <2>4, <2>6, <3>1 DEF OneEach, LocksOK
  <2> QED BY <2>5, <2>6
<1>15. ASSUME NEW event, EngineTakes(event), engineQueue' = Tail(engineQueue)
       PROVE  /\ IsInjective(engineQueue') /\ Queued(event)
              /\ \A x : Queued(x)' <=> Queued(x) /\ x # event
  <2> DEFINE q == engineQueue
  <2>1. q # <<>> /\ Head(q) = event /\ q \in Seq({"Saved", "Loaded", "Imported"})
        /\ IsInjective(q) /\ engineQueue' = Tail(q)
    BY <1>1, <1>15 DEF EngineTakes
  <2>2. Queued(event)
    <3>1. q[1] = event /\ 1 \in 1..Len(q)
      BY <2>1
    <3> QED BY <3>1 DEF Queued, Contains
  <2> HIDE DEF q
  <2>3. /\ IsInjective(Tail(q))
        /\ \A x : Contains(Tail(q), x) <=> Contains(q, x) /\ x # event
    BY <2>1, Taken
  <2> QED BY <2>1, <2>2, <2>3 DEF Queued, q
<1>16. ASSUME Saved PROVE OneEach' /\ LocksOK'
  <2>1. EngineTakes("Saved") /\ engineQueue' = Tail(engineQueue) /\ locked' = locked \ {"save"}
        /\ UNCHANGED <<worker, saver, guiPC>>
    BY <1>16 DEF Saved, workers
  <2>2. SameIdle
    BY <1>3, <2>1
  <2> QED BY <1>15, <2>1, <2>2 DEF OneEach, LocksOK, SameIdle
<1>17. ASSUME NEW w \in {"load", "import"}, Completed(w) PROVE OneEach' /\ LocksOK'
  <2>1. EngineTakes(Completion[w]) /\ engineQueue' = Tail(engineQueue) /\ locked' = locked \ {w}
        /\ UNCHANGED <<worker, saver, guiPC>>
    BY <1>17 DEF Completed, workers
  <2>2. SameIdle
    BY <1>3, <2>1
  <2>3. /\ IsInjective(engineQueue') /\ Queued(Completion[w])
        /\ \A x : Queued(x)' <=> Queued(x) /\ x # Completion[w]
    BY <1>15, <2>1
  <2>4. CASE w = "load"
    <3>1. Completion[w] = "Loaded"
      BY <2>4 DEF Completion
    <3> QED BY <2>1, <2>2, <2>3, <2>4, <3>1 DEF OneEach, LocksOK, SameIdle
  <2>5. CASE w = "import"
    <3>1. Completion[w] = "Imported"
      BY <2>5 DEF Completion
    <3> QED BY <2>1, <2>2, <2>3, <2>5, <3>1 DEF OneEach, LocksOK, SameIdle
  <2> QED BY <2>4, <2>5
<1>18. ASSUME Quit \/ EngineLoopStops PROVE OneEach' /\ LocksOK'
  <2>1. UNCHANGED <<locked, engineQueue, saver, worker>>
    BY <1>18 DEF Quit, EngineLoopStops, ShutdownFrame, workers
  <2>2. guiPC \in {"idle", "quit"} /\ guiPC' \in {"quit", "waitSave"}
    BY <1>18 DEF Quit, EngineLoopStops
  <2> QED BY <1>2, <1>3, <2>1, <2>2
<1>19. ASSUME AwaitSave PROVE OneEach' /\ LocksOK'
  <2>1. guiPC = "waitSave" /\ "save" \notin locked /\ locked' = locked \cup {"save"}
        /\ guiPC' = "waitLoad" /\ UNCHANGED <<engineQueue, saver, worker>>
    BY <1>19 DEF AwaitSave, ShutdownFrame, workers
  <2>2. SameIdle
    BY <1>3, <2>1
  <2> QED BY <2>1, <2>2 DEF OneEach, LocksOK, Queued, SameIdle
<1>20. ASSUME AwaitLoad PROVE OneEach' /\ LocksOK'
  <2>1. guiPC = "waitLoad" /\ locked' = locked \ {"save"}
        /\ guiPC' = "gone" /\ UNCHANGED <<engineQueue, saver, worker>>
    BY <1>20 DEF AwaitLoad, ShutdownFrame, workers
  <2>2. SameIdle
    BY <1>3, <2>1
  <2> QED BY <2>1, <2>2 DEF OneEach, LocksOK, Queued, SameIdle
<1>21. ASSUME UNCHANGED vars PROVE OneEach' /\ LocksOK'
  <2>1. UNCHANGED <<locked, engineQueue, saver, worker, guiPC>>
    BY <1>21 DEF vars, workers, gui
  <2> QED BY <1>2, <1>3, <2>1
<1> QED BY <1>4, <1>6, <1>7, <1>8, <1>9, <1>10, <1>11, <1>12, <1>13, <1>14, <1>16, <1>17,
           <1>18, <1>19, <1>20, <1>21
        DEF Next, UserStep, GuiStep, SaverStep, LoaderStep, ImporterStep, WorkerStep,
            EngineStep, ShutdownStep, Waiting

\* A thread is deleted only by who has its mutex.
LEMMA ThreadsKept ==
    ASSUME IInv, [Next]_vars
    PROVE  ThreadsOK'
<1>1. /\ TypeOK /\ OneEach /\ LocksOK /\ ThreadsOK
      /\ engineQueue \in Seq({"Saved", "Loaded", "Imported"}) /\ IsInjective(engineQueue)
      /\ worker \in [{"load", "import"} ->
                    [pc : Pcs, left : Seq(Entries) \cup Seq(Contents), pos : Nat \cup {-1}]]
  BY DEF IInv, TypeOK, OneEach, Pcs
<1>2. ASSUME UNCHANGED <<saver, worker>>, \A x : Queued(x)' => Queued(x) PROVE ThreadsOK'
  BY <1>1, <1>2 DEF ThreadsOK
<1>3. ASSUME saveShow PROVE ThreadsOK'
  <2>1. guiPC = "idle" /\ UNCHANGED <<worker, engineQueue>>
    BY <1>3 DEF saveShow, UserMay
  <2>2. CASE "save" \notin locked
    BY <1>1, <2>1, <2>2 DEF LocksOK, ThreadsOK, Queued
  <2>3. CASE "save" \in locked
    BY <1>1, <1>3, <2>1, <2>3 DEF saveShow, StartSave, SaveOpens, SaveFails, SaveCrashes, ThreadsOK, Queued
  <2> QED BY <2>2, <2>3
<1>4. ASSUME MainLoadsFile \/ (\E f \in Files : loadShow(f)) PROVE ThreadsOK'
  <2>1. UNCHANGED <<saver, engineQueue>> /\ \E f, after : StartLoad(f, after)
    BY <1>4 DEF MainLoadsFile, loadShow
  <2>2. worker'["import"] = worker["import"]
    BY <1>1, <2>1 DEF StartLoad, LoadOpens, LoadFails, LoadCrashes
  <2>3. CASE "load" \notin locked
    BY <1>1, <2>1, <2>2, <2>3 DEF LocksOK, ThreadsOK, Queued
  <2>4. CASE "load" \in locked
    <3>1. worker' = worker
      BY <2>1, <2>4 DEF StartLoad, LoadOpens, LoadFails, LoadCrashes
    <3> QED BY <1>2, <2>1, <3>1 DEF Queued
  <2> QED BY <2>3, <2>4
<1>5. ASSUME NEW fs \in Imports, NEW pos \in Cells \cup {-1}, importShow(fs, pos) PROVE ThreadsOK'
  <2>1. UNCHANGED <<saver, engineQueue>> /\ worker'["load"] = worker["load"]
    BY <1>1, <1>5 DEF importShow
  <2>2. "import" \in locked => worker' = worker
    BY <1>5 DEF importShow
  <2> QED BY <1>1, <2>1, <2>2 DEF LocksOK, ThreadsOK, Queued
<1>6. ASSUME ClearVector PROVE ThreadsOK'
  <2>1. /\ guiPC = "clear" /\ UNCHANGED <<saver, engineQueue>> /\ worker'["import"] = worker["import"]
    BY <1>1, <1>6 DEF ClearVector
  <2> QED BY <1>1, <2>1 DEF OneEach, ThreadsOK, Queued
<1>7. ASSUME NEW w \in {"load", "import"}, ~Idle(w), UNCHANGED <<saver, engineQueue>>,
             \A v \in {"load", "import"} : v # w => worker'[v] = worker[v]
      PROVE  ThreadsOK'
  BY <1>1, <1>7 DEF ThreadsOK, Queued, OneEach
<1>8. ASSUME NEW w \in {"load", "import"}, EmitSize(w) \/ EmitChanged(w) PROVE ThreadsOK'
  <2>1. /\ ~Idle(w) /\ UNCHANGED <<saver, engineQueue>>
        /\ \A v \in {"load", "import"} : v # w => worker'[v] = worker[v]
    BY <1>1, <1>8 DEF EmitSize, EmitChanged, Idle
  <2> QED BY <1>7, <2>1
<1>9. ASSUME LoadSequence PROVE ThreadsOK'
  <2>1. /\ ~Idle("load") /\ UNCHANGED <<saver, engineQueue>>
        /\ \A v \in {"load", "import"} : v # "load" => worker'[v] = worker[v]
    BY <1>1, <1>9 DEF LoadSequence, addFrameSource, Idle
  <2> QED BY <1>7, <2>1
<1>10. ASSUME ImportFile PROVE ThreadsOK'
  <2>1. /\ ~Idle("import") /\ UNCHANGED <<saver, engineQueue>>
        /\ \A v \in {"load", "import"} : v # "import" => worker'[v] = worker[v]
    BY <1>1, <1>10 DEF ImportFile, addFrameSource, Idle
  <2> QED BY <1>7, <2>1
<1>11. ASSUME SaveSlot PROVE ThreadsOK'
  <2>1. saver.pc = "writing" /\ UNCHANGED <<worker, engineQueue>>
    BY <1>11 DEF SaveSlot
  <2> QED BY <1>1, <2>1 DEF OneEach, ThreadsOK, Queued
<1>12. ASSUME SaverFinished PROVE ThreadsOK'
  <2>1. saver'.pc = "done" /\ worker' = worker /\ engineQueue' = Append(engineQueue, "Saved")
    BY <1>1, <1>12 DEF SaverFinished, TypeOK
  <2>2. \A x : Queued(x)' <=> Queued(x) \/ x = "Saved"
    BY <1>1, <2>1, Posted DEF Queued
  <2> QED BY <1>1, <2>1, <2>2 DEF ThreadsOK
<1>13. ASSUME NEW w \in {"load", "import"}, WorkerFinished(w) PROVE ThreadsOK'
  <2>1. /\ worker' = [worker EXCEPT ![w] = [NoWorker EXCEPT !.pc = "done"]]
        /\ saver' = saver /\ engineQueue' = Append(engineQueue, Completion[w])
    BY <1>13 DEF WorkerFinished
  <2>2. /\ worker'[w].pc = "done"
        /\ \A v \in {"load", "import"} : v # w => worker'[v] = worker[v]
    BY <1>1, <2>1 DEF NoWorker
  <2>3. Completion[w] \in {"Saved", "Loaded", "Imported"}
    BY DEF Completion
  <2>4. \A x : Contains(Append(engineQueue, Completion[w]), x) <=> Contains(engineQueue, x) \/ x = Completion[w]
    BY <1>1, <2>3, Posted
  <2>5. \A x : Queued(x)' <=> Queued(x) \/ x = Completion[w]
    BY <2>1, <2>4 DEF Queued
  <2> QED BY <1>1, <2>1, <2>2, <2>5 DEF ThreadsOK, Completion
<1>14. ASSUME Saved \/ \E w \in {"load", "import"} : Completed(w) PROVE ThreadsOK'
  <2>1. UNCHANGED <<saver, worker>> /\ engineQueue # <<>> /\ engineQueue' = Tail(engineQueue)
    BY <1>14 DEF Saved, Completed, EngineTakes, workers
  <2>2. \A x : Queued(x)' => Queued(x)
    BY <1>1, <2>1, Taken DEF Queued
  <2> QED BY <1>2, <2>1, <2>2
<1>15. ASSUME \/ \E f \in DropFrames, pos \in Cells : Drop(f, pos)
              \/ MainEntersLoop \/ ReadSlot \/ NullSlot \/ TellGrids \/ frameSourceChanged
              \/ NewGrid \/ ConnectGrid \/ EnoughGrids \/ savedOrLoaded
              \/ Quit \/ ShutdownStep \/ UNCHANGED vars
       PROVE  ThreadsOK'
  <2>1. UNCHANGED <<saver, worker, engineQueue>>
    BY <1>15 DEF Drop, MainEntersLoop, ReadSlot, NullSlot, TellGrids, frameSourceChanged, NewGrid,
         ConnectGrid, EnoughGrids, savedOrLoaded, Quit, ShutdownStep, EngineLoopStops, AwaitSave,
         AwaitLoad, ShutdownFrame, vars, workers
  <2> QED BY <1>2, <2>1 DEF Queued
<1> QED BY <1>3, <1>4, <1>5, <1>6, <1>8, <1>9, <1>10, <1>11, <1>12, <1>13, <1>14, <1>15
        DEF Next, UserStep, GuiStep, SaverStep, LoaderStep, ImporterStep, WorkerStep,
            EngineStep, Waiting
-----------------------------------------------------------------------------
(***************************************************************************)
(* What is saved.                                                          *)
(***************************************************************************)
LEMMA SaveKept ==
    ASSUME IInv, [Next]_vars
    PROVE  SaveOK'
<1>1. TypeOK /\ OneEach /\ LocksOK /\ SaveOK /\ sources \in Seq(Contents)
  BY DEF IInv, TypeOK
<1>2. ASSUME UNCHANGED <<saver, kept, sources>>, Queued("Saved")' => Queued("Saved")
      PROVE  SaveOK'
  BY <1>1, <1>2 DEF SaveOK
<1>3. ASSUME NEW new, Store(new), saver' = saver, engineQueue' = engineQueue
      PROVE  SaveOK'
  BY <1>1, <1>3 DEF SaveOK, Store, Queued
<1>4. ASSUME saveShow PROVE SaveOK'
  <2>1. guiPC = "idle" /\ engineQueue' = engineQueue /\ sources' = sources
    BY <1>4 DEF saveShow, UserMay
  <2>2. CASE SaveOpens
    <3>1. ~Queued("Saved")'
      BY <1>1, <2>1, <2>2 DEF SaveOpens, LocksOK, Queued
    <3>2. saver'.pc = "writing" /\ saver'.i = 0 /\ kept' = ImageOf(sources)
      BY <2>2 DEF SaveOpens
    <3>3. \A x \in ImageOf(sources) : ~(x.pos < 0)
      BY <1>1, Images
    <3> QED BY <2>1, <3>1, <3>2, <3>3 DEF SaveOK
  <2>3. CASE SaveFails
    <3>1. saver'.pc # "writing" /\ "save" \notin locked
      BY <1>1, <2>3 DEF SaveFails, Deleted, TypeOK
    <3>2. ~Queued("Saved")'
      BY <1>1, <2>1, <3>1 DEF LocksOK, Queued
    <3> QED BY <3>1, <3>2 DEF SaveOK
  <2>4. CASE UNCHANGED <<saver, kept>>
    BY <1>2, <2>1, <2>4 DEF Queued
  <2> QED BY <1>4, <2>2, <2>3, <2>4 DEF saveShow, StartSave, SaveCrashes
<1>5. ASSUME NEW f \in DropFrames, NEW pos \in Cells, Drop(f, pos) PROVE SaveOK'
  BY <1>3, <1>5 DEF Drop
<1>6. ASSUME NullSlot \/ ClearVector PROVE SaveOK'
  BY <1>3, <1>6 DEF NullSlot, ClearVector
<1>7. ASSUME LoadSequence \/ ImportFile PROVE SaveOK'
  BY <1>2, <1>3, <1>7 DEF LoadSequence, ImportFile, addFrameSource, Queued
<1>8. ASSUME SaveSlot PROVE SaveOK'
  <2> DEFINE e == [pos |-> saver.i, frame |-> At(saver.i)]
  <2>1. /\ saver.pc = "writing" /\ saver' = [saver EXCEPT !.i = saver.i + 1,
                 !.image = IF At(saver.i) = Empty THEN saver.image ELSE saver.image \cup {e}]
        /\ UNCHANGED <<sources, kept, engineQueue>>
    BY <1>8 DEF SaveSlot
  <2>2. saver.i \in Nat
    BY <1>1 DEF TypeOK
  <2> DEFINE image == IF At(saver.i) = Empty THEN saver.image ELSE saver.image \cup {e}
  <2>3. ASSUME NEW x \in kept, x.pos < saver.i + 1 PROVE x \in image
    <3>1. x \in ImageOf(sources) /\ (x.pos < saver.i => x \in saver.image)
      BY <1>1, <2>1 DEF SaveOK
    <3>2. /\ x.pos \in Nat /\ Slot(sources, x.pos) = x.frame /\ x.frame # Empty
          /\ x = [pos |-> x.pos, frame |-> x.frame]
      BY <1>1, <3>1, Images
    <3>3. CASE x.pos = saver.i
      <4>1. At(saver.i) = x.frame
        BY <3>2, <3>3 DEF At, Slot
      <4> QED BY <3>2, <3>3, <4>1
    <3>4. CASE x.pos # saver.i
      <4>1. x.pos < saver.i
        BY <2>2, <2>3, <3>2, <3>4
      <4> QED BY <3>1, <4>1
    <3> QED BY <3>3, <3>4
  <2>4. saver' = [saver EXCEPT !.i = saver.i + 1, !.image = image]
    BY <2>1
  <2> HIDE DEF e, image
  <2>5. saver'.i = saver.i + 1 /\ saver'.image = image
    BY <1>1, <2>4 DEF TypeOK
  <2>6. ~Queued("Saved")'
    BY <1>1, <2>1 DEF OneEach, Queued
  <2> QED BY <1>1, <2>1, <2>3, <2>5, <2>6 DEF SaveOK
<1>9. ASSUME SaverFinished PROVE SaveOK'
  <2>1. /\ saver.pc = "writing" /\ saver.i >= Len(sources)
        /\ saver' = [saver EXCEPT !.pc = "done"] /\ UNCHANGED <<sources, kept>>
    BY <1>9 DEF SaverFinished
  <2>2. saver'.pc = "done" /\ saver'.image = saver.image /\ saver.i \in Nat
    BY <1>1, <2>1 DEF TypeOK
  <2>3. \A x \in kept : x \in ImageOf(sources) /\ (x.pos < saver.i => x \in saver.image)
    BY <1>1, <2>1 DEF SaveOK
  <2>4. \A x \in ImageOf(sources) : x.pos \in Nat /\ x.pos < Len(sources)
    BY <1>1, Images
  <2>5. \A x \in ImageOf(sources) : x.pos < saver.i
    BY <1>1, <2>1, <2>2, <2>4
  <2>6. kept \subseteq saver.image
    BY <2>3, <2>5
  <2> QED BY <2>1, <2>2, <2>6 DEF SaveOK
<1>10. ASSUME \/ \E f \in Files : loadShow(f)
              \/ \E fs \in Imports, pos \in Cells \cup {-1} : importShow(fs, pos)
              \/ MainLoadsFile \/ MainEntersLoop \/ ReadSlot \/ TellGrids
              \/ frameSourceChanged \/ NewGrid \/ ConnectGrid \/ EnoughGrids \/ savedOrLoaded
              \/ \E w \in {"load", "import"} : EmitSize(w) \/ EmitChanged(w)
              \/ Quit \/ ShutdownStep \/ UNCHANGED vars
       PROVE  SaveOK'
  <2>1. UNCHANGED <<saver, kept, sources, engineQueue>>
    BY <1>10 DEF loadShow, importShow, MainLoadsFile, MainEntersLoop, ReadSlot, TellGrids,
         frameSourceChanged, NewGrid, ConnectGrid, EnoughGrids, savedOrLoaded, EmitSize, EmitChanged,
         Quit, ShutdownStep, EngineLoopStops, AwaitSave, AwaitLoad, ShutdownFrame, vars, workers
  <2> QED BY <1>2, <2>1 DEF Queued
<1>11. ASSUME NEW w \in {"load", "import"}, WorkerFinished(w) PROVE SaveOK'
  <2>1. UNCHANGED <<saver, kept, sources>> /\ engineQueue' = Append(engineQueue, Completion[w])
    BY <1>11 DEF WorkerFinished
  <2>2. Completion[w] \in {"Loaded", "Imported"}
    BY DEF Completion
  <2>3. engineQueue \in Seq({"Saved", "Loaded", "Imported"})
    BY <1>1 DEF TypeOK
  <2>4. Queued("Saved")' <=> Queued("Saved")
    BY <2>1, <2>2, <2>3, Posted DEF Queued
  <2> QED BY <1>2, <2>1, <2>4
<1>12. ASSUME Saved \/ \E w \in {"load", "import"} : Completed(w) PROVE SaveOK'
  <2>1. UNCHANGED <<saver, kept, sources>> /\ engineQueue # <<>> /\ engineQueue' = Tail(engineQueue)
    BY <1>12 DEF Saved, Completed, EngineTakes, workers
  <2>2. engineQueue \in Seq({"Saved", "Loaded", "Imported"}) /\ IsInjective(engineQueue)
    BY <1>1 DEF TypeOK, OneEach
  <2>3. Queued("Saved")' => Queued("Saved")
    BY <2>1, <2>2, Taken DEF Queued
  <2> QED BY <1>2, <2>1, <2>3
<1> QED BY <1>4, <1>5, <1>6, <1>7, <1>8, <1>9, <1>10, <1>11, <1>12
        DEF Next, UserStep, GuiStep, SaverStep, LoaderStep, ImporterStep, WorkerStep,
            EngineStep, Waiting
-----------------------------------------------------------------------------
(***************************************************************************)
(* The flag of the main window.                                            *)
(***************************************************************************)
LEMMA MarkKept ==
    ASSUME IInv, [Next]_vars
    PROVE  MarkOK'
<1> DEFINE C == {"clear", "null", "tell"}
           Ends == {"showSaved", "showLoaded"}
           Fewer == /\ marked' => marked
                    /\ guiPC' = "main" => requests' = 0
                    /\ requests' = 0 => requests = 0
<1>1. /\ TypeOK /\ OneEach /\ LocksOK /\ MarkOK
      /\ guiQueue \in Seq(GuiEvents) /\ requests \in Nat
      /\ engineQueue \in Seq({"Saved", "Loaded", "Imported"}) /\ IsInjective(engineQueue)
      /\ worker \in [{"load", "import"} ->
                    [pc : Pcs, left : Seq(Entries) \cup Seq(Contents), pos : Nat \cup {-1}]]
  BY DEF IInv, TypeOK, OneEach, Pcs
<1>2. ASSUME Fewer, Calm => Calm', unsaved => unsaved' PROVE MarkOK'
  BY <1>1, <1>2 DEF MarkOK
<1>3. ASSUME Fewer, ~Calm PROVE MarkOK'
  BY <1>1, <1>3 DEF MarkOK
<1>4. ASSUME saver'.pc = "writing" => saver.pc = "writing", engineQueue' = engineQueue, guiPC' \in C => guiPC \in C,
             Idle("load")' <=> Idle("load"),
             \A e \in Range(guiQueue') : e \in Range(guiQueue) \/ e.type \notin Ends
      PROVE  Calm => Calm'
  BY <1>4 DEF Calm, Queued
<1>5. ASSUME UNCHANGED window, UNCHANGED requests, guiPC' = "main" => guiPC = "main" PROVE Fewer /\ (unsaved => unsaved')
  <2>1. marked' = marked /\ unsaved' = unsaved
    BY <1>5 DEF window
  <2>2. (marked' => marked) /\ (unsaved => unsaved')
    BY <2>1, Zenon
  <2> QED BY <1>1, <1>5, <2>2 DEF MarkOK
<1>6. ASSUME saveShow PROVE MarkOK'
  <2>1. requests' \in {requests, requests + 1} /\ guiPC = "idle"
        /\ UNCHANGED <<guiQueue, engineQueue, worker, unsaved>>
    BY <1>6 DEF saveShow, UserMay, Counted
  <2>2. (requests' = 0 => requests = 0) /\ guiPC' \in {"idle", "crashed"}
    BY <1>1, <1>6, <2>1 DEF saveShow, StartSave, SaveOpens, SaveFails, SaveCrashes
  <2>3. ASSUME ~marked' PROVE MarkOK'
    BY <2>1, <2>2, <2>3 DEF MarkOK
  <2>4. CASE marked' = FALSE
    <3>1. ~marked'
      BY <2>4, Zenon
    <3> QED BY <2>3, <3>1
  <2>5. CASE marked' = marked /\ (saver'.pc = "writing" => saver.pc = "writing")
    <3>1. (marked' => marked) /\ (unsaved => unsaved')
      BY <2>1, <2>5, Zenon
    <3>2. Calm => Calm'
      BY <1>4, <2>1, <2>2, <2>5 DEF Idle
    <3> QED BY <1>2, <2>1, <2>2, <3>1, <3>2
  <2>6. SaveFails => saver'.pc # "writing"
    BY <1>1 DEF SaveFails, Deleted, TypeOK
  <2> QED BY <1>6, <2>4, <2>5, <2>6 DEF saveShow, StartSave, SaveOpens, SaveFails, SaveCrashes
<1>7. ASSUME NEW f \in Files, loadShow(f) PROVE MarkOK'
  <2>1. /\ requests' \in {requests, requests + 1} /\ StartLoad(f, "idle") /\ guiPC = "idle"
        /\ UNCHANGED <<saver, guiQueue, engineQueue, unsaved>>
    BY <1>7 DEF loadShow, UserMay, Counted
  <2>2. requests' = 0 => requests = 0
    BY <1>1, <2>1
  <2>3. (marked' => marked /\ guiPC' # "clear") /\ (unsaved => unsaved')
    <3>1. marked' = (marked /\ guiPC' # "clear") /\ unsaved' = unsaved
      BY <1>7, Zenon DEF loadShow
    <3>2. marked' => marked /\ guiPC' # "clear"
      BY <3>1, Zenon
    <3>3. unsaved => unsaved'
      BY <3>1, Zenon
    <3> QED BY <3>2, <3>3
  <2>4. CASE guiPC' = "clear"
    BY <2>2, <2>3, <2>4 DEF MarkOK
  <2>5. CASE guiPC' \in {"idle", "crashed"}
    <3>1. SameIdle
      BY <1>1, <2>1, WorkerPcs
    <3>2. Calm => Calm'
      BY <1>4, <2>1, <2>5, <3>1 DEF SameIdle
    <3> QED BY <1>2, <2>2, <2>3, <2>5, <3>2
  <2> QED BY <2>1, <2>4, <2>5 DEF StartLoad, LoadOpens, LoadFails, LoadCrashes
<1>8. ASSUME NEW fs \in Imports, NEW pos \in Cells \cup {-1}, importShow(fs, pos) PROVE MarkOK'
  <2>1. /\ requests' = requests + 1 /\ guiPC = "idle"
        /\ UNCHANGED <<saver, guiQueue, engineQueue, guiPC>>
    BY <1>8 DEF importShow, UserMay, gui
  <2>2. requests' # 0
    BY <1>1, <2>1
  <2>3. /\ marked' => marked \/ (pos < 0 /\ Undisturbed)
        /\ unsaved \/ pos < 0 => unsaved'
    BY <1>8, Zenon DEF importShow
  <2>4. Undisturbed => Calm
    <3>1. Range(guiQueue) = {guiQueue[i] : i \in DOMAIN guiQueue}
      BY DEF Range
    <3> QED BY <1>1, <2>1, <3>1 DEF Undisturbed, Calm, LocksOK
  <2>5. Idle("load")' <=> Idle("load")
    BY <1>1, <1>8 DEF importShow, Idle
  <2>6. Calm => Calm'
    BY <1>4, <2>1, <2>5
  <2> QED BY <1>1, <2>1, <2>2, <2>3, <2>4, <2>6 DEF MarkOK
<1>9. ASSUME MainLoadsFile PROVE MarkOK'
  <2>1. guiPC = "main" /\ UNCHANGED window /\ UNCHANGED requests
    BY <1>9 DEF MainLoadsFile
  <2>2. Fewer
    BY <1>5, <2>1
  <2> QED BY <1>1, <2>1, <2>2 DEF MarkOK
<1>10. ASSUME \/ MainEntersLoop \/ ReadSlot \/ NullSlot \/ TellGrids \/ NewGrid \/ ConnectGrid
              \/ frameSourceChanged \/ EnoughGrids \/ Quit \/ ShutdownStep \/ UNCHANGED vars
       PROVE  MarkOK'
  <2>1. UNCHANGED <<saver, engineQueue, worker, unsaved, marked, requests>>
    BY <1>10 DEF MainEntersLoop, ReadSlot, NullSlot, TellGrids, NewGrid, ConnectGrid,
         frameSourceChanged, EnoughGrids, Quit, ShutdownStep, EngineLoopStops, AwaitSave, AwaitLoad,
         ShutdownFrame, vars, workers, window
  <2>2. (guiPC' \in C => guiPC \in C) /\ (guiPC' = "main" => guiPC = "main")
    BY <1>10 DEF MainEntersLoop, ReadSlot, NullSlot, TellGrids, NewGrid, ConnectGrid,
         frameSourceChanged, EnoughGrids, Quit, ShutdownStep, EngineLoopStops, AwaitSave, AwaitLoad,
         vars, gui
  <2>3. guiQueue' = guiQueue \/ (guiQueue # <<>> /\ guiQueue' = Tail(guiQueue))
    BY <1>10 DEF MainEntersLoop, ReadSlot, NullSlot, TellGrids, NewGrid, ConnectGrid,
         frameSourceChanged, EnoughGrids, Quit, ShutdownStep, EngineLoopStops, AwaitSave, AwaitLoad,
         GuiUnchanged, GuiTakes, vars, gui
  <2>4. Range(guiQueue') \subseteq Range(guiQueue)
    <3> DEFINE q == guiQueue
    <3>1. q \in Seq(GuiEvents)
      BY <1>1
    <3> HIDE DEF q
    <3>2. q # <<>> => Range(Tail(q)) \subseteq Range(q)
      BY <3>1, Taken
    <3> QED BY <2>3, <3>2 DEF q
  <2>5. Calm => Calm'
    BY <1>4, <2>1, <2>2, <2>4 DEF Idle
  <2>6. Fewer /\ (unsaved => unsaved')
    BY <1>5, <2>1, <2>2 DEF window
  <2> QED BY <1>2, <2>5, <2>6
<1>11. ASSUME NEW f \in DropFrames, NEW pos \in Cells, Drop(f, pos) PROVE MarkOK'
  <2>1. /\ requests' = requests + 1 /\ guiPC = "idle"
        /\ UNCHANGED <<saver, guiQueue, engineQueue, guiPC, worker, unsaved, marked>>
    BY <1>11 DEF Drop, UserMay, window
  <2>2. requests' # 0
    BY <1>1, <2>1
  <2>3. (marked' => marked) /\ (unsaved => unsaved')
    BY <2>1, Zenon
  <2>4. Calm => Calm'
    BY <1>4, <2>1 DEF Idle
  <2> QED BY <1>2, <2>1, <2>2, <2>3, <2>4
<1>12. ASSUME \/ ClearVector \/ savedOrLoaded \/ SaverStep \/ LoadSequence
              \/ WorkerFinished("load") \/ Saved \/ Completed("load")
       PROVE  MarkOK'
  <2>1. (marked' => marked) /\ (requests' = 0 => requests = 0)
    <3>1. marked' = marked /\ requests' = requests
      BY <1>12 DEF ClearVector, savedOrLoaded, SaverStep, SaveSlot, SaverFinished, LoadSequence,
           WorkerFinished, Saved, Completed, window
    <3>2. marked' => marked
      BY <3>1, Zenon
    <3> QED BY <3>1, <3>2
  <2>2. guiPC' = "main" => requests' = 0
    BY <1>1, <1>12 DEF ClearVector, savedOrLoaded, SaverStep, SaveSlot, SaverFinished, LoadSequence,
         WorkerFinished, Saved, Completed, MarkOK, gui
  <2>3. CASE savedOrLoaded
    <3> DEFINE q == guiQueue
    <3>1. q \in Seq(GuiEvents) /\ q # <<>> /\ Head(q).type \in Ends
      BY <1>1, <2>3 DEF savedOrLoaded, GuiTakes
    <3> HIDE DEF q
    <3>2. Head(q) \in Range(q)
      BY <3>1, Taken
    <3>3. ~Calm
      BY <3>1, <3>2 DEF Calm, q
    <3> QED BY <1>3, <2>1, <2>2, <3>3
  <2>4. CASE Saved \/ Completed("load")
    <3>1. engineQueue # <<>> /\ Head(engineQueue) \in {"Saved", "Loaded"}
      BY <2>4 DEF Saved, Completed, EngineTakes, Completion
    <3>2. Queued("Saved") \/ Queued("Loaded")
      <4>1. 1 \in 1..Len(engineQueue) /\ engineQueue[1] = Head(engineQueue)
        BY <1>1, <3>1
      <4> QED BY <3>1, <4>1 DEF Queued, Contains
    <3> QED BY <1>3, <2>1, <2>2, <3>2 DEF Calm
  <2>5. CASE ClearVector \/ SaverStep \/ LoadSequence \/ WorkerFinished("load")
    <3>1. ~Calm
      BY <2>5 DEF ClearVector, SaverStep, SaveSlot, SaverFinished, LoadSequence, WorkerFinished,
           Calm, Idle
    <3> QED BY <1>3, <2>1, <2>2, <3>1
  <2> QED BY <1>12, <2>3, <2>4, <2>5
<1>13. ASSUME ImportFile \/ \E w \in {"load", "import"} : EmitSize(w) \/ EmitChanged(w)
       PROVE  MarkOK'
  <2>1. UNCHANGED <<saver, engineQueue, guiPC, requests>> /\ UNCHANGED window
    BY <1>13 DEF ImportFile, EmitSize, EmitChanged, gui
  <2>2. SameIdle
    BY <1>1, <1>13, WorkerPcs
  <2>3. \A e \in Range(guiQueue') : e \in Range(guiQueue) \/ e.type \notin Ends
    <3>1. CASE guiQueue' = guiQueue
      BY <3>1
    <3>2. ASSUME NEW e \in GuiEvents, e.type \notin Ends, guiQueue' = Append(guiQueue, e)
          PROVE  \A x \in Range(guiQueue') : x \in Range(guiQueue) \/ x.type \notin Ends
      BY <1>1, <3>2, Posted
    <3>3. ASSUME NEW w \in {"load", "import"}, EmitSize(w)
          PROVE  \A e \in Range(guiQueue') : e \in Range(guiQueue) \/ e.type \notin Ends
      <4> DEFINE e == Resized(Len(sources))
      <4>1. e \in GuiEvents /\ e.type \notin Ends /\ guiQueue' = Append(guiQueue, e)
        BY <1>1, <3>3 DEF EmitSize, TypeOK, Resized, GuiEvents
      <4> HIDE DEF e
      <4> QED BY <3>2, <4>1
    <3>4. ASSUME NEW w \in {"load", "import"}, EmitChanged(w), guiQueue' # guiQueue
          PROVE  \A e \in Range(guiQueue') : e \in Range(guiQueue) \/ e.type \notin Ends
      <4> DEFINE e == Changed(worker[w].pos)
      <4>1. e \in GuiEvents /\ e.type \notin Ends /\ guiQueue' = Append(guiQueue, e)
        BY <1>1, <3>4 DEF EmitChanged, TypeOK, Changed, GuiEvents
      <4> HIDE DEF e
      <4> QED BY <3>2, <4>1
    <3>5. ImportFile => guiQueue' = guiQueue
      BY DEF ImportFile, gui
    <3> QED BY <1>13, <3>1, <3>3, <3>4, <3>5
  <2>4. Calm => Calm'
    BY <1>4, <2>1, <2>2, <2>3 DEF SameIdle
  <2> QED BY <1>2, <1>5, <2>1, <2>4
<1>14. ASSUME WorkerFinished("import") \/ Completed("import") PROVE MarkOK'
  <2>1. UNCHANGED <<saver, guiPC, guiQueue, requests>> /\ UNCHANGED window
    BY <1>14 DEF WorkerFinished, Completed, workers, gui
  <2>2. Idle("load")' <=> Idle("load")
    BY <1>1, <1>14 DEF WorkerFinished, Completed, Idle, workers
  <2>3. (Queued("Saved")' => Queued("Saved")) /\ (Queued("Loaded")' => Queued("Loaded"))
    <3>1. CASE engineQueue' = Append(engineQueue, "Imported")
      <4>1. \A x : Contains(Append(engineQueue, "Imported"), x) <=> Contains(engineQueue, x) \/ x = "Imported"
        BY <1>1, Posted
      <4> QED BY <3>1, <4>1 DEF Queued
    <3>2. CASE engineQueue # <<>> /\ engineQueue' = Tail(engineQueue)
      BY <1>1, <3>2, Taken DEF Queued
    <3> QED BY <1>14, <3>1, <3>2 DEF WorkerFinished, Completed, Completion, EngineTakes
  <2>4. Calm => Calm'
    BY <2>1, <2>2, <2>3 DEF Calm
  <2> QED BY <1>2, <1>5, <2>1, <2>4
<1> QED BY <1>6, <1>7, <1>8, <1>9, <1>10, <1>11, <1>12, <1>13, <1>14
        DEF Next, UserStep, GuiStep, LoaderStep, ImporterStep, WorkerStep, EngineStep, Waiting
-----------------------------------------------------------------------------
(***************************************************************************)
(* The cells of the first grid.                                            *)
(***************************************************************************)
\* Every grid shows them.
LEMMA WatchedShown ==
    ASSUME TypeOK, NEW p \in Watched
    PROVE  p \in Nat /\ p \in Positions /\ Shown(p) /\ p \div GridSize # grids
<1>1. /\ p \in Nat /\ p \in Positions /\ p < GridSize
      /\ GridSize \in Nat /\ GridSize >= 1 /\ grids \in Nat /\ grids >= 1
  BY ShowAssumption DEF Watched, Positions, TypeOK
<1>2. GridSize * grids >= GridSize
  BY <1>1
<1>3. p < GridSize * grids
  <2> DEFINE m == GridSize * grids
  <2>1. m \in Nat /\ m >= GridSize
    BY <1>1, <1>2
  <2> HIDE DEF m
  <2>2. p < m
    BY <1>1, <2>1
  <2> QED BY <2>2 DEF m
<1>4. p \div GridSize = 0
  BY <1>1
<1> QED BY <1>1, <1>3, <1>4 DEF Shown

\* Entries of the two workers that a step adds or leaves.
LEMMA PendingStays ==
    ASSUME Range(guiQueue) \subseteq Range(guiQueue'),
           \A w \in {"load", "import"}, p \in Watched : Emitting(w, p) => Emitting(w, p)'
    PROVE  \A p \in Watched : Pending(p) => Pending(p)'
BY DEF Pending, Changed

\* Whoever changes a slot sees to it that its cell is told.
LEMMA ViewKept ==
    ASSUME IInv, [Next]_vars
    PROVE  ViewOK' /\ ClearedOK'
<1> DEFINE C == {"clear", "null", "tell"}
           StillPending == \A p \in Watched : Pending(p) => Pending(p)'
<1>1. /\ TypeOK /\ OneEach /\ LocksOK /\ ViewOK /\ ClearedOK
      /\ guiQueue \in Seq(GuiEvents) /\ view \in [Positions -> Contents]
      /\ sources \in Seq(Contents) /\ clearing \in [i : Nat, op : Contents]
      /\ worker \in [{"load", "import"} ->
                    [pc : Pcs, left : Seq(Entries) \cup Seq(Contents), pos : Nat \cup {-1}]]
  BY DEF IInv, TypeOK, Pcs
<1>2. \A p \in Watched : p \in Nat /\ p \in Positions /\ Shown(p) /\ p \div GridSize # grids
  BY <1>1, WatchedShown
<1>3. ASSUME StillPending, UNCHANGED <<sources, view, clearing>>,
             guiPC' = guiPC \/ (guiPC \notin C /\ guiPC' \notin C)
      PROVE  ViewOK' /\ ClearedOK'
  <2>1. \A p : At(p)' = At(p)
    BY <1>3 DEF At
  <2>2. \A p : (Passed(p)' <=> Passed(p)) /\ (Telling(p)' <=> Telling(p))
    BY <1>3 DEF Passed, Telling
  <2> QED BY <1>1, <1>3, <2>1, <2>2 DEF ViewOK, ClearedOK
<1>4. ASSUME worker' = worker, guiQueue' = guiQueue PROVE StillPending
  BY <1>4 DEF Pending, Emitting
<1>5. ASSUME NEW f \in Files, NEW after \in {"idle", "main"}, guiPC = after, StartLoad(f, after),
             UNCHANGED <<sources, view, clearing, guiQueue>>
      PROVE  ViewOK' /\ ClearedOK'
  <2>1. \A w \in {"load", "import"} : \A p : Emitting(w, p) => Emitting(w, p)'
    <3>1. "load" \notin locked => Idle("load")
      BY <1>1 DEF LocksOK
    <3> QED BY <1>1, <1>5, <3>1 DEF StartLoad, LoadOpens, LoadFails, LoadCrashes, Emitting, Idle
  <2>2. StillPending
    BY <1>5, <2>1, PendingStays
  <2>3. CASE guiPC' \in {after, "crashed"}
    BY <1>3, <1>5, <2>2, <2>3
  <2>4. CASE guiPC' = "clear"
    <3>1. \A p \in Watched : At(p)' = At(p) /\ ~Passed(p)' /\ ~Telling(p)
      <4>1. clearing'.i = 0
        BY <1>1, <1>5 DEF ClearedOK
      <4> QED BY <1>2, <1>5, <2>4, <4>1 DEF At, Passed, Telling
    <3> QED BY <1>1, <1>5, <2>2, <2>4, <3>1 DEF ViewOK, ClearedOK
  <2> QED BY <1>5, <2>3, <2>4 DEF StartLoad, LoadOpens, LoadFails, LoadCrashes
<1>6. ASSUME \/ \E f \in Files : loadShow(f)
             \/ MainLoadsFile
      PROVE  ViewOK' /\ ClearedOK'
  <2>1. CASE MainLoadsFile
    <3>1. argv \in Seq(Files) /\ argv # <<>>
      BY <1>1, <2>1 DEF TypeOK, MainLoadsFile
    <3>2. Head(argv) \in Files
      BY <3>1
    <3> QED BY <1>5, <2>1, <3>2 DEF MainLoadsFile
  <2>2. CASE \E f \in Files : loadShow(f)
    BY <1>5, <2>2 DEF loadShow, UserMay
  <2> QED BY <1>6, <2>1, <2>2
<1>7. ASSUME NEW fs \in Imports, NEW pos \in Cells \cup {-1}, importShow(fs, pos)
      PROVE  ViewOK' /\ ClearedOK'
  <2>1. UNCHANGED <<sources, view, clearing, guiQueue, guiPC>>
    BY <1>7 DEF importShow, gui
  <2>2. "import" \notin locked => worker["import"].pc \in {"none", "done", "deleted"}
    BY <1>1 DEF LocksOK, Idle
  <2>3. \A w \in {"load", "import"} : \A p : Emitting(w, p) => Emitting(w, p)'
    BY <1>1, <1>7, <2>2 DEF importShow, Emitting
  <2> QED BY <1>3, <2>1, <2>3, PendingStays
<1>8. ASSUME NEW f \in DropFrames, NEW pos \in Cells, Drop(f, pos)
      PROVE  ViewOK' /\ ClearedOK'
  <2>1. /\ guiPC = "idle" /\ UNCHANGED <<guiPC, clearing, worker, guiQueue>>
        /\ Store(Stored(pos, f)) /\ view' = [view EXCEPT ![pos] = f]
    BY <1>8 DEF Drop, UserMay
  <2>2. pos \in Nat /\ f \in Contents
    BY ConstantTypes
  <2>3. \A q \in Nat : At(q)' = IF q = pos THEN f ELSE At(q)
    BY <1>1, <2>1, <2>2, StoreTypes
  <2>4. StillPending
    BY <1>4, <2>1
  <2>5. \A p : ~Passed(p)' /\ ~Telling(p)
    BY <2>1 DEF Passed, Telling
  <2> QED BY <1>1, <1>2, <2>1, <2>3, <2>4, <2>5 DEF ViewOK, ClearedOK
<1>9. ASSUME ReadSlot PROVE ViewOK' /\ ClearedOK'
  <2>1. /\ guiPC = "clear" /\ guiPC' = "null" /\ UNCHANGED <<sources, view, worker, guiQueue>>
        /\ clearing' = [clearing EXCEPT !.op = At(clearing.i)]
    BY <1>9 DEF ReadSlot, workers
  <2>2. clearing'.i = clearing.i /\ clearing'.op = At(clearing.i)
    BY <1>1, <2>1
  <2>3. StillPending
    BY <1>4, <2>1
  <2>4. \A p : At(p)' = At(p) /\ ~Telling(p) /\ (Passed(p)' => Passed(p) \/ At(p) = Empty)
    BY <2>1, <2>2 DEF At, Passed, Telling
  <2> QED BY <1>1, <2>1, <2>3, <2>4 DEF ViewOK, ClearedOK
<1>10. ASSUME NullSlot PROVE ViewOK' /\ ClearedOK'
  <2> DEFINE i == clearing.i
  <2>1. /\ guiPC = "null" /\ guiPC' = "tell" /\ UNCHANGED <<view, clearing, worker, guiQueue>>
        /\ Store(Stored(i, Empty)) /\ i \in Nat
    BY <1>1, <1>10 DEF NullSlot
  <2>2. \A q \in Nat : At(q)' = IF q = i THEN Empty ELSE At(q)
    BY <1>1, <2>1, StoreTypes, ConstantTypes
  <2>3. StillPending
    BY <1>4, <2>1
  <2>4. \A p \in Watched : ~Telling(p) /\ (p # i /\ Passed(p)' => Passed(p))
    BY <2>1 DEF Passed, Telling
  <2>5. ASSUME NEW p \in Watched, p = i PROVE view'[p] = At(p)' \/ Pending(p)' \/ Telling(p)'
    <3>1. CASE clearing.op = Empty
      <4>1. Passed(p)
        BY <2>1, <2>5, <3>1 DEF Passed
      <4> QED BY <1>1, <1>2, <2>1, <2>2, <2>3, <2>4, <2>5, <4>1 DEF ViewOK, ClearedOK
    <3>2. CASE clearing.op # Empty
      BY <2>1, <2>5, <3>2 DEF Telling
    <3> QED BY <3>1, <3>2
  <2>6. ViewOK'
    BY <1>1, <1>2, <2>1, <2>2, <2>3, <2>4, <2>5 DEF ViewOK
  <2>7. ClearedOK'
    BY <1>1, <1>2, <2>1, <2>2, <2>3, <2>4 DEF ClearedOK
  <2> QED BY <2>6, <2>7
<1>11. ASSUME TellGrids PROVE ViewOK' /\ ClearedOK'
  <2> DEFINE i == clearing.i
  <2>1. /\ guiPC = "tell" /\ guiPC' = "clear" /\ UNCHANGED <<sources, worker, guiQueue>>
        /\ view' = IF clearing.op # Empty /\ Shown(i) THEN [view EXCEPT ![i] = At(i)] ELSE view
        /\ clearing' = [i |-> i + 1, op |-> Empty] /\ i \in Nat
    BY <1>1, <1>11 DEF TellGrids, workers
  <2>2. clearing'.i = i + 1
    BY <2>1
  <2>3. StillPending
    BY <1>4, <2>1
  <2>4. \A p \in Watched : Passed(p)' => Passed(p)
    BY <1>2, <2>1, <2>2 DEF Passed
  <2>5. \A p : At(p)' = At(p)
    BY <2>1 DEF At
  <2>6. ViewOK'
    <3> SUFFICES ASSUME NEW p \in Watched PROVE view'[p] = At(p)' \/ Pending(p)'
      BY DEF ViewOK
    <3>1. CASE p = i /\ clearing.op # Empty
      BY <1>1, <1>2, <2>1, <2>5, <3>1
    <3>2. CASE ~(p = i /\ clearing.op # Empty)
      <4>1. view'[p] = view[p] /\ ~Telling(p)
        BY <1>1, <1>2, <2>1, <3>2 DEF Telling
      <4> QED BY <1>1, <2>3, <2>5, <4>1 DEF ViewOK
    <3> QED BY <3>1, <3>2
  <2>7. ClearedOK'
    BY <1>1, <2>1, <2>3, <2>4, <2>5 DEF ClearedOK
  <2> QED BY <2>6, <2>7
<1>12. ASSUME ClearVector PROVE ViewOK' /\ ClearedOK'
  <2>1. /\ guiPC = "clear" /\ guiPC' \notin C /\ clearing.i >= Len(sources) /\ sources' = <<>>
        /\ worker' = [worker EXCEPT !["load"].pc = "next"] /\ clearing' = NotClearing
        /\ UNCHANGED <<view, guiQueue>>
    BY <1>12 DEF ClearVector, Store
  <2>2. \A w \in {"load", "import"} : \A p : Emitting(w, p) => Emitting(w, p)'
    <3>1. worker["load"].pc \in {"none", "done", "deleted"}
      BY <1>1, <2>1 DEF OneEach, Idle
    <3> QED BY <1>1, <2>1, <3>1 DEF Emitting
  <2>3. StillPending
    BY <2>1, <2>2, PendingStays
  <2>4. \A p \in Nat : At(p)' = Empty
    BY <2>1 DEF At
  <2>5. \A p \in Watched : At(p) = Empty \/ Pending(p)
    <3> SUFFICES ASSUME NEW p \in Watched PROVE At(p) = Empty \/ Pending(p)
      OBVIOUS
    <3>1. CASE p < Len(sources)
      <4>1. p < clearing.i
        BY <1>1, <1>2, <2>1, <3>1
      <4> QED BY <1>1, <2>1, <4>1 DEF ClearedOK, Passed
    <3>2. CASE ~(p < Len(sources))
      BY <3>2 DEF At
    <3> QED BY <3>1, <3>2
  <2>6. \A p : ~Telling(p) /\ ~Passed(p)'
    BY <2>1 DEF Telling, Passed
  <2>7. clearing'.i = 0
    BY <2>1 DEF NotClearing
  <2> QED BY <1>1, <1>2, <2>1, <2>3, <2>4, <2>5, <2>6, <2>7 DEF ViewOK, ClearedOK
<1>13. ASSUME NEW w \in {"load", "import"}, NEW pos \in Nat, NEW frame \in Contents,
              worker[w].pc = "next", addFrameSource(w, pos, frame),
              UNCHANGED <<guiPC, clearing, view, guiQueue>>
       PROVE  ViewOK' /\ ClearedOK'
  <2> DEFINE r == [worker[w] EXCEPT !.pc = IF pos >= Len(sources) THEN "emitSize" ELSE "emit",
                                    !.left = Tail(worker[w].left), !.pos = pos]
  <2>1. worker' = [worker EXCEPT ![w] = r] /\ Store(Stored(pos, frame))
    BY <1>1, <1>13 DEF addFrameSource
  <2>2. r.pc \in {"emitSize", "emit"} /\ r.pos = pos
    BY <1>1
  <2> HIDE DEF r
  <2>3. /\ worker'[w] = r /\ \A v \in {"load", "import"} : v # w => worker'[v] = worker[v]
    BY <1>1, <2>1
  <2>4. /\ \A v \in {"load", "import"} : \A p : Emitting(v, p) => Emitting(v, p)'
        /\ Emitting(w, pos)'
    BY <1>13, <2>2, <2>3 DEF Emitting
  <2>5. StillPending /\ Pending(pos)'
    <3>1. StillPending
      BY <1>13, <2>4, PendingStays
    <3>2. Pending(pos)'
      BY <2>4 DEF Pending
    <3> QED BY <3>1, <3>2
  <2>6. \A q \in Nat : At(q)' = IF q = pos THEN frame ELSE At(q)
    BY <1>1, <2>1, StoreTypes
  <2>7. \A p : (Passed(p)' <=> Passed(p)) /\ (Telling(p)' <=> Telling(p))
    BY <1>13 DEF Passed, Telling
  <2> QED BY <1>1, <1>2, <1>13, <2>5, <2>6, <2>7 DEF ViewOK, ClearedOK
<1>14. ASSUME LoadSequence PROVE ViewOK' /\ ClearedOK'
  <2> DEFINE q == worker["load"].left
  <2>1. q \in Seq(Entries) /\ q # <<>>
    BY <1>1, <1>14 DEF LoadSequence, TypeOK
  <2>2. Head(q) \in Entries
    BY <2>1
  <2>3. /\ worker["load"].pc = "next" /\ addFrameSource("load", Head(q).pos, Head(q).frame)
        /\ UNCHANGED <<guiPC, clearing, view, guiQueue>>
    BY <1>14 DEF LoadSequence, gui
  <2> QED BY <1>13, <2>2, <2>3, ConstantTypes
<1>15. ASSUME ImportFile PROVE ViewOK' /\ ClearedOK'
  <2> DEFINE q == worker["import"].left
             pos == IF worker["import"].pos < 0 THEN FirstFree ELSE worker["import"].pos
  <2>1. q \in Seq(Contents) /\ q # <<>>
    BY <1>1, <1>15 DEF ImportFile, TypeOK
  <2>2. Head(q) \in Contents
    BY <2>1
  <2>3. worker["import"].pc = "next" /\ UNCHANGED <<guiPC, clearing, view, guiQueue>>
    BY <1>15 DEF ImportFile, gui
  <2>4. pos \in Nat
    BY <1>1, FirstFreeType
  <2>5. CASE addFrameSource("import", pos, Head(q))
    BY <1>13, <2>2, <2>3, <2>4, <2>5
  <2>6. CASE worker' = [worker EXCEPT !["import"].left = Tail(@)] /\ UNCHANGED sources
    <3>1. \A w \in {"load", "import"} : \A p : Emitting(w, p) => Emitting(w, p)'
      BY <1>1, <2>6 DEF Emitting
    <3> QED BY <1>3, <2>3, <2>6, <3>1, PendingStays
  <2> QED BY <1>15, <2>5, <2>6 DEF ImportFile
<1>16. ASSUME NEW w \in {"load", "import"}, EmitSize(w) PROVE ViewOK' /\ ClearedOK'
  <2> DEFINE e == Resized(Len(sources))
  <2>1. /\ worker[w].pc = "emitSize" /\ worker' = [worker EXCEPT ![w].pc = "emit"]
        /\ UNCHANGED <<sources, view, clearing, guiPC>>
    BY <1>16 DEF EmitSize
  <2>2. e \in GuiEvents /\ guiQueue' = Append(guiQueue, e)
    BY <1>1, <1>16 DEF EmitSize, GuiEvents, Resized
  <2>3. \A v \in {"load", "import"} : \A p : Emitting(v, p) => Emitting(v, p)'
    BY <1>1, <2>1 DEF Emitting
  <2> HIDE DEF e
  <2>4. Range(guiQueue) \subseteq Range(guiQueue')
    BY <1>1, <2>2, Posted
  <2> QED BY <1>3, <2>1, <2>3, <2>4, PendingStays
<1>17. ASSUME NEW w \in {"load", "import"}, EmitChanged(w) PROVE ViewOK' /\ ClearedOK'
  <2> DEFINE e == Changed(worker[w].pos)
  <2>1. /\ worker[w].pc = "emit" /\ worker' = [worker EXCEPT ![w].pc = "next", ![w].pos = -1]
        /\ guiQueue' = IF Shown(worker[w].pos) THEN Append(guiQueue, e) ELSE guiQueue
        /\ UNCHANGED <<sources, view, clearing, guiPC>>
    BY <1>17 DEF EmitChanged
  <2>2. e \in GuiEvents
    BY <1>1, <2>1 DEF GuiEvents, Changed, TypeOK
  <2>3. \A v \in {"load", "import"} : \A p : v # w /\ Emitting(v, p) => Emitting(v, p)'
    BY <1>1, <2>1 DEF Emitting
  <2>4. \A p \in Watched : Emitting(w, p) => Shown(worker[w].pos) /\ Changed(p) = e
    BY <1>2 DEF Emitting
  <2> HIDE DEF e
  <2>5. Range(Append(guiQueue, e)) = Range(guiQueue) \cup {e}
    BY <1>1, <2>2, Posted
  <2>6. Range(guiQueue) \subseteq Range(guiQueue')
    BY <2>1, <2>5
  <2>7. \A p \in Watched : Emitting(w, p) => Changed(p) \in Range(guiQueue')
    BY <2>1, <2>4, <2>5
  <2>8. \A p : Changed(p)' = Changed(p)
    BY DEF Changed
  <2>9. StillPending
    BY <2>3, <2>6, <2>7, <2>8 DEF Pending
  <2> QED BY <1>3, <2>1, <2>9
<1>18. ASSUME NEW w \in {"load", "import"}, WorkerFinished(w) PROVE ViewOK' /\ ClearedOK'
  <2>1. /\ worker[w].pc = "next" /\ worker' = [worker EXCEPT ![w] = [NoWorker EXCEPT !.pc = "done"]]
        /\ UNCHANGED <<sources, view, clearing, guiPC, guiQueue>>
    BY <1>18 DEF WorkerFinished, gui
  <2>2. \A v \in {"load", "import"} : \A p : Emitting(v, p) => Emitting(v, p)'
    BY <1>1, <2>1 DEF Emitting
  <2> QED BY <1>3, <2>1, <2>2, PendingStays
<1>19. ASSUME NEW e \in GuiEvents,
              guiQueue' \in {guiQueue, Append(guiQueue, e)},
              UNCHANGED <<sources, worker, view, clearing, guiPC>>
       PROVE  ViewOK' /\ ClearedOK'
  <2>1. Range(guiQueue) \subseteq Range(guiQueue')
    <3>1. Range(Append(guiQueue, e)) = Range(guiQueue) \cup {e}
      BY <1>1, Posted
    <3> QED BY <1>19, <3>1
  <2>2. \A v \in {"load", "import"} : \A p : Emitting(v, p) => Emitting(v, p)'
    BY <1>19 DEF Emitting
  <2> QED BY <1>3, <1>19, <2>1, <2>2, PendingStays
<1>20. ASSUME Saved \/ \E w \in {"load", "import"} : Completed(w) PROVE ViewOK' /\ ClearedOK'
  <2>1. UNCHANGED <<sources, worker, view, clearing, guiPC>>
    BY <1>20 DEF Saved, Completed, workers
  <2>2. \/ guiQueue' = guiQueue
        \/ guiQueue' = Append(guiQueue, [type |-> "showSaved", n |-> 0])
        \/ guiQueue' = Append(guiQueue, [type |-> "showLoaded", n |-> 0])
    BY <1>20 DEF Saved, Completed, Told
  <2>3. /\ [type |-> "showSaved", n |-> 0] \in GuiEvents
        /\ [type |-> "showLoaded", n |-> 0] \in GuiEvents
    BY DEF GuiEvents
  <2> QED BY <1>19, <2>1, <2>2, <2>3
<1>21. ASSUME guiPC = "idle", guiQueue # <<>>, guiQueue' = Tail(guiQueue),
              UNCHANGED <<sources, worker, clearing, guiPC>>,
              view' = [view EXCEPT ![Head(guiQueue).n] = At(Head(guiQueue).n)]
                \/ (view' = view /\ Head(guiQueue).type # "frameSourceChanged")
       PROVE  ViewOK' /\ ClearedOK'
  <2> DEFINE q == guiQueue
             e == Head(guiQueue)
  <2>1. q \in Seq(GuiEvents) /\ q # <<>> /\ e = Head(q)
    BY <1>1, <1>21
  <2> HIDE DEF q
  <2>2. Range(q) \subseteq Range(Tail(q)) \cup {Head(q)}
    BY <2>1, Taken
  <2>3. Range(guiQueue) \subseteq Range(guiQueue') \cup {e}
    BY <1>21, <2>1, <2>2 DEF q
  <2>4. \A p : At(p)' = At(p) /\ Changed(p)' = Changed(p) /\ ~Passed(p)' /\ ~Telling(p)
    BY <1>21 DEF At, Changed, Passed, Telling
  <2>5. \A p : Changed(p).type = "frameSourceChanged" /\ Changed(p).n = p
    BY DEF Changed
  <2>6. \A v \in {"load", "import"} : \A p : Emitting(v, p) => Emitting(v, p)'
    BY <1>21 DEF Emitting
  <2>7. ASSUME NEW p \in Watched PROVE view'[p] = At(p)' \/ Pending(p)'
    <3>1. CASE Changed(p) = e
      <4>1. e.type = "frameSourceChanged" /\ e.n = p
        BY <2>5, <3>1
      <4> QED BY <1>1, <1>2, <1>21, <2>4, <4>1
    <3>2. CASE Changed(p) # e
      <4>1. Pending(p) => Pending(p)'
        BY <2>3, <2>4, <2>6, <3>2 DEF Pending
      <4>2. view'[p] = view[p] \/ view'[p] = At(p)
        BY <1>1, <1>2, <1>21
      <4> QED BY <1>1, <2>4, <4>1, <4>2 DEF ViewOK
    <3> QED BY <3>1, <3>2
  <2> QED BY <1>1, <1>21, <2>4, <2>7 DEF ViewOK, ClearedOK
<1>22. ASSUME frameSourceChanged \/ EnoughGrids \/ savedOrLoaded PROVE ViewOK' /\ ClearedOK'
  <2>1. /\ guiPC = "idle" /\ guiQueue # <<>> /\ guiQueue' = Tail(guiQueue)
        /\ UNCHANGED <<sources, worker, clearing, guiPC>>
    BY <1>22 DEF frameSourceChanged, EnoughGrids, savedOrLoaded, GuiTakes, workers
  <2>2. \/ view' = [view EXCEPT ![Head(guiQueue).n] = At(Head(guiQueue).n)]
        \/ (view' = view /\ Head(guiQueue).type # "frameSourceChanged")
    BY <1>22 DEF frameSourceChanged, EnoughGrids, savedOrLoaded, GuiTakes
  <2> QED BY <1>21, <2>1, <2>2
<1>23. ASSUME NewGrid PROVE ViewOK' /\ ClearedOK'
  <2>1. /\ guiPC = "idle" /\ guiPC' = "connect"
        /\ UNCHANGED <<sources, worker, clearing, guiQueue>>
    BY <1>23 DEF NewGrid, GuiTakes, workers
  <2>2. \A p \in Watched : view'[p] = view[p]
    BY <1>2, <1>23 DEF NewGrid
  <2>3. StillPending
    BY <1>4, <2>1
  <2>4. \A p : At(p)' = At(p) /\ ~Passed(p)' /\ ~Telling(p)
    BY <2>1 DEF At, Passed, Telling
  <2> QED BY <1>1, <2>1, <2>2, <2>3, <2>4 DEF ViewOK, ClearedOK
<1>24. ASSUME saveShow \/ MainEntersLoop \/ ConnectGrid \/ SaverStep \/ Quit \/ ShutdownStep \/ UNCHANGED vars
       PROVE  ViewOK' /\ ClearedOK'
  <2>1. UNCHANGED <<sources, worker, view, clearing, guiQueue>>
    BY <1>24 DEF saveShow, MainEntersLoop, ConnectGrid, SaverStep, SaveSlot, SaverFinished, Quit,
         ShutdownStep, EngineLoopStops, AwaitSave, AwaitLoad, ShutdownFrame, GuiUnchanged, vars,
         workers, gui
  <2>2. guiPC' = guiPC \/ (guiPC \notin C /\ guiPC' \notin C)
    BY <1>24 DEF saveShow, UserMay, StartSave, SaveOpens, SaveFails, SaveCrashes, MainEntersLoop,
         ConnectGrid, SaverStep, SaveSlot, SaverFinished, Quit, ShutdownStep, EngineLoopStops,
         AwaitSave, AwaitLoad, vars, gui
  <2> QED BY <1>3, <1>4, <2>1, <2>2
<1> QED BY <1>6, <1>7, <1>8, <1>9, <1>10, <1>11, <1>12, <1>14, <1>15, <1>16, <1>17, <1>18,
           <1>20, <1>22, <1>23, <1>24
        DEF Next, UserStep, GuiStep, LoaderStep, ImporterStep, WorkerStep, EngineStep, Waiting
-----------------------------------------------------------------------------
(***************************************************************************)
(* The theorems.                                                           *)
(***************************************************************************)
\* At the start there is an empty vector, no job and one grid of empty cells.
LEMMA InitIInv == Init => IInv
<1> SUFFICES ASSUME Init PROVE IInv
  OBVIOUS
<1>1. saver.pc = "none" /\ saver.i = 0 /\ saver.image = {} /\ engineQueue = <<>> /\ guiQueue = <<>>
  BY DEF Init
<1>2. /\ worker = [w \in {"load", "import"} |-> NoWorker]
      /\ \A w \in {"load", "import"} : worker[w] = NoWorker
      /\ NoWorker.pc = "none" /\ NoWorker.left = <<>> /\ NoWorker.pos = -1
  BY DEF Init, NoWorker
<1>3. engineLoop \in BOOLEAN /\ unsaved \in BOOLEAN /\ marked \in BOOLEAN
  BY Zenon DEF Init
<1>4. ~marked
  BY Zenon DEF Init
<1>5. clearing.i = 0 /\ clearing \in [i : Nat, op : Contents]
  BY ConstantTypes DEF Init, NotClearing
<1>6. view \in [Positions -> Contents] /\ view = [p \in Positions |-> Empty]
  BY ConstantTypes DEF Init
<1>7. WorkerTypes
  <2>1. NoWorker \in [pc : Pcs,
                      left : Seq(Entries) \cup Seq(Contents), pos : Nat \cup {-1}]
    BY DEF NoWorker, Pcs
  <2> QED BY <1>2, <2>1 DEF WorkerTypes
<1>8. TypeOK
  <2>1. OtherTypes
    BY <1>1, <1>5, <1>6, ShowAssumption DEF Init, OtherTypes, SaverPcs
  <2> QED BY <1>3, <1>7, <2>1 DEF TypeOK, WorkerTypes, OtherTypes, Pcs, SaverPcs
<1>9. \A x : ~Queued(x)
  BY <1>1 DEF Queued, Contains
<1>10. OneEach /\ LocksOK /\ ThreadsOK /\ SaveOK
  <2>1. IsInjective(engineQueue)
    BY <1>1 DEF IsInjective
  <2>2. Idle("load") /\ Idle("import")
    BY <1>2 DEF Idle
  <2>3. guiPC = "main" /\ locked = {}
    BY DEF Init
  <2> QED BY <1>1, <1>9, <2>1, <2>2, <2>3 DEF OneEach, LocksOK, ThreadsOK, SaveOK
<1>11. MarkOK
  <2>1. requests = 0
    BY DEF Init
  <2> QED BY <1>4, <2>1 DEF MarkOK
<1>12. ViewOK /\ ClearedOK
  <2>1. \A p \in Watched : p \in Positions
    BY DEF Watched
  <2>2. \A p \in Positions : At(p) = Empty
    BY ShowAssumption DEF At, Init, Positions
  <2>3. \A p : ~Passed(p)
    BY DEF Passed, Init
  <2> QED BY <1>5, <1>6, <2>1, <2>2, <2>3 DEF ViewOK, ClearedOK
<1> QED BY <1>8, <1>10, <1>11, <1>12 DEF IInv

\* Every step keeps the invariant.
LEMMA NextIInv == IInv /\ [Next]_vars => IInv'
<1> SUFFICES ASSUME IInv, [Next]_vars PROVE IInv'
  OBVIOUS
<1>1. TypeOK' /\ OneEach' /\ LocksOK'
  BY TypesKept, LocksKept DEF IInv
<1> QED BY <1>1, ThreadsKept, SaveKept, MarkKept, ViewKept DEF IInv

\* IInv holds in every reachable state of the engine.
THEOREM Soundness == Spec => []IInv
BY InitIInv, NextIInv, PTL DEF Spec

\* Every variable keeps its type, for vectors and queues of any length.
THEOREM TypeCorrect == Spec => []TypeOK
<1>1. IInv => TypeOK
  BY DEF IInv
<1> QED BY <1>1, Soundness, PTL

\* saveMutex, loadMutex and importMutex follow their jobs: a completion slot
\* never unlocks a mutex that another job holds, and no request deletes the
\* thread of a job that is not completed.
THEOREM LocksAlwaysFollowJobs == Spec => []LocksFollowJobs
<1>1. IInv => LocksFollowJobs
  BY DEF IInv, LocksOK, ThreadsOK, LocksFollowJobs, Queued, Completion
<1> QED BY <1>1, Soundness, PTL

\* ShowSaver writes whatever is in the vector from saveShow() to its end,
\* with any number of loads, imports and drops around it.
THEOREM AlwaysSavesWhatStays == Spec => []SavesWhatStays
<1>1. IInv => SavesWhatStays
  BY DEF IInv, SaveOK, SavesWhatStays, Queued
<1> QED BY <1>1, Soundness, PTL

\* The unsaved flag stays up for an import that nothing was on its way for.
THEOREM ImportAlwaysUnsaved == Spec => []ImportStaysUnsaved
<1>1. IInv => ImportStaysUnsaved
  BY DEF IInv, MarkOK, ImportStaysUnsaved
<1> QED BY <1>1, Soundness, PTL

\* The first grid shows the engine's vector whenever no event is left.
THEOREM FirstGridAlwaysConsistent == Spec => []FirstGridConsistent
<1>1. ASSUME IInv PROVE FirstGridConsistent
  <2> SUFFICES ASSUME Settled, NEW p \in Positions, p < GridSize PROVE view[p] = At(p)
    BY DEF FirstGridConsistent
  <2>1. p \in Watched
    BY DEF Watched
  <2>2. DOMAIN worker = {"load", "import"}
    BY <1>1 DEF IInv, TypeOK
  <2>3. ~Pending(p) /\ ~Telling(p)
    BY <2>2 DEF Settled, Pending, Emitting, Telling, Range
  <2> QED BY <1>1, <2>1, <2>3 DEF IInv, ViewOK
<1> QED BY <1>1, Soundness, PTL
=============================================================================
