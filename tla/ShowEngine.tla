------------------------------ MODULE ShowEngine ------------------------------
(***************************************************************************)
(* The engine's vector of frame sources and everything that works on it at *)
(* the same time (engine.cpp): the ShowSaver, ShowLoader and ShowImporter  *)
(* threads, the GUI thread (which runs saveShow, loadShow, importShow and  *)
(* drops frames on cells), the engine thread's event loop that completes   *)
(* them, the grids that display the vector, and the shutdown.              *)
(*                                                                         *)
(* A worker's finished() signal and the completion slot it is connected to *)
(* (Saved, Loaded, Imported) are an event in the engine thread's queue.    *)
(* source_lock makes each access to the vector one step.                   *)
(*                                                                         *)
(* saver and loader are pointers to thread objects.  A request deletes the *)
(* old object before it opens its file; where the file does not open the   *)
(* pointer is left as it is, and the next request deletes the object again *)
(* (engine.cpp:408, 438): the program crashes, or nothing comes of it.     *)
(***************************************************************************)
EXTENDS Integers, FiniteSets, SequencesExt

CONSTANTS
    Frames,        \* frame sources a slot can hold
    Empty,         \* the null pointer
    Files,         \* show files
    Missing,       \* those that cannot be opened
    FileContents,  \* file -> sequence of [pos, frame] in the order they are read; files
                   \* cut off in mid-stream, on which the loader hangs, are in ShowFile
    CommandLine,   \* sequence of files named on the command line
    Imports,       \* the lists of frames the user imports, <<>> for a file that fails
    DropFrames,    \* frames the user drops on cells
    Cells,         \* cells the user drops on or imports to
    MaxSlots,      \* positions whose cells are watched
    GridSize,      \* cells of one grid (64 in the code)
    MaxRequests    \* bound: saves, loads, imports and drops the user asks for

Positions == 0..(MaxSlots - 1)
Contents == Frames \cup {Empty}

ASSUME ShowAssumption ==
    /\ Empty \notin Frames /\ DropFrames \subseteq Frames
    /\ Cells \subseteq Positions /\ Missing \subseteq Files
    /\ FileContents \in [Files -> Seq([pos : Positions, frame : Frames])]
    /\ CommandLine \in Seq(Files)
    /\ Imports \subseteq Seq(Contents)
    /\ MaxSlots \in Nat /\ GridSize \in Nat \ {0} /\ MaxRequests \in Nat

VARIABLES
    sources,     \* the vector; position p is sources[p + 1]
    locked,      \* which of the mutexes save, load, import are held
    saver,       \* [pc, i, image]: the object's life, the next position, what was written
    kept,        \* history: what has been in the show ever since the save was asked for
    worker,      \* the loader and the importer: [pc, left, pos]
    engineQueue, \* completion events for the engine thread
    engineLoop,  \* is the engine thread's event loop running?
    guiPC,       \* what the GUI thread is in the middle of
    clearing,    \* loadShow's loop: [i, op], the index and the pointer read
    argv,        \* command line files main() has not come to yet
    guiQueue,    \* events for the GUI thread
    grids,       \* number of grids that are connected to the engine
    view,        \* what the cells show
    unsaved,     \* the main window's flag
    marked,      \* history: imports asked for while no save or load was on its way
    requests     \* bound: user requests made

workers == <<saver, kept, worker>>
gui == <<guiPC, clearing, argv, guiQueue, grids, view>>
window == <<unsaved, marked>>
vars == <<sources, locked, workers, engineQueue, engineLoop, gui, window, requests>>

\* The pc of a thread object: "none" as long as the pointer is NULL, then one
\* of those of run(), "done" when that has returned, "deleted".
NoWorker == [pc |-> "none", left |-> <<>>, pos |-> -1]
NotClearing == [i |-> 0, op |-> Empty]

Init == /\ sources = <<>>
        /\ locked = {}
        /\ saver = [pc |-> "none", i |-> 0, image |-> {}] /\ kept = {}
        /\ worker = [w \in {"load", "import"} |-> NoWorker]
        /\ engineQueue = <<>> /\ engineLoop = TRUE
        /\ guiPC = "main" /\ clearing = NotClearing /\ argv = CommandLine
        /\ guiQueue = <<>> /\ grids = 1 /\ view = [p \in Positions |-> Empty]
        /\ unsaved = FALSE /\ marked = FALSE /\ requests = 0

\* getFrameSource(pos)
At(pos) == IF pos < Len(sources) THEN sources[pos + 1] ELSE Empty

\* The vector with "frame" stored at pos, extended if it has to be.
Stored(pos, frame) ==
    [i \in 1..(IF pos < Len(sources) THEN Len(sources) ELSE pos + 1) |->
        IF i = pos + 1 THEN frame ELSE At(i - 1)]

\* Where addFrameSource(fs, -1) puts it: behind the slots that are taken without
\* a gap, in the first empty slot or a new one.
FirstFree == Cardinality({n \in DOMAIN sources : \A i \in 1..n : sources[i] # Empty})

Shown(pos) == pos < GridSize * grids
Changed(pos) == [type |-> "frameSourceChanged", n |-> pos]
Resized(n) == [type |-> "sourcesSizeChanged", n |-> n]

\* What a file that holds the whole show has in it.
ImageOf(vector) == {[pos |-> i - 1, frame |-> vector[i]] :
                      i \in {j \in DOMAIN vector : vector[j] # Empty}}

\* The vector becomes newSources.
Store(newSources) == /\ sources' = newSources
                     /\ kept' = IF saver.pc = "writing" THEN kept \cap ImageOf(newSources) ELSE kept

-----------------------------------------------------------------------------
(***************************************************************************)
(* Requests, in the GUI thread.                                            *)
(***************************************************************************)
UserMay == guiPC = "idle" /\ requests < MaxRequests

\* Saves and loads that do not start are not counted.
Counted == requests' = IF locked' = locked THEN requests ELSE requests + 1

\* if (saver) delete saver; or the same of loader.
Deleted(pc) == IF pc = "none" THEN "none" ELSE "deleted"

\* Engine::saveShow(): the file opens, ...
SaveOpens ==
    /\ "save" \notin locked
    /\ locked' = locked \cup {"save"}
    /\ saver' = [pc |-> "writing", i |-> 0, image |-> {}]
    /\ kept' = ImageOf(sources)
    /\ marked' = FALSE
    /\ guiPC' = "idle"

\* ... or it does not: the lock is given back, and the error is read from a
\* compressor that has been deleted.
SaveFails ==
    /\ "save" \notin locked
    /\ saver' = [saver EXCEPT !.pc = Deleted(@)]
    /\ guiPC' \in {"idle", "crashed"}
    /\ UNCHANGED <<locked, kept, marked>>

\* The saver is deleted for the second time; that may also go unnoticed.
SaveCrashes ==
    /\ "save" \notin locked /\ saver.pc = "deleted"
    /\ guiPC' = "crashed"
    /\ UNCHANGED <<locked, saver, kept, marked>>

\* While a save is running the request is refused.
StartSave ==
    \/ SaveOpens \/ SaveFails \/ SaveCrashes
    \/ "save" \in locked /\ UNCHANGED <<locked, saver, kept, marked, guiPC>>

\* A save from the menu, or a Save in answer to maybeSave(), after which
\* openFile() or closeEvent() goes on whatever StartSave did: the load or the
\* end is the user's next request.
saveShow ==
    /\ UserMay
    /\ StartSave /\ Counted
    /\ UNCHANGED <<sources, worker, engineQueue, engineLoop,
                   clearing, argv, guiQueue, grids, view, unsaved>>

\* loadShow(file, true): the loader that is done is deleted, the file opens and
\* the show is cleared before another loader is made, ...
LoadOpens(file) ==
    /\ "load" \notin locked /\ file \notin Missing
    /\ locked' = locked \cup {"load"}
    /\ worker' = [worker EXCEPT !["load"].pc = Deleted(@), !["load"].left = FileContents[file]]
    /\ guiPC' = "clear"

\* ... or it does not open and the lock is given back.
LoadFails(file, after) ==
    /\ "load" \notin locked /\ file \in Missing
    /\ worker' = [worker EXCEPT !["load"].pc = Deleted(@)]
    /\ guiPC' = after
    /\ UNCHANGED locked

\* The loader is deleted for the second time; that may also go unnoticed.
LoadCrashes ==
    /\ "load" \notin locked /\ worker["load"].pc = "deleted"
    /\ guiPC' = "crashed"
    /\ UNCHANGED <<locked, worker>>

\* Mutation of StartLoad: the loader is deleted before the lock is tried.
StartLoadDeletesFirst(file, after) ==
    \/ LoadOpens(file) \/ LoadFails(file, after) \/ LoadCrashes
    \/ /\ "load" \in locked
       /\ worker' = [worker EXCEPT !["load"].pc = Deleted(@)]
       /\ guiPC' = after /\ UNCHANGED locked

\* While a load is running the request is refused.
StartLoad(file, after) ==
    \/ LoadOpens(file) \/ LoadFails(file, after) \/ LoadCrashes
    \/ "load" \in locked /\ guiPC' = after /\ UNCHANGED <<locked, worker>>

\* openFile(): Discard is among the answers to maybeSave(), so the flag does
\* not keep anybody from loading.
loadShow(file) ==
    /\ UserMay
    /\ StartLoad(file, "idle") /\ Counted
    /\ marked' = (marked /\ guiPC' # "clear")
    /\ UNCHANGED <<sources, saver, kept, engineQueue, engineLoop,
                   clearing, argv, guiQueue, grids, view, unsaved>>

\* main() hands the files of the command line to loadFile() one by one, then
\* enters the event loop.
MainLoadsFile ==
    /\ guiPC = "main" /\ argv # <<>>
    /\ StartLoad(Head(argv), "main")
    /\ argv' = Tail(argv)
    /\ UNCHANGED <<sources, saver, kept, engineQueue, engineLoop,
                   clearing, guiQueue, grids, view, window, requests>>

MainEntersLoop ==
    /\ guiPC = "main" /\ argv = <<>>
    /\ guiPC' = "idle"
    /\ UNCHANGED <<sources, locked, workers, engineQueue, engineLoop,
                   clearing, argv, guiQueue, grids, view, window, requests>>

\* loadShow's loop over the vector: read the pointer under the lock, ...
ReadSlot ==
    /\ guiPC = "clear" /\ clearing.i < Len(sources)
    /\ clearing' = [clearing EXCEPT !.op = At(clearing.i)]
    /\ guiPC' = "null"
    /\ UNCHANGED <<sources, locked, workers, engineQueue, engineLoop,
                   argv, guiQueue, grids, view, window, requests>>

\* ... null the slot under the lock taken again, ...
NullSlot ==
    /\ guiPC = "null"
    /\ Store(Stored(clearing.i, Empty))
    /\ guiPC' = "tell"
    /\ UNCHANGED <<locked, saver, worker, engineQueue, engineLoop,
                   clearing, argv, guiQueue, grids, view, window, requests>>

\* Mutation of TellGrids: frameSourceChanged() is not emitted.
TellNobody ==
    /\ guiPC = "tell"
    /\ clearing' = [i |-> clearing.i + 1, op |-> Empty]
    /\ guiPC' = "clear"
    /\ UNCHANGED <<sources, locked, workers, engineQueue, engineLoop,
                   argv, guiQueue, grids, view, window, requests>>

\* ... and tell the grids, which are in this thread, if there was anything.
TellGrids ==
    /\ guiPC = "tell"
    /\ view' = IF clearing.op # Empty /\ Shown(clearing.i)
               THEN [view EXCEPT ![clearing.i] = At(clearing.i)] ELSE view
    /\ clearing' = [i |-> clearing.i + 1, op |-> Empty]
    /\ guiPC' = "clear"
    /\ UNCHANGED <<sources, locked, workers, engineQueue, engineLoop,
                   argv, guiQueue, grids, window, requests>>

\* Then empty the vector and start the loader.
ClearVector ==
    /\ guiPC = "clear" /\ clearing.i >= Len(sources)
    /\ Store(<<>>)
    /\ worker' = [worker EXCEPT !["load"].pc = "next"]
    /\ guiPC' = IF requests = 0 THEN "main" ELSE "idle"
    /\ clearing' = NotClearing
    /\ UNCHANGED <<locked, saver, engineQueue, engineLoop,
                   argv, guiQueue, grids, view, window, requests>>

Undisturbed == /\ {"save", "load"} \cap locked = {}
               /\ \A i \in DOMAIN guiQueue : guiQueue[i].type \notin {"showSaved", "showLoaded"}

\* importShow(files, pos), refused while an import is running; pos = -1 is the
\* menu, which also calls modified(), refused or not, the others are a cell's
\* menu, which does not.
importShow(frames, pos) ==
    /\ UserMay /\ requests' = requests + 1
    /\ IF "import" \in locked THEN UNCHANGED <<locked, worker>>
       ELSE /\ locked' = locked \cup {"import"}
            /\ worker' = [worker EXCEPT !["import"] = [pc |-> "next", left |-> frames, pos |-> pos]]
    /\ unsaved' = (unsaved \/ pos < 0)
    /\ marked' = (marked \/ (pos < 0 /\ Undisturbed))
    /\ UNCHANGED <<sources, saver, kept, engineQueue, engineLoop, gui>>

\* mimeHandler(): a frame dropped on a cell is stored and shown at once.
Drop(frame, pos) ==
    /\ UserMay /\ requests' = requests + 1
    /\ Shown(pos)
    /\ Store(Stored(pos, frame))
    /\ view' = [view EXCEPT ![pos] = frame]
    /\ UNCHANGED <<locked, saver, worker, engineQueue, engineLoop,
                   guiPC, clearing, argv, guiQueue, grids, window>>
-----------------------------------------------------------------------------
(***************************************************************************)
(* The workers.                                                            *)
(***************************************************************************)
\* Mutation of SaveSlot: an empty slot is skipped with the one behind it.
SaveSlotSkips ==
    /\ saver.pc = "writing" /\ saver.i < Len(sources)
    /\ saver' = [saver EXCEPT
                    !.i = IF At(saver.i) = Empty THEN @ + 2 ELSE @ + 1,
                    !.image = IF At(saver.i) = Empty THEN @
                              ELSE @ \cup {[pos |-> saver.i, frame |-> At(saver.i)]}]
    /\ UNCHANGED <<sources, locked, kept, worker, engineQueue, engineLoop,
                   gui, window, requests>>

\* ShowSaver::run(): one slot ...
SaveSlot ==
    /\ saver.pc = "writing" /\ saver.i < Len(sources)
    /\ saver' = [saver EXCEPT
                    !.i = @ + 1,
                    !.image = IF At(saver.i) = Empty THEN @
                              ELSE @ \cup {[pos |-> saver.i, frame |-> At(saver.i)]}]
    /\ UNCHANGED <<sources, locked, kept, worker, engineQueue, engineLoop,
                   gui, window, requests>>

\* ... and the end of the vector.
SaverFinished ==
    /\ saver.pc = "writing" /\ saver.i >= Len(sources)
    /\ saver' = [saver EXCEPT !.pc = "done"]
    /\ engineQueue' = Append(engineQueue, "Saved")
    /\ UNCHANGED <<sources, locked, kept, worker, engineLoop, gui, window, requests>>

\* addFrameSource() in a worker thread: store under the lock ...
addFrameSource(w, pos, frame) ==
    /\ Store(Stored(pos, frame))
    /\ worker' = [worker EXCEPT ![w].pc = IF pos >= Len(sources) THEN "emitSize" ELSE "emit",
                                ![w].left = Tail(@), ![w].pos = pos]

\* ... and emit the signals after it, the size as it is by then.
EmitSize(w) ==
    /\ worker[w].pc = "emitSize"
    /\ guiQueue' = Append(guiQueue, Resized(Len(sources)))
    /\ worker' = [worker EXCEPT ![w].pc = "emit"]
    /\ UNCHANGED <<sources, locked, saver, kept, engineQueue, engineLoop,
                   guiPC, clearing, argv, grids, view, window, requests>>

\* A grid gets the frameSourceChanged() that are emitted once it is connected.
EmitChanged(w) ==
    /\ worker[w].pc = "emit"
    /\ guiQueue' = IF Shown(worker[w].pos)
                   THEN Append(guiQueue, Changed(worker[w].pos)) ELSE guiQueue
    /\ worker' = [worker EXCEPT ![w].pc = "next", ![w].pos = -1]
    /\ UNCHANGED <<sources, locked, saver, kept, engineQueue, engineLoop,
                   guiPC, clearing, argv, grids, view, window, requests>>

\* ShowLoader::run(): the next Sequence of the file.
LoadSequence ==
    /\ worker["load"].pc = "next" /\ worker["load"].left # <<>>
    /\ LET item == Head(worker["load"].left)
       IN  addFrameSource("load", item.pos, item.frame)
    /\ UNCHANGED <<locked, saver, engineQueue, engineLoop, gui, window, requests>>

\* ShowImporter::run(): the next file; the first one that loads goes to the
\* position asked for, the others to free slots.
ImportFile ==
    /\ worker["import"].pc = "next" /\ worker["import"].left # <<>>
    /\ LET frame == Head(worker["import"].left)
           pos == IF worker["import"].pos < 0 THEN FirstFree ELSE worker["import"].pos
       IN  IF frame = Empty
           THEN /\ worker' = [worker EXCEPT !["import"].left = Tail(@)]
                /\ UNCHANGED <<sources, kept>>
           ELSE addFrameSource("import", pos, frame)
    /\ UNCHANGED <<locked, saver, engineQueue, engineLoop, gui, window, requests>>

Completion == [load |-> "Loaded", import |-> "Imported"]

WorkerFinished(w) ==
    /\ worker[w].pc = "next" /\ worker[w].left = <<>>
    /\ worker' = [worker EXCEPT ![w] = [NoWorker EXCEPT !.pc = "done"]]
    /\ engineQueue' = Append(engineQueue, Completion[w])
    /\ UNCHANGED <<sources, locked, saver, kept, engineLoop, gui, window, requests>>
-----------------------------------------------------------------------------
(***************************************************************************)
(* Engine thread.                                                          *)
(***************************************************************************)
EngineTakes(event) == engineLoop /\ engineQueue # <<>> /\ Head(engineQueue) = event
Told(type) == guiQueue' = Append(guiQueue, [type |-> type, n |-> 0])

\* Saved(): closing the compressor completes the file.
Saved ==
    /\ EngineTakes("Saved")
    /\ locked' = locked \ {"save"}
    /\ engineQueue' = Tail(engineQueue)
    /\ Told("showSaved")
    /\ UNCHANGED <<sources, workers, engineLoop, guiPC, clearing, argv, grids, view,
                   window, requests>>

\* Mutation of Completed: the mutex is not given back.
CompletedKeepsLock(w) ==
    /\ EngineTakes(Completion[w])
    /\ engineQueue' = Tail(engineQueue)
    /\ UNCHANGED <<sources, locked, workers, engineLoop, gui, window, requests>>

\* Mutation of Completed: every completion tells the window of a load.
CompletedTellsAll(w) ==
    /\ EngineTakes(Completion[w])
    /\ locked' = locked \ {w}
    /\ engineQueue' = Tail(engineQueue)
    /\ Told("showLoaded")
    /\ UNCHANGED <<sources, workers, engineLoop, guiPC, clearing, argv, grids, view,
                   window, requests>>

\* Loaded() and Imported(); nobody is connected to showImported().
Completed(w) ==
    /\ EngineTakes(Completion[w])
    /\ locked' = locked \ {w}
    /\ engineQueue' = Tail(engineQueue)
    /\ IF w = "load" THEN Told("showLoaded") ELSE UNCHANGED guiQueue
    /\ UNCHANGED <<sources, workers, engineLoop, guiPC, clearing, argv, grids, view,
                   window, requests>>
-----------------------------------------------------------------------------
(***************************************************************************)
(* Events in the GUI thread.                                               *)
(***************************************************************************)
GuiTakes(type) == /\ guiPC = "idle" /\ guiQueue # <<>> /\ Head(guiQueue).type = type

\* ButtonGrid::frameSourceChanged(pos) reads the slot as it is by now.
frameSourceChanged ==
    /\ GuiTakes("frameSourceChanged")
    /\ view' = [view EXCEPT ![Head(guiQueue).n] = At(Head(guiQueue).n)]
    /\ guiQueue' = Tail(guiQueue)
    /\ UNCHANGED <<sources, locked, workers, engineQueue, engineLoop,
                   guiPC, clearing, argv, grids, window, requests>>

\* sourcesSizeChanged(n): while there are too few grids, construct one, which
\* fills its cells from the engine ...
NewGrid ==
    /\ GuiTakes("sourcesSizeChanged") /\ Head(guiQueue).n > GridSize * grids
    /\ view' = [p \in Positions |->
                   IF p \div GridSize = grids THEN At(p) ELSE view[p]]
    /\ guiPC' = "connect"
    /\ UNCHANGED <<sources, locked, workers, engineQueue, engineLoop,
                   clearing, argv, guiQueue, grids, window, requests>>

\* ... then connect it.
ConnectGrid ==
    /\ guiPC = "connect"
    /\ grids' = grids + 1
    /\ guiPC' = "idle"
    /\ UNCHANGED <<sources, locked, workers, engineQueue, engineLoop,
                   clearing, argv, guiQueue, view, window, requests>>

EnoughGrids ==
    /\ GuiTakes("sourcesSizeChanged") /\ Head(guiQueue).n <= GridSize * grids
    /\ guiQueue' = Tail(guiQueue)
    /\ UNCHANGED <<sources, locked, workers, engineQueue, engineLoop,
                   guiPC, clearing, argv, grids, view, window, requests>>

\* ButtonWindow::saved() and loaded(): the flag is reset, whatever has been
\* changed since the save or load began.
savedOrLoaded ==
    /\ GuiTakes("showSaved") \/ GuiTakes("showLoaded")
    /\ unsaved' = FALSE
    /\ guiQueue' = Tail(guiQueue)
    /\ UNCHANGED <<sources, locked, workers, engineQueue, engineLoop,
                   guiPC, clearing, argv, grids, view, marked, requests>>
-----------------------------------------------------------------------------
(***************************************************************************)
(* Shutdown.  main() returns, the window goes, ~EngineStarter quits the    *)
(* engine thread's loop and waits for it, then ~Engine waits for the save  *)
(* and load mutexes (polling tryLock) before it returns.                   *)
(***************************************************************************)
GuiUnchanged == UNCHANGED <<clearing, argv, guiQueue, grids, view>>
ShutdownFrame == UNCHANGED <<sources, workers, engineQueue, window, requests>>

Quit ==
    /\ guiPC = "idle"
    /\ guiPC' = "quit"
    /\ UNCHANGED <<locked, engineLoop>> /\ GuiUnchanged /\ ShutdownFrame

\* The loop ends, whatever is still queued for it.
EngineLoopStops ==
    /\ guiPC = "quit" /\ engineLoop
    /\ engineLoop' = FALSE
    /\ guiPC' = "waitSave"
    /\ UNCHANGED locked /\ GuiUnchanged /\ ShutdownFrame

AwaitSave ==
    /\ guiPC = "waitSave" /\ "save" \notin locked
    /\ locked' = locked \cup {"save"}
    /\ guiPC' = "waitLoad"
    /\ UNCHANGED engineLoop /\ GuiUnchanged /\ ShutdownFrame

AwaitLoad ==
    /\ guiPC = "waitLoad" /\ "load" \notin locked
    /\ locked' = locked \ {"save"}
    /\ guiPC' = "gone"
    /\ UNCHANGED engineLoop /\ GuiUnchanged /\ ShutdownFrame

\* The poll goes on, or the engine or the whole program is no more.
Waiting ==
    /\ guiPC \in {"waitSave", "waitLoad", "gone", "crashed"}
    /\ UNCHANGED vars
-----------------------------------------------------------------------------
UserStep == \/ saveShow
            \/ \E f \in Files : loadShow(f)
            \/ \E fs \in Imports, pos \in Cells \cup {-1} : importShow(fs, pos)
            \/ \E f \in DropFrames, pos \in Cells : Drop(f, pos)

GuiStep == \/ MainLoadsFile \/ MainEntersLoop
           \/ ReadSlot \/ NullSlot \/ TellGrids \/ ClearVector
           \/ frameSourceChanged \/ NewGrid \/ ConnectGrid \/ EnoughGrids \/ savedOrLoaded

WorkerStep(w) == EmitSize(w) \/ EmitChanged(w) \/ WorkerFinished(w)

\* A crash is the end of all threads.
Alive == guiPC # "crashed"

SaverStep == Alive /\ (SaveSlot \/ SaverFinished)
LoaderStep == Alive /\ (LoadSequence \/ WorkerStep("load"))
ImporterStep == Alive /\ (ImportFile \/ WorkerStep("import"))
EngineStep == Alive /\ (Saved \/ Completed("load") \/ Completed("import"))
ShutdownStep == EngineLoopStops \/ AwaitSave \/ AwaitLoad

Next == \/ UserStep \/ Quit \/ GuiStep
        \/ SaverStep \/ LoaderStep \/ ImporterStep
        \/ EngineStep
        \/ ShutdownStep \/ Waiting

Spec == Init /\ [][Next]_vars

\* Every thread is scheduled.  The user need not ask for anything, and need
\* not quit.
FairSpec == /\ Spec
            /\ WF_vars(GuiStep) /\ WF_vars(EngineStep) /\ WF_vars(ShutdownStep)
            /\ WF_vars(SaverStep) /\ WF_vars(LoaderStep) /\ WF_vars(ImporterStep)
-----------------------------------------------------------------------------
Idle(w) == worker[w].pc \in {"none", "done", "deleted"}

Entries == [pos : Nat, frame : Frames]
GuiEvents == [type : {"frameSourceChanged", "sourcesSizeChanged", "showSaved", "showLoaded"},
              n : Nat]

\* Every variable keeps its type; what a worker has left is of the kind it reads.
TypeOK ==
    /\ sources \in Seq(Contents)
    /\ locked \subseteq {"save", "load", "import"}
    /\ saver \in [pc : {"none", "writing", "done", "deleted"}, i : Nat, image : SUBSET Entries]
    /\ kept \subseteq Entries
    /\ worker \in [{"load", "import"} ->
                      [pc : {"none", "next", "emitSize", "emit", "done", "deleted"},
                       left : Seq(Entries) \cup Seq(Contents), pos : Nat \cup {-1}]]
    /\ worker["load"].left \in Seq(Entries) /\ worker["import"].left \in Seq(Contents)
    /\ \A w \in {"load", "import"} :
          worker[w].pc \in {"emitSize", "emit"} => worker[w].pos \in Nat
    /\ engineQueue \in Seq({"Saved", "Loaded", "Imported"}) /\ engineLoop \in BOOLEAN
    /\ guiPC \in {"main", "clear", "null", "tell", "idle", "connect",
                  "quit", "waitSave", "waitLoad", "gone", "crashed"}
    /\ clearing \in [i : Nat, op : Contents] /\ argv \in Seq(Files)
    /\ guiQueue \in Seq(GuiEvents)
    /\ grids \in Nat \ {0} /\ view \in [Positions -> Contents]
    /\ unsaved \in BOOLEAN /\ marked \in BOOLEAN /\ requests \in Nat

\* Nobody is changing the vector or has yet to say so.
Settled == /\ guiPC = "idle" /\ guiQueue = <<>>
           /\ \A w \in DOMAIN worker : worker[w].pc \notin {"emitSize", "emit"}

\* "This connection ensures that the grids have a consistent view of what is
\* loaded into the engine": once the events have been handled every cell of
\* the grid that is there from the start shows its slot, whatever the workers,
\* the clearing of a show and the drops did meanwhile.  (A grid made later can
\* miss a change between its construction and its connection.)
FirstGridConsistent ==
    Settled => \A p \in Positions : p < GridSize => view[p] = At(p)

\* A mutex is held exactly while its job is running or its completion is
\* queued: no completion unlocks a mutex another job has taken.  And until then
\* nobody deletes the thread of the job, whatever is refused or fails meanwhile.
LocksFollowJobs ==
    guiPC \notin {"waitLoad"} =>
        /\ "save" \in locked <=> saver.pc = "writing" \/ Contains(engineQueue, "Saved")
        /\ "load" \in locked <=> \/ guiPC \in {"clear", "null", "tell"} \/ ~Idle("load")
                                 \/ Contains(engineQueue, "Loaded")
        /\ "import" \in locked <=> ~Idle("import") \/ Contains(engineQueue, "Imported")
        /\ Contains(engineQueue, "Saved") => saver.pc = "done"
        /\ \A w \in {"load", "import"} :
              Contains(engineQueue, Completion[w]) => worker[w].pc = "done"

\* What is in the show from the moment a save is asked for until the saver has
\* come to the end is in the file, whatever is loaded, imported and dropped
\* around it meanwhile.  (What a load clears under the saver is not.)
SavesWhatStays == Contains(engineQueue, "Saved") => kept \subseteq saver.image

\* An import chosen from the menu while no save or load is on its way is
\* unsaved until one is asked for.  (One chosen during a save is forgotten when
\* the save ends.)
ImportStaysUnsaved == marked => unsaved

\* Every save, every import and every load of a file that can be read to its
\* end comes to its end and gives its mutex back, whatever the other jobs do
\* and whatever was refused before: until the user quits, and unless the
\* program crashes on what a file that did not open has left behind.
JobsEnd ==
    \A m \in {"save", "load", "import"} :
        m \in locked ~> \/ m \notin locked
                        \/ guiPC \in {"quit", "waitSave", "waitLoad", "gone", "crashed"}

\* "make sure any file save threads have finished": the destructor returns.
ShutdownEnds == guiPC = "quit" ~> guiPC = "gone"
=============================================================================
