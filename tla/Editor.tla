------------------------------- MODULE Editor -------------------------------
(***************************************************************************)
(* The parameter editor (editparams.cpp) on the frame sources of the cells *)
(* it is opened from: its clone of a source, the tree of items that shows  *)
(* the clone, the node whose controls are on display, the playback that    *)
(* animates it, and the drops (mime.cpp) that carry sources between the    *)
(* cells, the editor, its list of node types and other programs.  All of   *)
(* it is in the GUI thread.  What a cell holds may be projected by a head  *)
(* in another thread at any time, without a lock on the tree.              *)
(*                                                                         *)
(* Each editData() opens a dialog with its own clone; one is modelled.     *)
(* A failed assertion ends the program: aborted.                           *)
(***************************************************************************)
EXTENDS SourceTree

CONSTANTS
    Cells,
    Picture,    \* the picture that has been imported to every cell
    Foreign,    \* a tree, as a heap with its root, in a text of another program
    Kinds,      \* the node types the user drags from the list
    Harmonics, Modes,  \* what the user sets
    MaxChanges  \* bound: how often the user drops something, sets a parameter or reloads the show

ASSUME EditorAssumption == MaxChanges \in Nat

VARIABLES
    node,      \* the heap
    cell,      \* the engine's slots: the address of the source of each cell
    root,      \* the source the editor's top level item stands for, or Null
    items,     \* the items: the source of each, with the sources of its child items
    fs,        \* the source whose controls are shown
    playback,  \* [src, made]: a Playback, with the nodes it was made for
    timer,     \* is the animation running?
    edited,    \* history: has a drop changed a node the playback was made for?
    spliced,   \* history: has a sequencer been spliced in?
    aborted,
    changes    \* bound: drops, parameters set and reloads so far

editor == <<root, items, fs, playback, timer, edited, spliced>>
vars == <<node, cell, editor, aborted, changes>>

NoPlayback == [src |-> Null, made |-> <<>>]
NoItems == <<>>

Init == LET order == Sorted(Cells) IN
    /\ cell = [c \in Cells |-> Fresh(<<>>, Cardinality(Cells))[CHOOSE i \in DOMAIN order : order[i] = c]]
    /\ node = [a \in Range(cell) |-> StaticFrame(Picture)]
    /\ root = Null /\ items = NoItems /\ fs = Null /\ playback = NoPlayback
    /\ timer = FALSE /\ edited = FALSE /\ spliced = FALSE /\ aborted = FALSE /\ changes = 0
Changing == ~aborted /\ changes < MaxChanges /\ changes' = changes + 1
-----------------------------------------------------------------------------
(***************************************************************************)
(* Playbacks.                                                              *)
(***************************************************************************)
\* Mutation of createPlayback: the playback has no children.
createPlaybackOfRoot(heap, r) ==
    [src |-> r, made |-> [x \in Subtree(heap, r) |-> [kind |-> heap[x].kind, kids |-> <<>>]]]

\* Playback(r) and createPlayback(): the shape of the tree as it is now.
createPlayback(heap, r) ==
    [src |-> r, made |-> [x \in Subtree(heap, r) |-> [kind |-> heap[x].kind, kids |-> heap[x].kids]]]

\* The children nextFrame() may ask: a static frame has none, a colour rotator
\* asks its only one, a sequencer goes on until a child has a frame or its
\* table ends.
StaticFrameAsks(n) == {{}}
ColourRotatorAsks(n) == {{1} \cap DOMAIN n.kids}
FrameSequencerAsks(n) == SUBSET DOMAIN n.kids

Asks(n) == CASE n.kind = "Static_frame" -> StaticFrameAsks(n)
             [] n.kind = "Colour_modulator" -> ColourRotatorAsks(n)
             [] n.kind = "Frame_sequencer" -> FrameSequencerAsks(n)

\* A sequencer without children reads an empty table and its assertion fails.
Stuck(n) == n.kind = "Frame_sequencer" /\ n.kids = <<>>

Fails == [seen |-> {}, fine |-> FALSE]

\* What nextFrame() of node x with the playback that was made for y may visit,
\* and whether it ends well: the playback of every node it asks has to be
\* there and of the kind of the node.
RECURSIVE Visits(_, _, _, _)
Visits(heap, x, y, made) ==
    LET below(i) == IF i \in DOMAIN made[y].kids
                    THEN Visits(heap, heap[x].kids[i], made[y].kids[i], made)
                    ELSE {Fails}
        together(S) == {f \in [S -> UNION {below(i) : i \in S}] : \A i \in S : f[i] \in below(i)}
    IN  IF heap[x].kind # made[y].kind \/ Stuck(heap[x]) THEN {Fails}
        ELSE UNION {{[seen |-> {x} \cup UNION {f[i].seen : i \in S},
                      fine |-> \A i \in S : f[i].fine] : f \in together(S)} : S \in Asks(heap[x])}

\* A sequencer that is asked for a frame adopts the mode asked for.
AdoptModes(heap, seen) ==
    [x \in DOMAIN heap |->
        IF x \in seen /\ heap[x].kind = "Frame_sequencer"
        THEN [heap[x] EXCEPT !.data.mode = heap[x].data.newMode] ELSE heap[x]]

\* Nodes nothing refers to any more are freed; the items and the editor hold
\* shared pointers.
Collected(heap, roots) ==
    LET live == UNION {Subtree(heap, r) : r \in roots} IN [x \in live |-> heap[x]]

Referred == Range(cell') \cup {root', fs'} \cup DOMAIN items' \cup {playback'.src}

\* updateDisplay() with playback pb, as the last thing a handler does.
updateDisplay(heap, pb) ==
    \E v \in IF pb.src = Null THEN {[seen |-> {}, fine |-> TRUE]}
             ELSE Visits(heap, pb.src, pb.src, pb.made) :
        /\ node' = Collected(AdoptModes(heap, v.seen), Referred \ {Null})
        /\ aborted' = ~v.fine
-----------------------------------------------------------------------------
(***************************************************************************)
(* Drags and drops.                                                        *)
(***************************************************************************)
\* What can be dragged: the source of a cell, of an item in the editor, a new
\* one of a kind from the list, or a text.
CellDrags == {"source"} \X Range(cell)
ItemDrags == {"source"} \X DOMAIN items
KindDrags == {"kind"} \X Kinds
TextDrags == {<<"text", Foreign>>}
Drags == CellDrags \cup ItemDrags \cup KindDrags \cup TextDrags

\* Mutation of getSource: no clone.
getSourceItself(heap, drag) ==
    CASE drag[1] = "source" -> [heap |-> heap, root |-> drag[2]]
      [] drag[1] = "kind" -> Copied(heap, 0 :> newSource[drag[2]], 0, "clone")
      [] drag[1] = "text" -> Copied(heap, drag[2].heap, drag[2].root, "text")

\* getSource(): a clone, or what fromString() makes of the text.
getSource(heap, drag) ==
    CASE drag[1] = "source" -> Copied(heap, heap, drag[2], "clone")
      [] drag[1] = "kind" -> Copied(heap, 0 :> newSource[drag[2]], 0, "clone")
      [] drag[1] = "text" -> Copied(heap, drag[2].heap, drag[2].root, "text")

Size(drag) == CASE drag[1] = "source" -> Cardinality(Subtree(node, drag[2]))
                [] drag[1] = "kind" -> 1
                [] drag[1] = "text" -> Cardinality(DOMAIN drag[2].heap)

\* Engine::mimeHandler() stores the source; ScreenDisplay::source() rewinds its
\* playback and shows the first frame.
StoreInCell(c, got) ==
    /\ cell' = [cell EXCEPT ![c] = got.root]
    /\ UNCHANGED editor
    /\ \E v \in Visits(got.heap, got.root, got.root, createPlayback(got.heap, got.root).made) :
          /\ node' = Collected(AdoptModes(got.heap, v.seen), Referred \ {Null})
          /\ aborted' = ~v.fine

DropOnCell(c, drag) ==
    /\ Changing /\ HasRoom(node, Size(drag))
    /\ StoreInCell(c, getSource(node, drag))

\* The animation of a cell the mouse is over.
advance(c) ==
    /\ ~aborted /\ UNCHANGED <<cell, editor, changes>>
    /\ updateDisplay(node, createPlayback(node, cell[c]))

\* The show is saved and loaded again.
SaveAndLoad(c) ==
    /\ Changing /\ HasRoom(node, Cardinality(Subtree(node, cell[c])))
    /\ StoreInCell(c, Copied(node, node, cell[c], "text"))
-----------------------------------------------------------------------------
(***************************************************************************)
(* The editor.                                                             *)
(***************************************************************************)
\* The items populateTree() makes for the tree at r.
Populated(heap, r) == [x \in Subtree(heap, r) |-> heap[x].kids]

\* updateControls(p): a playback of p, and no animation without children.
updateControls(heap, p) ==
    /\ fs' = p /\ playback' = createPlayback(heap, p) /\ edited' = FALSE
    /\ timer' = (timer /\ heap[p].kids # <<>>)
    /\ updateDisplay(heap, playback')

\* Mutation of load: the editor works on the source of the cell.
loadInPlace(c) ==
    /\ ~aborted /\ root = Null
    /\ root' = cell[c] /\ items' = Populated(node, cell[c])
    /\ spliced' = FALSE /\ UNCHANGED <<cell, changes>>
    /\ updateControls(node, cell[c])

\* ScreenDisplay::editData() and load(): the editor works on a clone.
load(c) ==
    /\ ~aborted /\ root = Null /\ HasRoom(node, Cardinality(Subtree(node, cell[c])))
    /\ LET got == Copied(node, node, cell[c], "clone") IN
       /\ root' = got.root /\ items' = Populated(got.heap, got.root)
       /\ spliced' = FALSE /\ UNCHANGED <<cell, changes>>
       /\ updateControls(got.heap, got.root)

closeEvent ==
    /\ ~aborted /\ root # Null
    /\ root' = Null /\ items' = NoItems /\ fs' = Null /\ playback' = NoPlayback
    /\ timer' = FALSE /\ edited' = FALSE /\ spliced' = FALSE
    /\ node' = Collected(node, Range(cell)) /\ UNCHANGED <<cell, aborted, changes>>

\* itemClickedData() and selectionChangedData()
itemClickedData(x) ==
    /\ ~aborted
    /\ UNCHANGED <<cell, root, items, spliced, changes>>
    /\ updateControls(node, x)

playButtonData ==
    /\ ~aborted /\ fs # Null /\ ~timer
    /\ playback.made[fs].kids # <<>>  \* else the button is disabled
    /\ timer' = TRUE
    /\ UNCHANGED <<node, cell, root, items, fs, playback, edited, spliced, aborted, changes>>

\* A first click stops, a second one rewinds and shows the first frame.
stopButtonData ==
    /\ ~aborted /\ fs # Null /\ playback.made[fs].kids # <<>>
    /\ timer' = FALSE
    /\ UNCHANGED <<cell, root, items, fs, playback, edited, spliced, changes>>
    /\ IF timer THEN UNCHANGED <<node, aborted>> ELSE updateDisplay(node, playback)

Tick ==
    /\ ~aborted /\ timer
    /\ UNCHANGED <<cell, editor, changes>>
    /\ updateDisplay(node, playback)

\* The controls of the node on display change it in place; those of a static
\* frame that emit graphicsChanged() also show the next frame.
Set(x, data) ==
    /\ Changing /\ UNCHANGED <<cell, editor>>
    /\ node' = [node EXCEPT ![x].data = data] /\ UNCHANGED aborted

scaleChanged ==
    /\ Changing /\ fs # Null /\ node[fs].kind = "Static_frame"
    /\ UNCHANGED <<cell, editor>>
    /\ updateDisplay([node EXCEPT ![fs].data.scale = 1 - @], playback)

repeatChangedData ==
    /\ fs # Null /\ node[fs].kind = "Static_frame"
    /\ Set(fs, [node[fs].data EXCEPT !.repeats = 3 - @])

overrideSwitchData ==
    /\ fs # Null /\ node[fs].kind = "Colour_modulator"
    /\ Set(fs, [node[fs].data EXCEPT !.override = ~@])

pulserHarmonicData(h) ==
    /\ fs # Null /\ node[fs].kind = "Colour_modulator"
    /\ Set(fs, [node[fs].data EXCEPT !.harmonic = h])

modeChangedData(m) ==
    /\ fs # Null /\ node[fs].kind = "Frame_sequencer"
    /\ Set(fs, [node[fs].data EXCEPT !.newMode = m])

\* The widgets of each kind are given the node's values before they are
\* connected, so to show them changes nothing; then they do these things.  The
\* dwell of a static frame is set like its repeats, the angle like the scale;
\* the other flags of a rotator like the override, its other dials like the
\* harmonic.
StaticFrameGui == scaleChanged \/ repeatChangedData
ColourRotatorGui == overrideSwitchData \/ \E h \in Harmonics : pulserHarmonicData(h)
FrameSequencerGui == \E m \in Modes : modeChangedData(m)
ParameterEditor == closeEvent \/ playButtonData \/ stopButtonData \/ Tick
-----------------------------------------------------------------------------
\* The item p has one child already and room for one only.  The child is to
\* become a child of a new sequencer, but it is the child's own first child
\* that is deleted (or the assertion in deleteChild() fails), and the new
\* sequencer takes the place of p's source in the item, not in the tree.
Full(p) == numPossibleChildren(node[p]) = 1 /\ Len(node[p].kids) = 1

Splice(p) ==
    LET s == Fresh(node, 1)[1]
        t == items[p][1]
        heap == deleteChild(deleteChild(node, t, 0) @@ (s :> [FrameSequencer EXCEPT !.kids = <<t>>]), p, 0)
        replaced(kids) == [i \in DOMAIN kids |-> IF kids[i] = p THEN s ELSE kids[i]]
        below == Subtree([x \in DOMAIN items |-> [kids |-> items[x]]], t)
    IN  [heap |-> heap, at |-> s, root |-> IF root = p THEN s ELSE root,
         items |-> Populated(heap, s)
                   @@ [x \in DOMAIN items \ ({p} \cup below) |-> replaced(items[x])]]

NotSpliced(p) == [heap |-> node, at |-> p, root |-> root, items |-> items]

\* Mutation of Acceptable: a full parent is not refused.
AcceptableAlways(heap, p) == TRUE

Acceptable(heap, p) == Len(heap[p].kids) < numPossibleChildren(heap[p])

\* The nodes a drop on item p changes.  No playback is told.
Changed(p) == IF Full(p) THEN {p, items[p][1]}
              ELSE IF Acceptable(node, p) THEN {p} ELSE {}

\* dropMimeData() on item p, before its child item at index.
dropMimeData(p, index, drag) ==
    /\ Changing /\ index \in 0..Len(items[p])
    /\ IF Full(p) /\ (items[p] = <<>> \/ node[items[p][1]].kids = <<>>)
       THEN aborted' = TRUE /\ UNCHANGED <<node, cell, editor>>
       ELSE LET sp == IF Full(p) THEN Splice(p) ELSE NotSpliced(p)
                got == getSource(sp.heap, drag)
            IN  /\ HasRoom(node, Size(drag) + 1)
                /\ root' = sp.root /\ spliced' = (spliced \/ Full(p))
                /\ edited' = (edited \/ Changed(p) \cap DOMAIN playback.made # {})
                /\ UNCHANGED <<cell, fs, playback, timer, aborted>>
                /\ IF Acceptable(sp.heap, sp.at)
                   THEN /\ items' = [x \in DOMAIN sp.items |->
                                        IF x = sp.at /\ index <= Len(sp.items[x])
                                        THEN InsertAt(sp.items[x], index + 1, got.root)
                                        ELSE sp.items[x]]
                                    @@ Populated(got.heap, got.root)
                        /\ node' = Collected(addChild(got.heap, sp.at, got.root, index), Referred \ {Null})
                   ELSE /\ items' = sp.items /\ node' = Collected(sp.heap, Referred \ {Null})
-----------------------------------------------------------------------------
Done == aborted /\ UNCHANGED vars

Next == \/ \E c \in Cells : load(c) \/ advance(c) \/ SaveAndLoad(c) \/ \E d \in Drags : DropOnCell(c, d)
        \/ ParameterEditor \/ StaticFrameGui \/ ColourRotatorGui \/ FrameSequencerGui
        \/ \E x \in DOMAIN items :
              \/ itemClickedData(x)
              \/ \E i \in 0..Many, d \in Drags : dropMimeData(x, i, d)
        \/ Done

Spec == Init /\ [][Next]_vars
-----------------------------------------------------------------------------
(***************************************************************************)
(* What is true of it.                                                     *)
(***************************************************************************)
\* Every variable keeps its type: what is referred to is there, and no node
\* has more children than its kind allows.
TypeOK ==
    /\ DOMAIN node \subseteq Addresses
    /\ \A x \in DOMAIN node : /\ Range(node[x].kids) \subseteq DOMAIN node
                              /\ Len(node[x].kids) <= numPossibleChildren(node[x])
    /\ Range(cell) \cup DOMAIN items \subseteq DOMAIN node
    /\ {root, fs, playback.src} \subseteq DOMAIN node \cup {Null}
    /\ {timer, edited, spliced, aborted} \subseteq BOOLEAN

\* The sources in the cells and the one in the editor share no node, and no
\* node has two parents: every way of copying a tree copies all of it, however
\* often it is dragged about.  (The heads play what is in the cells without a
\* lock while the editor changes its nodes in place.)
NothingShared ==
    /\ \A x, y \in DOMAIN node : x # y => Range(node[x].kids) \cap Range(node[y].kids) = {}
    /\ \A x \in DOMAIN node : Cardinality(Range(node[x].kids)) = Len(node[x].kids)
    /\ \A c, d \in Cells : c # d => Subtree(node, cell[c]) \cap Subtree(node, cell[d]) = {}
    /\ \A c \in Cells : Subtree(node, cell[c]) \cap (DOMAIN items \cup Subtree(node, fs)) = {}

\* Unless a sequencer has been spliced in, the items show the source tree:
\* no drop is shown that addChild() refused, none it took is missing.
ItemsShowSource ==
    ~spliced => items = IF root = Null THEN NoItems ELSE Populated(node, root)

\* A tree with a sequencer that has no children yet.
EmptySequencerIn(heap, r) == \E x \in Subtree(heap, r) : Stuck(heap[x])

\* nextFrame() finds a playback of the right kind for every node it asks, so no
\* assertion fails, whatever is clicked, played, dragged, dropped elsewhere in
\* the tree or reloaded.  It is otherwise in three cases: a cell or the node on
\* display has a sequencer without children; a drop has changed a node that is
\* being animated, and no item has been clicked since; a colour rotator that
\* has its child is dropped on.
AssertionsHold ==
    [][aborted' /\ ~aborted =>
          \/ \E c \in Cells : EmptySequencerIn(node', cell'[c])
          \/ playback'.src # Null /\ (edited' \/ EmptySequencerIn(node', playback'.src))
          \/ changes' # changes /\ <<cell, node>>' = <<cell, node>> /\ \E p \in DOMAIN items : Full(p)]_vars

\* Nothing that is done in the editor, and no drag out of a cell, changes what
\* is in a cell; to play it only makes its sequencers adopt the mode that was
\* asked for.
CellsStay ==
    [][\A c \in Cells : cell'[c] = cell[c] =>
          LET tree == Subtree(node, cell[c]) IN
          \A x \in tree : AdoptModes(node', tree)[x] = AdoptModes(node, tree)[x]]_vars

\* The look of a tree: its nodes and pictures, without the parameters that
\* copying and saving are known to lose.
RECURSIVE Look(_, _)
Look(heap, x) ==
    [kind |-> heap[x].kind,
     own |-> IF heap[x].kind = "Static_frame" THEN heap[x].data ELSE <<>>,
     kids |-> [i \in DOMAIN heap[x].kids |-> Look(heap, heap[x].kids[i])]]

\* What comes into a cell looks like something that was there to be dragged
\* or saved: no copy, of however many levels, loses or reorders a child.
CellsGetCopies ==
    [][\A c \in Cells : cell'[c] # cell[c] =>
          Look(node', cell'[c]) \in {Look(node, x) : x \in DOMAIN node}
              \cup {Look(Foreign.heap, Foreign.root)} \cup {Look(0 :> newSource[k], 0) : k \in Kinds}]_vars
=============================================================================
