----------------------------- MODULE SourceTree -----------------------------
(***************************************************************************)
(* Trees of frame sources (framesource_impl.cpp) as operators on a heap: a *)
(* function from the addresses in use to nodes [kind, kids, data].  The    *)
(* kinds are StaticFrame, ColourRotator and FrameSequencer; data holds     *)
(* what the three copy, save and load differently.                         *)
(***************************************************************************)
EXTENDS Integers, SequencesExt

CONSTANT Addresses

ASSUME TreeAssumption == Addresses \subseteq Nat \ {0}

Null == -1
-----------------------------------------------------------------------------
\* newSource(): the constructors.  A harmonic is in thousandths.
StaticFrame(picture) == [kind |-> "Static_frame", kids |-> <<>>,
                         data |-> [picture |-> picture, scale |-> 0, repeats |-> 1]]
ColourRotator == [kind |-> "Colour_modulator", kids |-> <<>>,
                  data |-> [override |-> FALSE, harmonic |-> 5000]]
FrameSequencer == [kind |-> "Frame_sequencer", kids |-> <<>>,
                   data |-> [mode |-> "Sequential", newMode |-> "Sequential"]]

newSource == [Static_frame |-> StaticFrame("nothing"), Colour_modulator |-> ColourRotator,
              Frame_sequencer |-> FrameSequencer]

\* numPossibleChildren(); MANY is more than there are addresses.
Many == Cardinality(Addresses)
numPossibleChildren(node) == CASE node.kind = "Static_frame" -> 0
                               [] node.kind = "Colour_modulator" -> 1
                               [] node.kind = "Frame_sequencer" -> Many

\* copyDataTo(), into a node that has just been constructed: the colour
\* override is assigned to itself, the mode asked for is left out.
copyStaticFrame(n) == n.data
copyColourRotator(n) == [ColourRotator.data EXCEPT !.harmonic = n.data.harmonic]
copyFrameSequencer(n) == [FrameSequencer.data EXCEPT !.mode = n.data.mode]

copyDataTo(node) == CASE node.kind = "Static_frame" -> copyStaticFrame(node)
                      [] node.kind = "Colour_modulator" -> copyColourRotator(node)
                      [] node.kind = "Frame_sequencer" -> copyFrameSequencer(node)

\* load() of what save() has written: a harmonic with a fraction is read as
\* an integer, which fails and gives 0; the mode is read as the mode asked for.
loadStaticFrame(n) == n.data
loadColourRotator(n) == [n.data EXCEPT !.harmonic = IF @ % 1000 = 0 THEN @ ELSE 0]
loadFrameSequencer(n) == [FrameSequencer.data EXCEPT !.newMode = n.data.mode]

loadSaved(node) == CASE node.kind = "Static_frame" -> loadStaticFrame(node)
                     [] node.kind = "Colour_modulator" -> loadColourRotator(node)
                     [] node.kind = "Frame_sequencer" -> loadFrameSequencer(node)
-----------------------------------------------------------------------------
\* The addresses of the tree at r.
Subtree(heap, r) ==
    LET level[i \in 0..Cardinality(Addresses)] ==
            IF i = 0 THEN {r} \ {Null} ELSE UNION {Range(heap[x].kids) : x \in level[i - 1]}
    IN  UNION Range(level)

\* Addresses for n new nodes; there may be too few.
Sorted(S) == [i \in 1..Cardinality(S) |-> CHOOSE x \in S : Cardinality({y \in S : y < x}) = i - 1]
Fresh(heap, n) == SubSeq(Sorted(Addresses \ DOMAIN heap), 1, n)
HasRoom(heap, n) == Cardinality(Addresses \ DOMAIN heap) >= n

\* What a node gets of the data of the one it is made from, by clone() or by
\* way of the text.
NewData(node, way) == IF way = "clone" THEN copyDataTo(node) ELSE loadSaved(node)

\* Mutation of Copies: the children of children are left out.
CopiesOneLevel(from, r, way) ==
    {<<x, [from[x] EXCEPT !.data = NewData(from[x], way),
                          !.kids = IF x = r THEN @ ELSE <<>>]>> : x \in Subtree(from, r)}

\* The nodes of a copy of the tree at r, each with the address of the node it
\* is made from: clone() and saveFrames() with loadFrames() visit every child.
Copies(from, r, way) ==
    {<<x, [from[x] EXCEPT !.data = NewData(from[x], way)]>> : x \in Subtree(from, r)}

\* The heap with a copy of the tree at r of "from" in it, and its address.
Copied(heap, from, r, way) ==
    LET made == Copies(from, r, way)
        order == Sorted({c[1] : c \in made})
        at == [x \in Range(order) |-> Fresh(heap, Len(order))[CHOOSE i \in DOMAIN order : order[i] = x]]
        moved(kids) == [i \in DOMAIN kids |-> IF kids[i] \in DOMAIN at THEN at[kids[i]] ELSE kids[i]]
        node == [c \in made |-> [c[2] EXCEPT !.kids = moved(@)]]
    IN  [heap |-> heap @@ [a \in Range(at) |-> node[CHOOSE c \in made : at[c[1]] = a]],
         root |-> at[r]]

\* addChild(): within the limits of the kind, at a position that exists.
addChild(heap, p, x, pos) ==
    IF Len(heap[p].kids) >= numPossibleChildren(heap[p]) \/ pos > Len(heap[p].kids) THEN heap
    ELSE [heap EXCEPT ![p].kids = InsertAt(@, pos + 1, x)]

\* deleteChild(): the caller has seen that there is such a child.
deleteChild(heap, p, pos) == [heap EXCEPT ![p].kids = RemoveAt(@, pos + 1)]
=============================================================================
