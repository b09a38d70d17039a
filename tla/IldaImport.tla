------------------------------ MODULE IldaImport ------------------------------
(***************************************************************************)
(* Ildaloader::load() (loadilda.cpp), one section of the file per step, as *)
(* ShowImporter::run() (engine.cpp) calls it for one file after the other. *)
(*                                                                         *)
(* A section is [format, items]: the colour indices of the points of a     *)
(* frame of format 0 or 1, the colours of a table (2, 3) or of the points  *)
(* of a true colour frame (4, 5).  Coordinates and names are left out.  A  *)
(* file may have been cut off within its last section; QDataStream then    *)
(* reads zeros.                                                            *)
(***************************************************************************)
EXTENDS Integers, Sequences, SequencesExt

CONSTANTS
    Sections,      \* the sections files are made of
    MaxSections,   \* bound: sections of a file
    Second,        \* a second file that is imported with the first
    Default,       \* the palette to start with (256 colours in the code)
    Black,         \* the colour that is read as zeros
    Garbage,       \* whatever lies behind the end of a vector
    NotIlda,       \* the format of a section that is not named ILDA
    TooMany        \* the items of a true colour table of more than 0xFFFF

Indexed == {0, 1}
TrueFrame == {4, 5}
Cuts == {"none", "name", "header", "items"}
Files == [sections : UNION {[1..n -> Sections] : n \in 0..MaxSections}, cut : Cuts]

\* The items of every section are a sequence: of indices in a frame of format
\* 0 or 1; where the skip leads, in a section of a format load() does not know.
ASSUME ImportAssumption ==
    /\ Default \in Seq(Range(Default)) /\ MaxSections \in Nat
    /\ NotIlda \in Nat /\ NotIlda > 5
    /\ \A s \in Sections :
          /\ s.format \in Nat /\ s.items \in Seq(Range(s.items))
          /\ s.format \in Indexed => s.items \in Seq(Nat)
          /\ s.format > 5 /\ s.format # NotIlda =>
                s.items \in {<<"exact">>, <<"beyond">>, <<"short">>}
    /\ TooMany # <<>> /\ Second \in Files

VARIABLES
    pending,     \* files ShowImporter has not come to yet
    file,        \* the one that is being read
    pc,          \* "next", "reading"
    pos,         \* sections of it that were read
    palette_, colour, trueColour,   \* members of Ildaloader
    frame, sequence,                \* the first frame, and all once there are two
    eof, error,
    idx,         \* where the next source goes, -1 for a free slot
    added        \* the calls of addFrameSource()

importVars == <<pending, file, pc, pos, palette_, colour, trueColour, frame, sequence,
          eof, error, idx, added>>
members == <<palette_, colour, trueColour>>

NoFile == [sections |-> <<>>, cut |-> "none"]
NoFrame == <<>>
Cell == 0    \* the cell whose menu the import was chosen from

ImportInit == /\ \E f \in Files : pending = <<f, Second>>
        /\ file = NoFile /\ pc = "next" /\ pos = 0
        /\ palette_ = <<>> /\ colour = <<>> /\ trueColour = FALSE
        /\ frame = NoFrame /\ sequence = <<>> /\ eof = FALSE /\ error = 0
        /\ idx = Cell /\ added = <<>>
-----------------------------------------------------------------------------
\* v[i] of a std::vector, which is not checked.
Get(v, i) == IF i \in 1..Len(v) THEN v[i] ELSE Garbage

Cut(at) == pos = Len(file.sections) - 1 /\ file.cut = at
Section == file.sections[pos + 1]

\* The number of items the header of the section gives, 0 if it is cut off.
Count == IF Cut("header") THEN 0 ELSE Len(Section.items)

\* Item i as the stream gives it: zero for the one the file ends in.
Item(i, zero) == IF Cut("items") /\ i = Count THEN zero ELSE Section.items[i]

Reading(formats) == /\ pc = "reading" /\ ~eof /\ pos < Len(file.sections)
                    /\ Section.format \in formats

\* A frame is added: the second one makes a sequence.
Frame(fr) ==
    /\ frame' = IF frame = NoFrame THEN fr ELSE frame
    /\ sequence' = IF sequence # <<>> THEN Append(sequence, fr)
                   ELSE IF frame # NoFrame THEN <<frame, fr>> ELSE <<>>
-----------------------------------------------------------------------------
\* ShowImporter takes the next file; load() starts with a default palette.
load ==
    /\ pc = "next" /\ pending # <<>>
    /\ file' = Head(pending) /\ pending' = Tail(pending)
    /\ pc' = "reading" /\ pos' = 0 /\ eof' = FALSE /\ error' = 0
    /\ palette_' = Default /\ colour' = <<>> /\ trueColour' = FALSE
    /\ frame' = NoFrame /\ sequence' = <<>>
    /\ UNCHANGED <<idx, added>>

\* A file that does not open: error 1, and nothing to add.
loadFails ==
    /\ pc = "next" /\ pending # <<>>
    /\ pending' = Tail(pending) /\ error' = 1
    /\ UNCHANGED <<file, pc, pos, members, frame, sequence, eof, idx, added>>

\* A section without the name ends the loop; so may one whose name is cut off
\* (its buffer is not initialised, and may hold the name of the last section).
NotASection ==
    /\ Reading({NotIlda}) \/ (Reading({s.format : s \in Sections}) /\ Cut("name"))
    /\ eof' = TRUE /\ pos' = Len(file.sections) /\ error' = 2
    /\ UNCHANGED <<pending, file, pc, members, frame, sequence, idx, added>>

\* ... or else the rest of it is read as zeros: a frame without points.
NameTakenForIlda ==
    /\ pos > 0 /\ Reading({s.format : s \in Sections}) /\ Cut("name")
    /\ eof' = TRUE /\ pos' = pos + 1
    /\ UNCHANGED <<pending, file, pc, members, frame, sequence, error, idx, added>>

Whole(formats) == Reading(formats) /\ ~Cut("name")

\* Mutation of readFrameSection: the true colour table stays in force.
readFrameSectionKeeps ==
    /\ Whole(Indexed)
    /\ IF Count = 0
       THEN eof' = TRUE /\ UNCHANGED <<frame, sequence, members>>
       ELSE /\ Frame([i \in 1..Count |-> IF trueColour THEN Get(colour, i)
                                         ELSE Get(palette_, Item(i, 0) + 1)])
            /\ UNCHANGED <<members, eof>>
    /\ pos' = pos + 1
    /\ UNCHANGED <<pending, file, pc, error, idx, added>>

\* readFrameSection(): a true colour table serves one frame; no points are the
\* end of the data.
readFrameSection ==
    /\ Whole(Indexed)
    /\ IF Count = 0
       THEN eof' = TRUE /\ UNCHANGED <<frame, sequence, members>>
       ELSE /\ Frame([i \in 1..Count |-> IF trueColour THEN Get(colour, i)
                                         ELSE Get(palette_, Item(i, 0) + 1)])
            /\ colour' = <<>> /\ trueColour' = FALSE
            /\ UNCHANGED <<palette_, eof>>
    /\ pos' = pos + 1
    /\ UNCHANGED <<pending, file, pc, error, idx, added>>

\* readColorTable() replaces the palette, by a shorter one if the table is.
readColorTable ==
    /\ Whole({2})
    /\ palette_' = [i \in 1..Count |-> Item(i, Black)]
    /\ pos' = pos + 1
    /\ UNCHANGED <<pending, file, pc, colour, trueColour, frame, sequence, eof, error, idx, added>>

\* readTrueColorSection(): an absurd table is skipped, by the length it gives,
\* which is taken to be right; an empty one is the end.
readTrueColorSection ==
    /\ Whole({3})
    /\ IF Section.items = TooMany /\ ~Cut("header") THEN UNCHANGED <<members, eof>>
       ELSE IF Count = 0 THEN eof' = TRUE /\ UNCHANGED members
       ELSE /\ colour' = [i \in 1..Count |-> Item(i, Black)] /\ trueColour' = TRUE
            /\ UNCHANGED <<palette_, eof>>
    /\ pos' = pos + 1
    /\ UNCHANGED <<pending, file, pc, frame, sequence, error, idx, added>>

\* readFormat5() leaves a true colour table for the next indexed frame.
readFormat5 ==
    /\ Whole(TrueFrame)
    /\ IF Count = 0 THEN eof' = TRUE /\ UNCHANGED <<frame, sequence>>
       ELSE Frame([i \in 1..Count |-> Item(i, Black)]) /\ UNCHANGED eof
    /\ pos' = pos + 1
    /\ UNCHANGED <<pending, file, pc, members, error, idx, added>>

\* A section of another format is skipped by as many bytes as its first field
\* says, which in a file that follows the standard is part of a name: to the
\* next section, beyond the end, or into the section, where no name is found.
UnknownSection ==
    /\ Whole(Int \ (0..5 \cup {NotIlda}))
    /\ LET skip == IF Cut("header") THEN "exact" ELSE Section.items[1]
       IN  /\ pos' = IF skip = "beyond" THEN Len(file.sections) ELSE pos + 1
           /\ eof' = (skip = "short")
           /\ error' = IF skip = "short" THEN 2 ELSE error
    /\ UNCHANGED <<pending, file, pc, members, frame, sequence, idx, added>>

\* What load() returns: frames in a sequencer below a colour rotator, or one.
Result == IF sequence # <<>> THEN [kind |-> "Colour_modulator", frames |-> sequence]
          ELSE [kind |-> "Static_frame", frames |-> <<frame>>]

\* Mutation of LoadReturns: every source goes to the position asked for.
LoadReturnsSamePlace ==
    /\ pc = "reading" /\ (eof \/ pos = Len(file.sections))
    /\ added' = IF frame = NoFrame THEN added ELSE Append(added, [idx |-> idx, source |-> Result])
    /\ pc' = "next" /\ palette_' = <<>> /\ colour' = <<>>
    /\ UNCHANGED <<pending, file, pos, trueColour, frame, sequence, eof, error, idx>>

\* The loop ends; ShowImporter adds what there is and ignores the error.
LoadReturns ==
    /\ pc = "reading" /\ (eof \/ pos = Len(file.sections))
    /\ added' = IF frame = NoFrame THEN added ELSE Append(added, [idx |-> idx, source |-> Result])
    /\ idx' = IF frame = NoFrame THEN idx ELSE -1
    /\ pc' = "next" /\ palette_' = <<>> /\ colour' = <<>>
    /\ UNCHANGED <<pending, file, pos, trueColour, frame, sequence, eof, error>>

Done == pc = "next" /\ pending = <<>> /\ UNCHANGED importVars

ImportNext == \/ load \/ loadFails \/ NotASection \/ NameTakenForIlda
        \/ readFrameSection \/ readColorTable \/ readTrueColorSection
        \/ readFormat5 \/ UnknownSection \/ LoadReturns \/ Done

ImportSpec == ImportInit /\ [][ImportNext]_importVars
-----------------------------------------------------------------------------
(***************************************************************************)
(* What a file means, without reading it section by section.               *)
(***************************************************************************)
Items(f, k) == f.sections[k].items
Format(f, k) == f.sections[k].format
CutIn(f, k, at) == k = Len(f.sections) /\ f.cut = at
ReadItem(f, k, i, zero) == IF CutIn(f, k, "items") /\ i = Len(Items(f, k)) THEN zero
                           ELSE Items(f, k)[i]
HasItems(f, k) == Items(f, k) # <<>> /\ ~CutIn(f, k, "header")

\* Section k is the last one: not a section, an empty frame or true colour
\* table, or one that is not skipped to its end.
EndsFile(f, k) == \/ Format(f, k) = NotIlda \/ CutIn(f, k, "name")
                  \/ Format(f, k) \in Indexed \cup TrueFrame \cup {3} /\ ~HasItems(f, k)
                  \/ Format(f, k) > 5 /\ Items(f, k) # <<"exact">>

FramesOf(f) == {k \in DOMAIN f.sections :
                  /\ Format(f, k) \in Indexed \cup TrueFrame
                  /\ \A j \in 1..k : ~EndsFile(f, j)}

Latest(S) == CHOOSE j \in S : \A i \in S : i <= j

\* The true colour tables that an indexed frame k can take: no indexed frame
\* has taken them before.
TrueTables(f, k) == {j \in 1..(k - 1) :
                       /\ Format(f, j) = 3 /\ HasItems(f, j) /\ Items(f, j) # TooMany
                       /\ \A i \in j..(k - 1) : Format(f, i) \notin Indexed}
Palettes(f, k) == {j \in 1..(k - 1) : Format(f, j) = 2}

\* The palette an indexed frame k takes its colours from.
PaletteFor(f, k) == IF Palettes(f, k) = {} THEN Default ELSE Items(f, Latest(Palettes(f, k)))

ColourOf(f, k, i) ==
    IF Format(f, k) \in TrueFrame THEN ReadItem(f, k, i, Black)
    ELSE IF TrueTables(f, k) # {} THEN Get(Items(f, Latest(TrueTables(f, k))), i)
    ELSE Get(PaletteFor(f, k), ReadItem(f, k, i, 0) + 1)

Picture(f, k) == [i \in DOMAIN Items(f, k) |-> ColourOf(f, k, i)]

\* The frames are those of the sections ks, in the order they have in the file.
Means(f, frames, ks) ==
    \E at \in [DOMAIN frames -> ks] :
        /\ \A m, n \in DOMAIN frames : m < n => at[m] < at[n]
        /\ \A k \in ks : \E n \in DOMAIN frames : at[n] = k
        /\ \A n \in DOMAIN frames : frames[n] = Picture(f, at[n])
-----------------------------------------------------------------------------
FileColours == UNION {Range(s.items) : s \in {t \in Sections : t.format \in 2..5}}
Colours == FileColours \cup Range(Default) \cup {Black, Garbage}

Collected == IF sequence # <<>> THEN sequence ELSE IF frame = NoFrame THEN <<>> ELSE <<frame>>
Through == pc = "reading" /\ (eof \/ pos = Len(file.sections))

\* Every variable keeps its type: colours come from the file, the palette or
\* behind a vector's end.
ImportTypeOK ==
    /\ pending \in Seq(Files) /\ file \in Files
    /\ pc \in {"next", "reading"} /\ pos \in 0..Len(file.sections)
    /\ palette_ \in Seq(Colours) /\ colour \in Seq(Colours) /\ trueColour \in BOOLEAN
    /\ sequence \in Seq(Seq(Colours)) /\ frame \in Seq(Colours)
    /\ eof \in BOOLEAN /\ error \in {0, 1, 2} /\ idx \in {Cell, -1}
    /\ added \in Seq([idx : {Cell, -1},
                      source : [kind : {"Static_frame", "Colour_modulator"},
                                frames : Seq(Seq(Colours))]])

\* Whatever tables and frames come in which order, wherever the file is cut
\* off or spoilt, and whatever the file before left behind: the frames are
\* those of the file up to its end, in their order, each point in the colour
\* of the table that is in force for it.  (Colours beyond the end of a short
\* table are Garbage, in the definition as in the loader.)
FramesAsMeant == Through => Means(file, Collected, FramesOf(file))

\* Of the files imported to a cell the first that has any frame goes there and
\* no other does; one frame comes alone, several below a colour modulator.
OneGoesToTheCell ==
    \A n \in DOMAIN added :
        /\ added[n].idx = Cell <=> n = 1
        /\ added[n].source.kind = "Static_frame" <=> Len(added[n].source.frames) = 1
=============================================================================
