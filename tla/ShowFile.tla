------------------------------- MODULE ShowFile -------------------------------
(***************************************************************************)
(* A show on its way to the disk and back (qtiocompressor.cpp, used by     *)
(* saveShow, ShowSaver, Saved and loadShow, ShowLoader, Loaded of          *)
(* engine.cpp): the QXmlStreamWriter hands pieces of the text to the       *)
(* compressor, zlib keeps what it likes, the disk may be too small, the    *)
(* program may die; later the compressor reads the file buffer by buffer.  *)
(*                                                                         *)
(* Compression is abstracted to one unit of the file per byte of the text, *)
(* between a header and a trailer; what is kept is who holds which unit    *)
(* when.  The text is 1, 2, 3, ...: its bytes are told apart by their      *)
(* place only.                                                             *)
(***************************************************************************)
EXTENDS Integers, Sequences, SequencesExt

CONSTANTS
    TextLength,   \* bytes of the text
    bufferSize,   \* of the compressor (10 MB in the code)
    Pieces,       \* sizes of the pieces the XML writer hands over
    ReadSizes,    \* sizes the XML reader asks for
    Rooms         \* sizes of the free space on the disk

Header == 0
Trailer == TextLength + 1
Text == [i \in 1..TextLength |-> i]
Whole == <<Header>> \o Text \o <<Trailer>>

ASSUME FileAssumption ==
    /\ TextLength \in Nat \ {0} /\ bufferSize \in Nat \ {0}
    /\ Pieces \subseteq Nat \ {0} /\ ReadSizes \subseteq Nat \ {0} /\ Rooms \subseteq Nat

VARIABLES
    disk,    \* [data, room]: the file, and the space that is left
    comp,    \* the QtIOCompressor, see Closed
    job,     \* what the engine is doing: a save, a load or nothing
    put,     \* the part of the text handed to the compressor by the saver
    failed,  \* history: did a write to the disk fail?
    got,     \* the part of the text the loader has got
    xml      \* has the XML reader run out of input ("premature")?

vars == <<disk, comp, job, put, failed, got, xml>>

\* The compressor: state, the zlib stream (what it has taken and not given out,
\* and next_in), the rest of the caller's buffer (want, with what was put into
\* it so far), the place in the underlying file and what was put back into it.
Closed == [state |-> "Closed", held |-> <<>>, in |-> <<>>, call |-> "none",
           want |-> 0, data |-> <<>>, pos |-> 0, ungot |-> 0]

NewWriter == [Closed EXCEPT !.state = "NoBytesWritten", !.held = <<Header>>]
NewReader == [Closed EXCEPT !.state = "NotReadFirstByte"]

Init == /\ disk \in [data : {<<>>}, room : Rooms]
        /\ comp = Closed /\ job = "none"
        /\ put = <<>> /\ failed = FALSE /\ got = <<>> /\ xml = "ok"
-----------------------------------------------------------------------------
(***************************************************************************)
(* Saving.                                                                 *)
(***************************************************************************)
\* saveShow(): opening for writing empties the file.
saveShow ==
    /\ job = "none" /\ put = <<>>
    /\ job' = "save" /\ comp' = NewWriter
    /\ disk' = [disk EXCEPT !.data = <<>>]
    /\ UNCHANGED <<put, failed, got, xml>>

\* Mutation of writeBytes: the buffer counts as written when part of it is.
writeBytesShort(buffer) ==
    LET n == IF Len(buffer) <= disk.room THEN Len(buffer) ELSE disk.room
    IN  /\ disk' = [data |-> disk.data \o SubSeq(buffer, 1, n), room |-> disk.room - n]
        /\ failed' = failed

\* writeBytes(): a disk that is full takes what it can, and refuses the
\* second attempt.
writeBytes(buffer) ==
    LET n == IF Len(buffer) <= disk.room THEN Len(buffer) ELSE disk.room
    IN  /\ disk' = [data |-> disk.data \o SubSeq(buffer, 1, n), room |-> disk.room - n]
        /\ failed' = (failed \/ n < Len(buffer))

Written(buffer) == Len(buffer) <= disk.room

\* ShowSaver's writer hands over the next piece: writeData() begins.
writeData(n) ==
    /\ job = "save" /\ comp.call = "none" /\ Len(put) + n <= TextLength
    /\ put' = SubSeq(Text, 1, Len(put) + n)
    /\ comp' = [comp EXCEPT !.call = "write", !.in = SubSeq(Text, Len(put) + 1, Len(put) + n)]
    /\ UNCHANGED <<disk, job, failed, got, xml>>

\* Mutation of Deflates: a full buffer is taken for all there is.
DeflatesOnce ==
    \E taken \in 0..Len(comp.in), given \in 0..bufferSize :
        /\ given <= Len(comp.held) + taken
        /\ given < bufferSize => taken = Len(comp.in)
        /\ LET all == comp.held \o SubSeq(comp.in, 1, taken)
               out == SubSeq(all, 1, given)
           IN  /\ writeBytes(out)
               /\ comp' = [comp EXCEPT
                      !.held = SubSeq(all, given + 1, Len(all)), !.in = <<>>,
                      !.state = IF Written(out) THEN "BytesWritten" ELSE @,
                      !.call = "none"]

\* One deflate() with no flush: zlib takes all of its input unless the buffer
\* gets full, and gives out as much as it pleases, which is written.
Deflates ==
    \E taken \in 0..Len(comp.in), given \in 0..bufferSize :
        /\ given <= Len(comp.held) + taken
        /\ given < bufferSize => taken = Len(comp.in)
        /\ LET all == comp.held \o SubSeq(comp.in, 1, taken)
               out == SubSeq(all, 1, given)
           IN  /\ writeBytes(out)
               /\ comp' = [comp EXCEPT
                      !.held = SubSeq(all, given + 1, Len(all)),
                      !.in = SubSeq(comp.in, taken + 1, Len(comp.in)),
                      !.state = IF Written(out) THEN "BytesWritten" ELSE @,
                      !.call = IF Written(out) /\ given = bufferSize THEN "write" ELSE "none"]

\* writeData()'s loop: until the buffer is not full, or could not be written
\* (which drops what was in it).
DeflateStep ==
    /\ comp.call = "write"
    /\ Deflates
    /\ UNCHANGED <<job, put, got, xml>>

\* Saved(): close() finishes the stream if anything was written ...
SaverEnds ==
    /\ job = "save" /\ comp.call = "none"
    /\ Len(put) = TextLength \/ failed
    /\ IF comp.state = "BytesWritten"
       THEN comp' = [comp EXCEPT !.state = "NoBytesWritten", !.call = "finish",
                                 !.held = @ \o <<Trailer>>]
       ELSE comp' = [comp EXCEPT !.call = "end"]
    /\ UNCHANGED <<disk, job, put, failed, got, xml>>

\* ... flushZlib(Z_FINISH), buffer by buffer until zlib has nothing left or a
\* write fails ...
FinishStep ==
    /\ comp.call = "finish"
    /\ LET n == IF Len(comp.held) < bufferSize THEN Len(comp.held) ELSE bufferSize
           out == SubSeq(comp.held, 1, n)
       IN  /\ writeBytes(out)
           /\ comp' = [comp EXCEPT
                  !.held = SubSeq(comp.held, n + 1, Len(comp.held)),
                  !.state = IF Written(out) THEN "BytesWritten" ELSE @,
                  !.call = IF Written(out) /\ n < Len(comp.held) THEN "finish" ELSE "end"]
    /\ UNCHANGED <<job, put, got, xml>>

\* ... and closes the file.  The show counts as saved.
Saved ==
    /\ job = "save" /\ comp.call = "end"
    /\ comp' = Closed /\ job' = "saved"
    /\ UNCHANGED <<disk, put, failed, got, xml>>

\* The program dies while it saves: what the file system has not got yet is lost.
Crash ==
    /\ job = "save"
    /\ \E n \in 0..Len(disk.data) : disk' = [disk EXCEPT !.data = SubSeq(@, 1, n)]
    /\ comp' = Closed /\ job' = "crashed"
    /\ UNCHANGED <<put, failed, got, xml>>
-----------------------------------------------------------------------------
(***************************************************************************)
(* Loading.                                                                *)
(***************************************************************************)
loadShow ==
    /\ job \in {"saved", "crashed"}
    /\ job' = "load" /\ comp' = NewReader
    /\ got' = <<>> /\ xml' = "ok"
    /\ UNCHANGED <<disk, put, failed>>

\* Mutation of bytesAvailable: there is more wherever no error has occurred.
bytesAvailableAlways == comp.state \in {"NotReadFirstByte", "InStream", "EndOfStream"}

\* bytesAvailable(): within the stream there might always be more.
bytesAvailable ==
    \/ comp.state = "NotReadFirstByte" /\ Len(disk.data) > comp.pos
    \/ comp.state = "InStream"

\* QXmlStreamReader::atEnd(): the input has run out, and the device it comes
\* from has no more.
atEnd == xml = "premature" /\ ~bytesAvailable

\* The XML reader wants more: readData(maxSize) begins.
readData(maxSize) ==
    /\ job = "load" /\ comp.call = "none" /\ got # Text /\ ~atEnd
    /\ IF comp.state \in {"EndOfStream", "Error"}
       THEN /\ xml' = "premature" /\ UNCHANGED comp
       ELSE /\ comp' = [comp EXCEPT !.call = "read", !.want = maxSize, !.data = <<>>]
            /\ UNCHANGED xml
    /\ UNCHANGED <<disk, job, put, failed, got>>

\* readData() returns: the XML reader takes what it is given, and takes
\* nothing for the end of the document.
Returns(c, data) ==
    /\ comp' = [c EXCEPT !.call = "none", !.want = 0, !.data = <<>>]
    /\ got' = got \o data
    /\ xml' = IF data = <<>> THEN "premature" ELSE "ok"

\* The device gives up to a buffer of what is left of the file.
Filled(c) ==
    IF c.in # <<>> THEN c
    ELSE LET n == IF Len(disk.data) - c.pos < bufferSize THEN Len(disk.data) - c.pos ELSE bufferSize
         IN  [c EXCEPT !.in = SubSeq(disk.data, c.pos + 1, c.pos + n), !.pos = @ + n,
                       !.state = IF n > 0 THEN "InStream" ELSE @]

\* What a part of the file has of the text: all but the header, which is the
\* first unit of the file, and the trailer, which is the last.
Bytes(units) ==
    LET n == Len(units)
    IN  SubSeq(units, IF n > 0 /\ units[1] = Header THEN 2 ELSE 1,
                      IF n > 0 /\ units[n] = Trailer THEN n - 1 ELSE n)

\* How far inflate() gets: until the caller's buffer is full, the stream ends
\* or the input is used up.
Inflated(c) ==
    CHOOSE n \in 0..Len(c.in) :
        /\ Len(Bytes(SubSeq(c.in, 1, n))) <= c.want - Len(c.data)
        /\ n = Len(c.in) \/ Len(Bytes(SubSeq(c.in, 1, n + 1))) > c.want - Len(c.data)

\* Mutation of InflateStep: the input left over from the last call is dropped.
InflateStepAfresh ==
    /\ comp.call = "read"
    /\ LET c == Filled([comp EXCEPT !.in = <<>>])
           n == Inflated(c)
           data == c.data \o Bytes(SubSeq(c.in, 1, n))
           rest == [c EXCEPT !.in = SubSeq(c.in, n + 1, Len(c.in)), !.data = data]
       IN  IF c.in = <<>> THEN Returns(c, <<>>)
           ELSE IF n > 0 /\ c.in[n] = Trailer
           THEN Returns([rest EXCEPT !.state = "EndOfStream", !.ungot = Len(rest.in) + 1], data)
           ELSE IF Len(data) = c.want THEN Returns(rest, data)
           ELSE comp' = rest /\ UNCHANGED <<got, xml>>
    /\ UNCHANGED <<disk, job, put, failed>>

\* One turn of readData()'s loop.  When there is no more input it returns 0,
\* and what it has put into the caller's buffer by then is lost.  At the end
\* of the stream the input that is left goes back to the device, with one
\* byte that was not there.
InflateStep ==
    /\ comp.call = "read"
    /\ LET c == Filled(comp)
           n == Inflated(c)
           data == c.data \o Bytes(SubSeq(c.in, 1, n))
           rest == [c EXCEPT !.in = SubSeq(c.in, n + 1, Len(c.in)), !.data = data]
       IN  IF c.in = <<>> THEN Returns(c, <<>>)
           ELSE IF n > 0 /\ c.in[n] = Trailer
           THEN Returns([rest EXCEPT !.state = "EndOfStream", !.ungot = Len(rest.in) + 1], data)
           ELSE IF Len(data) = c.want THEN Returns(rest, data)
           ELSE comp' = rest /\ UNCHANGED <<got, xml>>
    /\ UNCHANGED <<disk, job, put, failed>>

\* The device reports an error instead: readData() returns -1.
ReadFails ==
    /\ comp.call = "read" /\ comp.in = <<>>
    /\ Returns([comp EXCEPT !.state = "Error"], <<>>)
    /\ UNCHANGED <<disk, job, put, failed>>

\* ShowLoader::run() ends with the last tag, or when the reader is at its end.
\* Loaded() closes.
LoaderEnds ==
    /\ job = "load" /\ comp.call = "none"
    /\ got = Text \/ atEnd
    /\ job' = "loaded" /\ comp' = Closed
    /\ UNCHANGED <<disk, put, failed, got, xml>>

\* Input that runs out where run() looks at the token ends the loop at once.
LoaderBreaks ==
    /\ job = "load" /\ comp.call = "none" /\ xml = "premature"
    /\ job' = "loaded" /\ comp' = Closed
    /\ UNCHANGED <<disk, put, failed, got, xml>>

Done == job = "loaded" /\ UNCHANGED vars
-----------------------------------------------------------------------------
SaveStep == saveShow \/ (\E n \in Pieces : writeData(n)) \/ DeflateStep
            \/ SaverEnds \/ FinishStep \/ Saved
LoadStep == loadShow \/ (\E n \in ReadSizes : readData(n)) \/ InflateStep \/ LoaderEnds

Next == SaveStep \/ Crash \/ LoadStep \/ LoaderBreaks \/ ReadFails \/ Done

Spec == Init /\ [][Next]_vars
FairSpec == Spec /\ WF_vars(SaveStep) /\ WF_vars(LoadStep)
-----------------------------------------------------------------------------
\* Every variable keeps its type; the reader stays within the file.
TypeOK ==
    /\ disk \in [data : Seq(Header..Trailer), room : Nat]
    /\ comp \in [state : {"Closed", "NoBytesWritten", "BytesWritten", "NotReadFirstByte",
                          "InStream", "EndOfStream", "Error"},
                 held : Seq(Header..Trailer), in : Seq(Header..Trailer),
                 call : {"none", "write", "finish", "end", "read"},
                 want : Nat, data : Seq(1..TextLength),
                 pos : 0..Len(disk.data), ungot : 0..bufferSize]
    /\ job \in {"none", "save", "saved", "crashed", "load", "loaded"}
    /\ put \in Seq(1..TextLength) /\ failed \in BOOLEAN
    /\ got \in Seq(1..TextLength) /\ xml \in {"ok", "premature"}

\* What reaches the disk is always the beginning of the whole file, however
\* the text was cut into pieces, whatever zlib kept back, wherever the disk
\* got full and the program died: nothing is written twice or skipped.
FileIsPrefix == IsPrefix(disk.data, Whole)

\* A save in which no write failed has written the whole file by the time it
\* counts as saved, and one in which a write failed has not.
SavedIsWhole == job = "saved" => (failed <=> disk.data # Whole)

\* The show file keeps the promise of a stream of bytes, through the buffers
\* of both directions, a full disk, a crash and a failing read.
Stream == INSTANCE ByteStream WITH loading <- job = "load", ended <- comp.state = "EndOfStream"
StreamSpec == Stream!Spec

\* Loading a whole file, or one that has nothing in it, comes to an end.  (A
\* file cut off in between may keep the loader busy for ever: readData()
\* returns 0 and bytesAvailable() says there might be more.)
LoadEnds == (job = "load" /\ disk.data \in {Whole, <<>>}) ~> job = "loaded"
=============================================================================
