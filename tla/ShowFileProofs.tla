---------------------------- MODULE ShowFileProofs ----------------------------
(***************************************************************************)
(* What holds of a show file for every length of the text, size of the     *)
(* buffer and the disk, and every way the text is cut into pieces.         *)
(***************************************************************************)
EXTENDS ShowFile, SequenceTheorems, TLAPS

\* n units of the whole file, from unit a on.
Run(a, n) == [i \in 1..n |-> a + i - 1]
Total == TextLength + 2

D == Len(disk.data)
H == Len(comp.held)
K == Len(comp.in)

\* The file is the beginning of the whole one; it has no more of the text than
\* was handed over, and it is not whole once a write has failed.
DataOK == /\ disk.data = Run(0, D) /\ D <= Total
          /\ D <= Len(put) + 1 \/ Len(put) = TextLength
          /\ failed => D < Total
          /\ put = Run(1, Len(put)) /\ Len(put) <= TextLength

\* What the disk, zlib and the caller's buffer hold are three runs, one after
\* the other, unless a write has failed; then the disk is full.
SaveOK ==
    job = "save" =>
        /\ comp.state \in {"NoBytesWritten", "BytesWritten"} /\ comp.call # "read"
        /\ failed => disk.room = 0
        /\ ~failed =>
              /\ comp.held = Run(D, H) /\ comp.in = Run(D + H, K)
              /\ comp.call \in {"none", "write"} => D + H + K = Len(put) + 1
              /\ comp.call = "none" => K = 0 /\ (put # <<>> => comp.state = "BytesWritten")
              /\ comp.call = "write" => put # <<>>
              /\ comp.call = "finish" => K = 0 /\ D + H = Total /\ Len(put) = TextLength
              /\ comp.call = "end" => D = Total /\ Len(put) = TextLength

\* The bytes of the text among the first c units of the file.
TextIn(c) == IF c = 0 THEN 0 ELSE IF c = Total THEN TextLength ELSE c - 1

\* The units inflate() has used up.
Used == comp.pos - K

\* The loader has got all of the text among them, or some of it was lost when
\* the file came to its end or could not be read.
LoadOK ==
    job = "load" =>
        /\ comp.call \in {"none", "read"}
        /\ comp.state \in {"NotReadFirstByte", "InStream", "EndOfStream", "Error"}
        /\ K <= comp.pos /\ K <= bufferSize /\ comp.in = Run(Used, K)
        /\ got = Run(1, Len(got)) /\ Len(got) <= Len(put)
        /\ comp.call = "none" => comp.data = <<>>
        /\ comp.call = "read" => /\ comp.state \in {"NotReadFirstByte", "InStream"}
                                 /\ Len(comp.data) <= comp.want
        /\ \/ /\ comp.data = Run(Len(got) + 1, Len(comp.data))
              /\ Len(got) + Len(comp.data) = TextIn(Used)
           \/ /\ comp.in = <<>> /\ comp.data = <<>>
              /\ comp.pos = D \/ comp.state = "Error"

\* Before the save, and between a save and a load.
RestOK == /\ job = "none" => put = <<>> /\ ~failed
          /\ job = "saved" /\ ~failed => D = Total
          /\ job \notin {"save", "load"} => comp = Closed

\* The inductive invariant.
IInv == TypeOK /\ DataOK /\ SaveOK /\ LoadOK /\ RestOK
-----------------------------------------------------------------------------
(***************************************************************************)
(* Runs.                                                                   *)
(***************************************************************************)
LEMMA Lengths ==
    /\ TextLength \in Nat /\ TextLength >= 1 /\ Total \in Nat /\ Total = TextLength + 2
    /\ bufferSize \in Nat /\ bufferSize >= 1
BY FileAssumption DEF Total

\* A run is a sequence, of its length, and known by where it starts and ends.
LEMMA RunIsSeq ==
    ASSUME NEW a \in Nat, NEW n \in Nat
    PROVE  /\ Run(a, n) \in Seq(Nat) /\ Len(Run(a, n)) = n
           /\ \A i \in 1..n : Run(a, n)[i] = a + i - 1
           /\ \A lo \in Nat, hi \in Nat : lo <= a /\ a + n <= hi + 1 => Run(a, n) \in Seq(lo..hi)
<1> DEFINE r == Run(a, n)
<1>1. r = [i \in 1..n |-> a + i - 1]
  BY DEF Run
<1>2. \A i \in 1..n : r[i] = a + i - 1 /\ a + i - 1 \in Nat
  BY <1>1
<1>3. r \in [1..n -> Nat]
  BY <1>1, <1>2
<1>4. r \in Seq(Nat) /\ Len(r) = n
  <2>1. r \in Seq(Nat)
    BY <1>3, SeqDef
  <2>2. DOMAIN r = 1..n /\ DOMAIN r = 1..Len(r) /\ Len(r) \in Nat
    BY <1>1, <2>1, LenProperties
  <2> QED BY <2>1, <2>2
<1>5. ASSUME NEW lo \in Nat, NEW hi \in Nat, lo <= a, a + n <= hi + 1 PROVE r \in Seq(lo..hi)
  <2>1. \A i \in 1..n : r[i] \in lo..hi
    BY <1>2, <1>5
  <2>2. r \in [1..n -> lo..hi]
    BY <1>1, <2>1
  <2> HIDE DEF r
  <2> QED BY <2>2, SeqDef
<1> QED BY <1>2, <1>4, <1>5

\* Two sequences of numbers are the same when they agree everywhere.
LEMMA SameSeq ==
    ASSUME NEW s \in Seq(Nat), NEW t \in Seq(Nat), Len(s) = Len(t),
           \A i \in 1..Len(s) : s[i] = t[i]
    PROVE  s = t
BY SeqEqual

\* SubSeq and concatenation under names that the provers do not look into.
Part(s, i, j) == SubSeq(s, i, j)
Join(s, t) == s \o t

\* A run followed by the run that begins where it ends.
LEMMA RunConcat ==
    ASSUME NEW a \in Nat, NEW n \in Nat, NEW m \in Nat, NEW b \in Nat, b = a + n
    PROVE  Join(Run(a, n), Run(b, m)) = Run(a, n + m)
<1> DEFINE s == Run(a, n)
           t == Run(b, m)
           u == Run(a, n + m)
<1>1. /\ s \in Seq(Nat) /\ Len(s) = n /\ \A i \in 1..n : s[i] = a + i - 1
      /\ t \in Seq(Nat) /\ Len(t) = m /\ \A i \in 1..m : t[i] = b + i - 1
      /\ u \in Seq(Nat) /\ Len(u) = n + m /\ \A i \in 1..(n + m) : u[i] = a + i - 1
  <2>1. a + n \in Nat /\ n + m \in Nat
    OBVIOUS
  <2>2. s \in Seq(Nat) /\ Len(s) = n /\ \A i \in 1..n : s[i] = a + i - 1
    BY RunIsSeq
  <2>3. t \in Seq(Nat) /\ Len(t) = m /\ \A i \in 1..m : t[i] = b + i - 1
    BY <2>1, RunIsSeq
  <2>4. u \in Seq(Nat) /\ Len(u) = n + m /\ \A i \in 1..(n + m) : u[i] = a + i - 1
    BY <2>1, RunIsSeq
  <2> QED BY <2>2, <2>3, <2>4
<1> HIDE DEF s, t, u
<1>2. /\ s \o t \in Seq(Nat) /\ Len(s \o t) = n + m
      /\ \A i \in 1..(n + m) : (s \o t)[i] = IF i <= n THEN s[i] ELSE t[i - n]
  <2> DEFINE both == s \o t
  <2>1. /\ both \in Seq(Nat) /\ Len(both) = Len(s) + Len(t)
        /\ \A i \in 1..(Len(s) + Len(t)) :
              both[i] = IF i <= Len(s) THEN s[i] ELSE t[i - Len(s)]
    BY <1>1, ConcatProperties, Zenon
  <2>2. Len(s) = n /\ Len(t) = m
    BY <1>1, Zenon
  <2> HIDE DEF both
  <2>3. /\ both \in Seq(Nat) /\ Len(both) = n + m
        /\ \A i \in 1..(n + m) : both[i] = IF i <= n THEN s[i] ELSE t[i - n]
    BY <2>1, <2>2
  <2> QED BY <2>3, Zenon DEF both
<1>3. ASSUME NEW i \in 1..(n + m) PROVE (s \o t)[i] = u[i]
  <2>1. CASE i <= n
    BY <1>1, <1>2, <2>1
  <2>2. CASE ~(i <= n)
    <3>1. i - n \in 1..m /\ b + (i - n) - 1 = a + i - 1
      BY <2>2
    <3>2. (s \o t)[i] = t[i - n] /\ t[i - n] = b + (i - n) - 1
      BY <1>1, <1>2, <2>2, <3>1
    <3> QED BY <1>1, <3>1, <3>2
  <2> QED BY <2>1, <2>2
<1>4. s \o t = u
  BY <1>1, <1>2, <1>3, SameSeq
<1> QED BY <1>4, Zenon DEF s, t, u, Join

\* The units i to j of a run are a run; it has m units and begins with b.
LEMMA RunMiddle ==
    ASSUME NEW a \in Nat, NEW n \in Nat, NEW i \in Nat, NEW j \in Nat,
           NEW b \in Nat, NEW m \in Nat,
           1 <= i, j <= n, b = a + i - 1, m = j - i + 1
    PROVE  Part(Run(a, n), i, j) = Run(b, m)
<1> DEFINE s == Run(a, n)
           t == SubSeq(s, i, j)
           u == Run(b, m)
<1>1. s \in Seq(Nat) /\ Len(s) = n /\ \A k \in 1..n : s[k] = a + k - 1
  BY RunIsSeq, Zenon
<1>2. u \in Seq(Nat) /\ Len(u) = m /\ \A k \in 1..m : u[k] = b + k - 1
  BY RunIsSeq, Zenon
<1> HIDE DEF s, u
<1>3. \A k \in i..j : s[k] \in Nat
  BY <1>1
<1>4. /\ t \in Seq(Nat) /\ Len(t) = (IF i <= j THEN j - i + 1 ELSE 0)
      /\ \A k \in 1..(j - i + 1) : t[k] = s[i + k - 1]
  BY <1>3, SubSeqProperties
<1> HIDE DEF t
<1>5. Len(t) = Len(u)
  BY <1>2, <1>4
<1>6. \A k \in 1..Len(t) : t[k] = u[k]
  <2> SUFFICES ASSUME NEW k \in 1..m PROVE t[k] = u[k]
    BY <1>2, <1>5
  <2>1. i + k - 1 \in 1..n /\ a + (i + k - 1) - 1 = b + k - 1
    OBVIOUS
  <2> QED BY <1>1, <1>2, <1>4, <2>1
<1>7. t = u
  BY <1>2, <1>4, <1>5, <1>6, SameSeq, Zenon
<1> QED BY <1>7, Zenon DEF s, t, u, Part

\* The first j units of a run, and those behind them.
LEMMA RunParts ==
    ASSUME NEW a \in Nat, NEW n \in Nat, NEW j \in Nat, j <= n
    PROVE  /\ Part(Run(a, n), 1, j) = Run(a, j)
           /\ Part(Run(a, n), j + 1, n) = Run(a + j, n - j)
<1>1. Part(Run(a, n), 1, j) = Run(a, j)
  <2>1. a = a + 1 - 1 /\ j = j - 1 + 1 /\ 1 <= 1 /\ 1 \in Nat
    OBVIOUS
  <2> QED BY <2>1, RunMiddle
<1>2. Part(Run(a, n), j + 1, n) = Run(a + j, n - j)
  <2> DEFINE i == j + 1
             b == a + j
             m == n - j
  <2>1. i \in Nat /\ b \in Nat /\ m \in Nat /\ 1 <= i /\ b = a + i - 1 /\ m = n - i + 1
    OBVIOUS
  <2> HIDE DEF i, b, m
  <2>2. Part(Run(a, n), i, n) = Run(b, m)
    BY <2>1, RunMiddle
  <2> QED BY <2>2, Zenon DEF i, b, m
<1> QED BY <1>1, <1>2

\* The text, the file and the header are runs; so is the sequence that is empty.
LEMMA WholeIsRun ==
    /\ Text = Run(1, TextLength) /\ Whole = Run(0, Total) /\ <<Header>> = Run(0, 1)
    /\ <<Trailer>> = Run(TextLength + 1, 1)
    /\ \A a \in Nat : Run(a, 0) = <<>>
<1>1. TextLength \in Nat
  BY FileAssumption
<1>2. Text = Run(1, TextLength)
  <2>1. \A i \in 1..TextLength : 1 + i - 1 = i
    BY <1>1
  <2> QED BY <2>1 DEF Text, Run
<1>3. ASSUME NEW a \in Nat PROVE <<a>> = Run(a, 1) /\ Run(a, 0) = <<>>
  <2> DEFINE s == Run(a, 1)
             t == Run(a, 0)
  <2>1. /\ s \in Seq(Nat) /\ Len(s) = 1 /\ \A i \in 1..1 : s[i] = a + i - 1
        /\ t \in Seq(Nat) /\ Len(t) = 0
    BY RunIsSeq
  <2> HIDE DEF s, t
  <2>2. s[1] = a
    BY <2>1
  <2>3. <<a>> = s
    BY <2>1, <2>2
  <2>4. t = <<>>
    BY <2>1
  <2> QED BY <2>3, <2>4 DEF s, t
<1>4. <<Header>> = Run(0, 1) /\ <<Trailer>> = Run(TextLength + 1, 1)
  BY <1>1, <1>3 DEF Header, Trailer
<1>5. Join(Run(0, 1), Run(1, TextLength)) = Run(0, TextLength + 1)
  <2>1. Join(Run(0, 1), Run(1, TextLength)) = Run(0, 1 + TextLength)
    BY <1>1, RunConcat
  <2>2. 1 + TextLength = TextLength + 1
    BY <1>1
  <2> QED BY <2>1, <2>2
<1>6. Join(Run(0, TextLength + 1), Run(TextLength + 1, 1)) = Run(0, Total)
  <2> DEFINE n == TextLength + 1
  <2>1. n \in Nat /\ n + 1 = Total
    BY <1>1, Lengths
  <2> HIDE DEF n
  <2>2. Join(Run(0, n), Run(n, 1)) = Run(0, n + 1)
    BY <2>1, RunConcat
  <2> QED BY <2>1, <2>2 DEF n
<1>7. Whole = Join(Join(<<Header>>, Text), <<Trailer>>)
  BY Zenon DEF Whole, Join
<1> QED BY <1>2, <1>3, <1>4, <1>5, <1>6, <1>7

\* The bytes of the text in the first c units, and in the units behind them.
LEMMA TextInFacts ==
    ASSUME NEW a \in Nat, NEW n \in Nat, a + n <= Total
    PROVE  /\ TextIn(a) \in Nat /\ TextIn(a + n) \in Nat
           /\ TextIn(a + n) - TextIn(a) \in Nat /\ TextIn(a + n) - TextIn(a) <= n
           /\ TextIn(a + n) <= TextLength /\ TextIn(a) <= a
BY Lengths DEF TextIn

LEMMA BytesOfRun ==
    ASSUME NEW a \in Nat, NEW n \in Nat, a + n <= Total
    PROVE  Bytes(Run(a, n)) = Run(TextIn(a) + 1, TextIn(a + n) - TextIn(a))
<1> DEFINE s == Run(a, n)
           from == IF n > 0 /\ s[1] = Header THEN 2 ELSE 1
           to == IF n > 0 /\ s[n] = Trailer THEN n - 1 ELSE n
<1>1. TextLength \in Nat /\ TextLength >= 1 /\ Total \in Nat /\ Total = TextLength + 2
  BY Lengths
<1>2. Len(s) = n /\ \A i \in 1..n : s[i] = a + i - 1
  BY RunIsSeq
<1>3. Bytes(s) = SubSeq(s, from, to)
  BY <1>2 DEF Bytes
<1>4. CASE n = 0
  <2>1. from = 1 /\ to = 0
    BY <1>4
  <2>2. SubSeq(s, 1, 0) = Run(a, 0)
    <3>1. 0 \in Nat /\ 0 <= n
      OBVIOUS
    <3> QED BY <3>1, RunParts, Zenon DEF Part
  <2>3. a + n = a
    BY <1>4
  <2>4. TextIn(a) \in Nat
    BY <1>1 DEF TextIn
  <2>5. TextIn(a + n) - TextIn(a) = 0 /\ TextIn(a) + 1 \in Nat
    BY <2>3, <2>4
  <2> QED BY <1>3, <2>1, <2>2, <2>3, <2>5, WholeIsRun
<1>5. CASE n > 0
  <2>1. s[1] = a /\ s[n] = a + n - 1
    BY <1>2, <1>5
  <2>2. from = (IF a = 0 THEN 2 ELSE 1) /\ to = (IF a + n = Total THEN n - 1 ELSE n)
    BY <1>1, <1>5, <2>1 DEF Header, Trailer
  <2>3. from \in Nat /\ to \in Nat /\ 1 <= from /\ from <= to + 1 /\ to <= n
    BY <1>1, <1>5, <2>2
  <2> HIDE DEF s, from, to
  <2>4. SubSeq(s, from, to) = Run(a + from - 1, to - from + 1)
    <3> DEFINE b == a + from - 1
               m == to - from + 1
    <3>1. b \in Nat /\ m \in Nat /\ b = a + from - 1 /\ m = to - from + 1
      BY <2>3
    <3> HIDE DEF b, m
    <3>2. Part(Run(a, n), from, to) = Run(b, m)
      BY <2>3, <3>1, RunMiddle
    <3> QED BY <3>2, Zenon DEF b, m, s, Part
  <2>5. a + from - 1 = TextIn(a) + 1
    BY <1>1, <1>5, <2>2 DEF TextIn
  <2>6. to - from + 1 = TextIn(a + n) - TextIn(a)
    <3>1. CASE a = 0
      BY <1>1, <1>5, <2>2, <3>1 DEF TextIn
    <3>2. CASE a # 0
      BY <1>1, <1>5, <2>2, <3>2 DEF TextIn
    <3> QED BY <3>1, <3>2
  <2> QED BY <1>3, <2>4, <2>5, <2>6 DEF s
<1> QED BY <1>4, <1>5

\* inflate() stops somewhere within its input, and does not overrun the buffer.
LEMMA InflatedIsThere ==
    ASSUME NEW c, NEW a \in Nat, NEW k \in Nat, a + k <= Total, c.in = Run(a, k),
           c.want \in Nat, Len(c.data) \in Nat, Len(c.data) <= c.want
    PROVE  /\ Inflated(c) \in 0..k
           /\ Len(Bytes(SubSeq(c.in, 1, Inflated(c)))) <= c.want - Len(c.data)
<1> DEFINE room == c.want - Len(c.data)
           bytes(n) == TextIn(a + n) - TextIn(a)
           Stops(n) == /\ Len(Bytes(SubSeq(c.in, 1, n))) <= c.want - Len(c.data)
                       /\ n = Len(c.in) \/ Len(Bytes(SubSeq(c.in, 1, n + 1))) > c.want - Len(c.data)
<1>1. /\ Len(c.in) = k /\ room \in Nat
      /\ TextLength \in Nat /\ TextLength >= 1 /\ Total \in Nat /\ Total = TextLength + 2
  <2>1. Len(Run(a, k)) = k
    BY RunIsSeq
  <2> QED BY <2>1, Lengths
<1>2. ASSUME NEW n \in 0..k PROVE Len(Bytes(SubSeq(c.in, 1, n))) = bytes(n)
  <2>1. n \in Nat /\ n <= k /\ a + n <= Total
    BY <1>1
  <2>2. SubSeq(Run(a, k), 1, n) = Run(a, n)
    BY <2>1, RunParts, Zenon DEF Part
  <2>3. Bytes(Run(a, n)) = Run(TextIn(a) + 1, bytes(n))
    BY <2>1, BytesOfRun
  <2>4. TextIn(a) + 1 \in Nat /\ bytes(n) \in Nat
    <3>1. TextIn(a) \in Nat /\ TextIn(a + n) - TextIn(a) \in Nat
      BY <2>1, TextInFacts, Zenon
    <3> QED BY <3>1
  <2>5. Len(Run(TextIn(a) + 1, bytes(n))) = bytes(n)
    BY <2>4, RunIsSeq
  <2> QED BY <2>1, <2>2, <2>3, <2>5
<1>3. \E n \in 0..k : Stops(n)
  <2>1. CASE bytes(k) <= room
    BY <1>1, <1>2, <2>1
  <2>2. CASE ~(bytes(k) <= room)
    <3> DEFINE t == TextIn(a)
               u == TextIn(a + k)
               x == t + room + 1
               n == x - a
    <3>1. t \in Nat /\ u \in Nat /\ u <= TextLength
      BY TextInFacts, Zenon
    <3> HIDE DEF room
    <3>2. u - t > room
      BY <1>1, <2>2, <3>1
    <3>3. t >= a - 1
      <4>1. a # Total
        BY <1>1, <3>1, <3>2
      <4> QED BY <1>1, <4>1 DEF TextIn
    <3>4. u <= a + k - 1
      BY <1>1, <3>1, <3>2 DEF TextIn
    <3> HIDE DEF t, u
    <3>5. x \in Nat /\ x >= 1 /\ x <= TextLength /\ x >= a /\ x < a + k
      BY <1>1, <3>1, <3>2, <3>3, <3>4
    <3>6. n \in 0..(k - 1) /\ a + n = x /\ a + (n + 1) = x + 1
      BY <3>5
    <3>7. TextIn(x) = x - 1 /\ TextIn(x + 1) = x
      BY <1>1, <3>5 DEF TextIn
    <3>8. x = t + room + 1
      OBVIOUS
    <3> HIDE DEF x, n
    <3>9. bytes(n) = room /\ bytes(n + 1) = room + 1
      <4>1. TextIn(a + n) = x - 1 /\ TextIn(a + (n + 1)) = x /\ TextIn(a) = t
        BY <3>6, <3>7 DEF t
      <4> QED BY <1>1, <3>1, <3>5, <3>8, <4>1
    <3>10. n \in 0..k /\ n + 1 \in 0..k
      BY <3>6
    <3>11. Len(Bytes(SubSeq(c.in, 1, n))) = room /\ Len(Bytes(SubSeq(c.in, 1, n + 1))) = room + 1
      BY <1>2, <3>9, <3>10
    <3>12. Stops(n)
      BY <1>1, <3>11 DEF room
    <3> QED BY <3>10, <3>12
  <2> QED BY <2>1, <2>2
<1>4. Inflated(c) = CHOOSE n \in 0..k : Stops(n)
  BY <1>1 DEF Inflated
<1> HIDE DEF Stops
<1>5. Inflated(c) \in 0..k /\ Stops(Inflated(c))
  BY <1>3, <1>4
<1> QED BY <1>5 DEF Stops
-----------------------------------------------------------------------------
(***************************************************************************)
(* Saving.                                                                 *)
(***************************************************************************)
Units == Header..Trailer
DiskType == [data : Seq(Units), room : Nat]

\* writeBytes() of the run that follows what is on the disk: it follows, as
\* much of it as there is room for; and a disk that is full stays as it is.
LEMMA Writing ==
    ASSUME disk \in DiskType, failed \in BOOLEAN, disk.data = Run(0, D), D <= Total,
           failed => disk.room = 0 /\ D < Total,
           NEW buffer \in Seq(Units), writeBytes(buffer),
           ~failed => buffer = Run(D, Len(buffer)) /\ D + Len(buffer) <= Total
    PROVE  /\ disk' \in DiskType /\ failed' \in BOOLEAN
           /\ disk'.data = Run(0, D') /\ D' \in Nat /\ D' <= Total
           /\ D <= D' /\ D' <= D + Len(buffer)
           /\ failed' => disk'.room = 0 /\ D' < Total
           /\ ~failed' => ~failed /\ Written(buffer) /\ D' = D + Len(buffer)
           /\ Written(buffer) /\ ~failed => ~failed'
           /\ failed => D' = D
<1> DEFINE len == Len(buffer)
           n == IF len <= disk.room THEN len ELSE disk.room
           part == SubSeq(buffer, 1, n)
<1>1. /\ D \in Nat /\ len \in Nat /\ disk.room \in Nat /\ n \in Nat /\ n <= len /\ n <= disk.room
      /\ Total \in Nat /\ disk.data \in Seq(Units)
  <2>1. disk.data \in Seq(Units) /\ disk.room \in Nat
    BY DEF DiskType
  <2>2. D \in Nat
    BY <2>1, LenProperties DEF D
  <2>3. len \in Nat
    BY LenProperties
  <2> HIDE DEF len
  <2> QED BY <2>1, <2>2, <2>3, Lengths
<1>2. disk' = [data |-> Join(disk.data, part), room |-> disk.room - n]
  BY Zenon DEF writeBytes, Join
<1>3. failed' = (failed \/ n < len)
  BY DEF writeBytes
<1>4. (failed' <=> failed \/ n < len) /\ failed' \in BOOLEAN
  <2>1. failed' <=> failed \/ n < len
    BY <1>3, Zenon
  <2>2. failed' \in BOOLEAN
    BY <1>3, Zenon
  <2> QED BY <2>1, <2>2
<1>5. Written(buffer) <=> len <= disk.room
  BY DEF Written
<1>6. n < len <=> ~(len <= disk.room)
  BY <1>1
<1>7. ~(len <= disk.room) => n = disk.room
  BY <1>1
<1>8. failed => n = 0
  BY <1>1
<1> HIDE DEF len, n
<1>9. part \in Seq(Units) /\ Join(disk.data, part) = Run(0, D + n)
  <2>1. CASE failed
    <3>1. part = <<>>
      <4>1. n = 0
        BY <1>8, <2>1
      <4> QED BY <4>1, SubSeqEmpty
    <3> HIDE DEF part
    <3>2. Join(disk.data, part) = disk.data
      BY <1>1, <3>1, ConcatEmptySeq DEF Join
    <3> QED BY <1>1, <1>8, <2>1, <3>1, <3>2
  <2>2. CASE ~failed
    <3>1. buffer = Run(D, len) /\ D + len <= Total
      BY <2>2 DEF len
    <3>2. part = Run(D, n)
      <4>1. D \in Nat /\ len \in Nat /\ n \in Nat /\ n <= len
        BY <1>1, Zenon
      <4>2. Part(Run(D, len), 1, n) = Run(D, n)
        BY <4>1, RunParts
      <4> QED BY <3>1, <4>2, Zenon DEF Part
    <3> HIDE DEF part
    <3>3. Join(Run(0, D), Run(D, n)) = Run(0, D + n)
      BY <1>1, RunConcat
    <3>4. part \in Seq(Units)
      <4>1. D + n <= Trailer + 1 /\ 0 <= D /\ 0 \in Nat /\ Trailer \in Nat
        BY <1>1, <3>1, Lengths DEF Trailer
      <4>2. Run(D, n) \in Seq(0..Trailer)
        BY <1>1, <4>1, RunIsSeq
      <4> QED BY <3>2, <4>2 DEF Units, Header
    <3> QED BY <3>2, <3>3, <3>4
  <2> QED BY <2>1, <2>2
<1> HIDE DEF part
<1>10. disk'.data = Run(0, D + n) /\ disk'.room = disk.room - n
  BY <1>2, <1>9
<1>11. D' = D + n
  <2>1. 0 \in Nat /\ D + n \in Nat
    BY <1>1
  <2>2. Len(Run(0, D + n)) = D + n
    BY <2>1, RunIsSeq, Zenon
  <2> QED BY <1>10, <2>2 DEF D
<1>12. D + n <= Total /\ (~(len <= disk.room) => D + n < Total)
  <2>1. CASE failed
    BY <1>1, <1>8, <2>1
  <2>2. CASE ~failed
    <3>1. D + len <= Total
      BY <2>2 DEF len
    <3> QED BY <1>1, <1>6, <3>1
  <2> QED BY <2>1, <2>2
<1>13. disk' \in DiskType
  <2>1. Join(disk.data, part) \in Seq(Units)
    BY <1>1, <1>9, ConcatProperties DEF Join
  <2>2. disk.room - n \in Nat
    BY <1>1
  <2> QED BY <1>2, <2>1, <2>2 DEF DiskType
<1>14. failed' => disk'.room = 0 /\ D' < Total
  BY <1>1, <1>4, <1>6, <1>7, <1>8, <1>10, <1>11, <1>12
<1>15. ~failed' => ~failed /\ Written(buffer) /\ D' = D + len
  BY <1>1, <1>4, <1>5, <1>6, <1>11
<1>16. Written(buffer) /\ ~failed => ~failed'
  BY <1>4, <1>5, <1>6
<1>17. failed => D' = D
  BY <1>1, <1>8, <1>11
<1> QED BY <1>1, <1>4, <1>10, <1>11, <1>12, <1>13, <1>14, <1>15, <1>16, <1>17 DEF len

\* A part of a sequence of units, or of the text.
LEMMA PartOfSeq ==
    ASSUME NEW S, NEW s \in Seq(S), NEW i \in Nat, NEW j \in Nat, 1 <= i, i <= j + 1, j <= Len(s)
    PROVE  Part(s, i, j) \in Seq(S) /\ Len(Part(s, i, j)) = j - i + 1
<1> DEFINE t == SubSeq(s, i, j)
<1>1. Len(s) \in Nat
  BY LenProperties
<1>2. \A k \in i..j : s[k] \in S
  BY <1>1, ElementOfSeq
<1>3. t \in Seq(S) /\ Len(t) = IF i <= j THEN j - i + 1 ELSE 0
  BY <1>2, SubSeqProperties
<1> HIDE DEF t
<1>4. t \in Seq(S) /\ Len(t) = j - i + 1
  BY <1>3
<1> QED BY <1>4, Zenon DEF t, Part

LEMMA PartsOfSeq ==
    ASSUME NEW S, NEW s \in Seq(S), NEW n \in Nat, n <= Len(s)
    PROVE  /\ Part(s, 1, n) \in Seq(S) /\ Len(Part(s, 1, n)) = n
           /\ Part(s, n + 1, Len(s)) \in Seq(S) /\ Len(Part(s, n + 1, Len(s))) = Len(s) - n
<1> DEFINE t == Part(s, 1, n)
           u == Part(s, n + 1, Len(s))
<1>1. Len(s) \in Nat
  BY LenProperties
<1>2. t \in Seq(S) /\ Len(t) = n - 1 + 1
  <2>1. 1 \in Nat /\ 1 <= 1 /\ 1 <= n + 1
    OBVIOUS
  <2> QED BY <2>1, PartOfSeq
<1>3. u \in Seq(S) /\ Len(u) = Len(s) - (n + 1) + 1
  <2>1. n + 1 \in Nat /\ 1 <= n + 1 /\ n + 1 <= Len(s) + 1 /\ Len(s) <= Len(s)
    BY <1>1
  <2> QED BY <1>1, <2>1, PartOfSeq
<1> HIDE DEF t, u
<1>4. t \in Seq(S) /\ Len(t) = n /\ u \in Seq(S) /\ Len(u) = Len(s) - n
  BY <1>1, <1>2, <1>3
<1> QED BY <1>4 DEF t, u

States == {"Closed", "NoBytesWritten", "BytesWritten", "NotReadFirstByte",
           "InStream", "EndOfStream", "Error"}
Calls == {"none", "write", "finish", "end", "read"}
CompType(n) == [state : States, held : Seq(Units), in : Seq(Units), call : Calls,
                want : Nat, data : Seq(1..TextLength), pos : 0..n, ungot : 0..bufferSize]

LEMMA Types ==
    TypeOK <=> /\ disk \in DiskType /\ comp \in CompType(D)
               /\ job \in {"none", "save", "saved", "crashed", "load", "loaded"}
               /\ put \in Seq(1..TextLength) /\ failed \in BOOLEAN
               /\ got \in Seq(1..TextLength) /\ xml \in {"ok", "premature"}
BY Zenon DEF TypeOK, DiskType, CompType, Units, States, Calls, D

\* The lengths that the invariant is about.
LEMMA LengthTypes ==
    ASSUME TypeOK
    PROVE  /\ D \in Nat /\ H \in Nat /\ K \in Nat /\ Len(put) \in Nat /\ Len(got) \in Nat
           /\ Len(comp.data) \in Nat /\ comp.pos \in Nat /\ comp.pos <= D
           /\ disk.data \in Seq(Units) /\ comp.held \in Seq(Units) /\ comp.in \in Seq(Units)
           /\ comp.data \in Seq(1..TextLength)
<1>1. /\ disk.data \in Seq(Units) /\ comp.held \in Seq(Units) /\ comp.in \in Seq(Units)
      /\ comp.data \in Seq(1..TextLength) /\ comp.pos \in 0..D
      /\ put \in Seq(1..TextLength) /\ got \in Seq(1..TextLength)
  BY Types DEF DiskType, CompType
<1>2. D \in Nat /\ H \in Nat /\ K \in Nat
  BY <1>1, LenProperties DEF D, H, K
<1>3. Len(comp.data) \in Nat /\ Len(put) \in Nat /\ Len(got) \in Nat
  BY <1>1, LenProperties
<1>4. comp.pos \in Nat /\ comp.pos <= D
  BY <1>1, <1>2
<1> QED BY <1>1, <1>2, <1>3, <1>4

\* deflate() moves units from the caller's buffer to zlib and from there to the
\* disk, in their order.
LEMMA DeflateKept ==
    ASSUME IInv, DeflateStep
    PROVE  IInv'
<1>1. TypeOK /\ DataOK /\ SaveOK /\ LoadOK /\ RestOK
  BY DEF IInv
<1>2. comp.call = "write" /\ Deflates /\ UNCHANGED <<job, put, got, xml>>
  BY DEF DeflateStep
<1>3. job = "save"
  BY <1>1, <1>2 DEF LoadOK, RestOK, Closed
<1>4. /\ comp.state \in {"NoBytesWritten", "BytesWritten"}
      /\ failed => disk.room = 0 /\ D < Total
      /\ ~failed => /\ comp.held = Run(D, H) /\ comp.in = Run(D + H, K)
                    /\ D + H + K = Len(put) + 1 /\ put # <<>>
      /\ disk.data = Run(0, D) /\ D <= Total /\ Len(put) <= TextLength
      /\ D <= Len(put) + 1 \/ Len(put) = TextLength
  BY <1>1, <1>2, <1>3 DEF SaveOK, DataOK
<1>5. PICK taken \in 0..Len(comp.in), given \in 0..bufferSize :
         /\ given <= Len(comp.held) + taken
         /\ given < bufferSize => taken = Len(comp.in)
         /\ LET all == comp.held \o SubSeq(comp.in, 1, taken)
                out == SubSeq(all, 1, given)
            IN  /\ writeBytes(out)
                /\ comp' = [comp EXCEPT
                       !.held = SubSeq(all, given + 1, Len(all)),
                       !.in = SubSeq(comp.in, taken + 1, Len(comp.in)),
                       !.state = IF Written(out) THEN "BytesWritten" ELSE @,
                       !.call = IF Written(out) /\ given = bufferSize THEN "write" ELSE "none"]
  BY <1>2, Zenon DEF Deflates
<1> DEFINE in == comp.in
           first == Part(in, 1, taken)
           all == Join(comp.held, first)
           out == Part(all, 1, given)
           rest == Part(all, given + 1, Len(all))
           left == Part(in, taken + 1, Len(in))
<1>6. /\ D \in Nat /\ H \in Nat /\ K \in Nat /\ Len(put) \in Nat
      /\ comp.held \in Seq(Units) /\ in \in Seq(Units)
      /\ Len(comp.held) = H /\ Len(in) = K
  BY <1>1, LengthTypes DEF H, K
<1>7. /\ taken \in Nat /\ given \in Nat /\ taken <= K /\ given <= bufferSize /\ given <= H + taken
      /\ (given < bufferSize => taken = K) /\ bufferSize \in Nat
  BY <1>5, <1>6, Lengths
<1> HIDE DEF in
<1>8. first \in Seq(Units) /\ Len(first) = taken /\ left \in Seq(Units) /\ Len(left) = K - taken
  <2>1. taken <= Len(in)
    BY <1>6, <1>7
  <2>2. Part(in, taken + 1, Len(in)) \in Seq(Units) /\ Len(Part(in, taken + 1, Len(in))) = Len(in) - taken
    BY <1>6, <1>7, <2>1, PartsOfSeq
  <2>3. Part(in, 1, taken) \in Seq(Units) /\ Len(Part(in, 1, taken)) = taken
    BY <1>6, <1>7, <2>1, PartsOfSeq
  <2> QED BY <1>6, <2>2, <2>3
<1> HIDE DEF first
<1>9. all \in Seq(Units) /\ Len(all) = H + taken
  BY <1>6, <1>8, ConcatProperties DEF Join
<1> HIDE DEF all
<1>10. out \in Seq(Units) /\ Len(out) = given /\ rest \in Seq(Units) /\ Len(rest) = H + taken - given
  <2>1. given <= Len(all)
    BY <1>6, <1>7, <1>9
  <2>2. out \in Seq(Units) /\ Len(out) = given
    BY <1>7, <1>9, <2>1, PartsOfSeq
  <2>3. rest \in Seq(Units) /\ Len(rest) = Len(all) - given
    BY <1>7, <1>9, <2>1, PartsOfSeq
  <2> HIDE DEF out, rest
  <2> QED BY <1>6, <1>7, <1>9, <2>2, <2>3
<1>11. ASSUME ~failed
       PROVE  /\ out = Run(D, given) /\ rest = Run(D + given, H + taken - given)
              /\ left = Run(D + H + taken, K - taken) /\ D + given <= Total
  <2>1. first = Run(D + H, taken) /\ left = Run(D + H + taken, K - taken)
    <3>1. D + H \in Nat /\ in = Run(D + H, K) /\ Len(in) = K
      BY <1>4, <1>6, <1>11 DEF in
    <3>2. Part(Run(D + H, K), 1, taken) = Run(D + H, taken)
      BY <1>6, <1>7, <3>1, RunParts
    <3>3. Part(Run(D + H, K), taken + 1, K) = Run(D + H + taken, K - taken)
      BY <1>6, <1>7, <3>1, RunParts
    <3> QED BY <3>1, <3>2, <3>3, Zenon DEF first
  <2>2. all = Run(D, H + taken)
    <3>1. Join(Run(D, H), Run(D + H, taken)) = Run(D, H + taken)
      BY <1>6, <1>7, RunConcat
    <3> QED BY <1>4, <1>11, <2>1, <3>1, Zenon DEF all
  <2>3. out = Run(D, given) /\ rest = Run(D + given, H + taken - given)
    <3>1. H + taken \in Nat
      BY <1>6, <1>7
    <3>2. Part(Run(D, H + taken), 1, given) = Run(D, given)
      BY <1>6, <1>7, <3>1, RunParts
    <3>3. Part(Run(D, H + taken), given + 1, H + taken) = Run(D + given, H + taken - given)
      BY <1>6, <1>7, <3>1, RunParts
    <3> QED BY <1>9, <2>2, <3>2, <3>3, Zenon
  <2>4. D + given <= Total
    BY <1>4, <1>6, <1>7, <1>11, Lengths
  <2> QED BY <2>1, <2>3, <2>4
<1>12. /\ writeBytes(out)
       /\ comp' = [comp EXCEPT !.held = rest, !.in = left,
                       !.state = IF Written(out) THEN "BytesWritten" ELSE comp.state,
                       !.call = IF Written(out) /\ given = bufferSize THEN "write" ELSE "none"]
  BY <1>5, Zenon DEF out, rest, left, all, first, in, Part, Join
<1> HIDE DEF out, rest, left
<1>13. /\ disk' \in DiskType /\ failed' \in BOOLEAN
       /\ disk'.data = Run(0, D') /\ D' \in Nat /\ D' <= Total
       /\ D <= D' /\ D' <= D + given
       /\ failed' => disk'.room = 0 /\ D' < Total
       /\ ~failed' => ~failed /\ Written(out) /\ D' = D + given
       /\ failed => D' = D
  <2>1. disk \in DiskType /\ failed \in BOOLEAN
    BY <1>1, Types
  <2>2. ~failed => out = Run(D, Len(out)) /\ D + Len(out) <= Total
    BY <1>10, <1>11
  <2> QED BY <1>4, <1>10, <1>12, <2>1, <2>2, Writing
<1>14. comp \in CompType(D)
  BY <1>1, Types
<1>15. /\ comp' \in CompType(D')
       /\ comp'.held = rest /\ comp'.in = left /\ comp'.call \in {"none", "write"}
       /\ comp'.state \in {"NoBytesWritten", "BytesWritten"}
       /\ Written(out) => comp'.state = "BytesWritten"
       /\ Written(out) /\ comp'.call = "none" => given # bufferSize
  <2>1. comp.pos \in 0..D'
    BY <1>6, <1>13, <1>14 DEF CompType
  <2> QED BY <1>4, <1>8, <1>10, <1>12, <1>14, <2>1 DEF CompType, States, Calls
<1>16. H' = H + taken - given /\ K' = K - taken
  BY <1>8, <1>10, <1>15 DEF H, K
<1>17. TypeOK'
  BY <1>1, <1>2, <1>13, <1>15, Types DEF TypeOK, DiskType, CompType, Units, States, Calls, D
<1>18. DataOK'
  <2>1. D' <= Len(put) + 1 \/ Len(put) = TextLength
    BY <1>4, <1>6, <1>7, <1>13
  <2> QED BY <1>1, <1>2, <1>13, <2>1 DEF DataOK
<1>19. SaveOK'
  <2>1. ASSUME ~failed'
        PROVE  /\ comp'.held = Run(D', H') /\ comp'.in = Run(D' + H', K')
               /\ D' + H' + K' = Len(put) + 1
               /\ comp'.call = "none" => K' = 0 /\ comp'.state = "BytesWritten"
    <3>1. ~failed /\ Written(out) /\ D' = D + given
      BY <1>13, <2>1
    <3>2. D' + H' = D + H + taken /\ D' + H' + K' = D + H + K
      BY <1>6, <1>7, <1>16, <3>1
    <3>3. comp'.call = "none" => K' = 0
      <4>1. given # bufferSize => taken = K
        BY <1>7
      <4> QED BY <1>6, <1>15, <1>16, <3>1, <4>1
    <3> QED BY <1>4, <1>11, <1>15, <1>16, <3>1, <3>2, <3>3
  <2> QED BY <1>2, <1>3, <1>4, <1>13, <1>15, <2>1 DEF SaveOK
<1>20. LoadOK' /\ RestOK'
  BY <1>2, <1>3 DEF LoadOK, RestOK
<1> QED BY <1>17, <1>18, <1>19, <1>20 DEF IInv

\* flushZlib(Z_FINISH) writes what zlib holds, a buffer at a time.
LEMMA FinishKept ==
    ASSUME IInv, FinishStep
    PROVE  IInv'
<1>1. TypeOK /\ DataOK /\ SaveOK /\ LoadOK /\ RestOK
  BY DEF IInv
<1>2. comp.call = "finish" /\ UNCHANGED <<job, put, got, xml>>
  BY DEF FinishStep
<1>3. job = "save"
  BY <1>1, <1>2 DEF LoadOK, RestOK, Closed
<1>4. /\ comp.state \in {"NoBytesWritten", "BytesWritten"}
      /\ failed => disk.room = 0 /\ D < Total
      /\ ~failed => comp.held = Run(D, H) /\ comp.in = Run(D + H, K) /\ K = 0 /\ D + H = Total
                    /\ Len(put) = TextLength
      /\ disk.data = Run(0, D) /\ D <= Total /\ Len(put) <= TextLength
      /\ D <= Len(put) + 1 \/ Len(put) = TextLength
  BY <1>1, <1>2, <1>3 DEF SaveOK, DataOK
<1> DEFINE held == comp.held
           n == IF Len(held) < bufferSize THEN Len(held) ELSE bufferSize
           out == Part(held, 1, n)
           rest == Part(held, n + 1, Len(held))
<1>5. /\ writeBytes(out)
      /\ comp' = [comp EXCEPT !.held = rest,
                      !.state = IF Written(out) THEN "BytesWritten" ELSE comp.state,
                      !.call = IF Written(out) /\ n < Len(held) THEN "finish" ELSE "end"]
  BY Zenon DEF FinishStep, Part
<1>6. /\ D \in Nat /\ H \in Nat /\ K \in Nat /\ Len(put) \in Nat
      /\ held \in Seq(Units) /\ Len(held) = H /\ bufferSize \in Nat /\ Total \in Nat
  BY <1>1, LengthTypes, Lengths DEF H
<1> HIDE DEF held
<1>7. n \in Nat /\ n <= Len(held) /\ n <= H
  BY <1>6
<1> HIDE DEF n
<1>8. out \in Seq(Units) /\ Len(out) = n
  BY <1>6, <1>7, PartsOfSeq
<1>9. rest \in Seq(Units) /\ Len(rest) = H - n
  <2>1. rest \in Seq(Units) /\ Len(rest) = Len(held) - n
    BY <1>6, <1>7, PartsOfSeq
  <2> HIDE DEF rest
  <2> QED BY <1>6, <2>1
<1>10. ASSUME ~failed PROVE out = Run(D, n) /\ rest = Run(D + n, H - n) /\ D + n <= Total
  <2>1. held = Run(D, H) /\ D + H = Total
    BY <1>4, <1>10 DEF held
  <2>2. Part(Run(D, H), 1, n) = Run(D, n)
    BY <1>6, <1>7, RunParts
  <2>3. Part(Run(D, H), n + 1, H) = Run(D + n, H - n)
    BY <1>6, <1>7, RunParts
  <2>4. D + n <= Total
    BY <1>6, <1>7, <2>1
  <2>5. out = Run(D, n) /\ rest = Run(D + n, H - n)
    BY <1>6, <2>1, <2>2, <2>3, Zenon
  <2> QED BY <2>4, <2>5
<1> HIDE DEF out, rest
<1>11. /\ disk' \in DiskType /\ failed' \in BOOLEAN
       /\ disk'.data = Run(0, D') /\ D' \in Nat /\ D' <= Total
       /\ D <= D' /\ D' <= D + n
       /\ failed' => disk'.room = 0 /\ D' < Total
       /\ ~failed' => ~failed /\ Written(out) /\ D' = D + n
       /\ failed => D' = D
  <2>1. disk \in DiskType /\ failed \in BOOLEAN
    BY <1>1, Types
  <2>2. ~failed => out = Run(D, Len(out)) /\ D + Len(out) <= Total
    BY <1>8, <1>10
  <2> QED BY <1>4, <1>5, <1>8, <2>1, <2>2, Writing
<1>12. comp \in CompType(D)
  BY <1>1, Types
<1>13. /\ comp' \in CompType(D')
       /\ comp'.held = rest /\ comp'.in = comp.in /\ comp'.call \in {"finish", "end"}
       /\ comp'.state \in {"NoBytesWritten", "BytesWritten"}
       /\ Written(out) /\ comp'.call = "end" => n = H
  <2>1. comp.pos \in 0..D'
    BY <1>6, <1>11, <1>12 DEF CompType
  <2>2. ~(n < Len(held)) => n = H
    BY <1>6, <1>7
  <2> QED BY <1>4, <1>5, <1>9, <1>12, <2>1, <2>2 DEF CompType, States, Calls
<1>14. H' = H - n /\ K' = K
  BY <1>9, <1>13 DEF H, K
<1>15. TypeOK'
  BY <1>1, <1>2, <1>11, <1>13, Types DEF TypeOK, DiskType, CompType, Units, States, Calls, D
<1>16. DataOK'
  <2>1. D' <= Len(put) + 1 \/ Len(put) = TextLength
    BY <1>4, <1>11
  <2> QED BY <1>1, <1>2, <1>11, <2>1 DEF DataOK
<1>17. SaveOK'
  <2>1. ASSUME ~failed'
        PROVE  /\ comp'.held = Run(D', H') /\ comp'.in = Run(D' + H', K')
               /\ K' = 0 /\ D' + H' = Total /\ Len(put) = TextLength
               /\ comp'.call = "end" => D' = Total
    <3>1. ~failed /\ Written(out) /\ D' = D + n
      BY <1>11, <2>1
    <3>2. D' + H' = D + H
      BY <1>6, <1>7, <1>14, <3>1
    <3>3. n = H => D' = Total
      BY <1>4, <3>1
    <3> QED BY <1>4, <1>10, <1>13, <1>14, <3>1, <3>2, <3>3
  <2> QED BY <1>2, <1>3, <1>11, <1>13, <2>1 DEF SaveOK
<1>18. LoadOK' /\ RestOK'
  BY <1>2, <1>3 DEF LoadOK, RestOK
<1> QED BY <1>15, <1>16, <1>17, <1>18 DEF IInv

\* The runs that are of units, and those that are of bytes of the text.
LEMMA RunTypes ==
    ASSUME NEW a \in Nat, NEW n \in Nat
    PROVE  /\ Run(a, n) \in Seq(Nat) /\ Len(Run(a, n)) = n
           /\ a + n <= Total => Run(a, n) \in Seq(Units)
           /\ 1 <= a /\ a + n <= TextLength + 1 => Run(a, n) \in Seq(1..TextLength)
<1> DEFINE r == Run(a, n)
<1>1. /\ r \in Seq(Nat) /\ Len(r) = n
      /\ \A lo \in Nat, hi \in Nat : lo <= a /\ a + n <= hi + 1 => r \in Seq(lo..hi)
  BY RunIsSeq
<1> HIDE DEF r
<1>2. ASSUME a + n <= Total PROVE r \in Seq(Units)
  <2>1. Header \in Nat /\ Trailer \in Nat /\ Header <= a /\ a + n <= Trailer + 1
    BY <1>2, Lengths DEF Header, Trailer
  <2> QED BY <1>1, <2>1 DEF Units
<1>3. ASSUME 1 <= a, a + n <= TextLength + 1 PROVE r \in Seq(1..TextLength)
  BY <1>1, <1>3, Lengths
<1> QED BY <1>1, <1>2, <1>3 DEF r

LEMMA ClosedType ==
    ASSUME NEW n \in Nat
    PROVE  /\ Closed \in CompType(n) /\ NewReader \in CompType(n) /\ NewWriter \in CompType(n)
           /\ NewReader = [Closed EXCEPT !.state = "NotReadFirstByte"]
           /\ <<>> \in Seq(Units) /\ <<>> \in Seq(1..TextLength)
<1>1. <<Header>> \in Seq(Units) /\ <<>> \in Seq(Units) /\ <<>> \in Seq(1..TextLength)
  BY Lengths DEF Units, Header, Trailer
<1>2. Closed \in CompType(n)
  BY <1>1, Lengths DEF Closed, CompType, States, Calls
<1>3. NewReader \in CompType(n)
  BY <1>2 DEF NewReader, CompType, States
<1>4. NewWriter \in CompType(n)
  BY <1>1, <1>2 DEF NewWriter, CompType, States
<1> QED BY <1>1, <1>2, <1>3, <1>4 DEF NewReader

\* saveShow(): the file is empty, zlib holds the header.
LEMMA SaveShowKept ==
    ASSUME IInv, saveShow
    PROVE  IInv'
<1>1. TypeOK /\ DataOK /\ SaveOK /\ LoadOK /\ RestOK
  BY DEF IInv
<1>2. /\ job = "none" /\ put = <<>> /\ job' = "save" /\ comp' = NewWriter
      /\ disk' = [disk EXCEPT !.data = <<>>] /\ UNCHANGED <<put, failed, got, xml>>
  BY DEF saveShow
<1>3. ~failed /\ ~failed'
  BY <1>1, <1>2 DEF RestOK
<1>4. disk'.data = <<>> /\ D' = 0 /\ disk' \in DiskType
  <2>1. disk \in DiskType /\ <<>> \in Seq(Units)
    BY <1>1, Types, ClosedType
  <2>2. disk'.data = <<>> /\ disk' \in DiskType
    BY <1>2, <2>1 DEF DiskType
  <2> QED BY <2>2 DEF D
<1>5. /\ comp'.held = <<Header>> /\ comp'.in = <<>> /\ comp'.call = "none"
      /\ comp'.state = "NoBytesWritten" /\ H' = 1 /\ K' = 0
  BY <1>2 DEF NewWriter, Closed, H, K
<1>6. Len(put) = 0 /\ Len(put') = 0 /\ put' = <<>>
  BY <1>2
<1>7. <<>> = Run(0, 0) /\ <<>> = Run(1, 0) /\ <<Header>> = Run(0, 1)
  BY WholeIsRun
<1>8. TypeOK'
  <2>1. comp' \in CompType(D')
    BY <1>2, <1>4, ClosedType
  <2> QED BY <1>1, <1>2, <1>4, <2>1, Types DEF TypeOK, DiskType, CompType, Units, States, Calls, D
<1>9. DataOK'
  BY <1>3, <1>4, <1>6, <1>7, Lengths DEF DataOK
<1>10. SaveOK'
  <2>1. D' + H' = 1 /\ D' + H' + K' = 1
    BY <1>4, <1>5
  <2> QED BY <1>3, <1>4, <1>5, <1>6, <1>7, <2>1 DEF SaveOK
<1>11. LoadOK' /\ RestOK'
  BY <1>2 DEF LoadOK, RestOK
<1> QED BY <1>8, <1>9, <1>10, <1>11 DEF IInv

\* writeData() begins: the piece follows what zlib holds.
LEMMA WriteDataKept ==
    ASSUME IInv, NEW n \in Pieces, writeData(n)
    PROVE  IInv'
<1>1. TypeOK /\ DataOK /\ SaveOK /\ LoadOK /\ RestOK
  BY DEF IInv
<1> DEFINE p == Len(put)
           piece == Part(Text, p + 1, p + n)
<1>2. /\ job = "save" /\ comp.call = "none" /\ p + n <= TextLength
      /\ UNCHANGED <<disk, job, failed, got, xml>>
  BY DEF writeData
<1>3. put' = Part(Text, 1, p + n) /\ comp' = [comp EXCEPT !.call = "write", !.in = piece]
  BY Zenon DEF writeData, Part
<1>4. /\ D \in Nat /\ H \in Nat /\ K \in Nat /\ p \in Nat /\ n \in Nat /\ n >= 1
      /\ TextLength \in Nat /\ Total = TextLength + 2
  BY <1>1, LengthTypes, Lengths, FileAssumption
<1> HIDE DEF p
<1>5. put' = Run(1, p + n)
  <2>1. 1 \in Nat /\ p + n \in Nat
    BY <1>4
  <2>2. Part(Run(1, TextLength), 1, p + n) = Run(1, p + n)
    BY <1>2, <1>4, <2>1, RunParts
  <2> QED BY <1>3, <2>2, WholeIsRun
<1>6. piece = Run(p + 1, n)
  <2>1. Part(Run(1, TextLength), p + 1, p + n) = Run(1 + p, n)
    <3> DEFINE i == p + 1
               j == p + n
               b == 1 + p
    <3>1. /\ 1 \in Nat /\ TextLength \in Nat /\ i \in Nat /\ j \in Nat /\ b \in Nat /\ n \in Nat
          /\ 1 <= i /\ j <= TextLength /\ b = 1 + i - 1 /\ n = j - i + 1
      BY <1>2, <1>4
    <3> HIDE DEF i, j, b
    <3>2. Part(Run(1, TextLength), i, j) = Run(b, n)
      BY <3>1, RunMiddle
    <3> QED BY <3>2, Zenon DEF i, j, b
  <2>2. 1 + p = p + 1
    BY <1>4
  <2> QED BY <2>1, <2>2, WholeIsRun
<1>7. /\ Len(put') = p + n /\ put' \in Seq(1..TextLength)
      /\ Len(piece) = n /\ piece \in Seq(Units)
  <2>1. Len(put') = p + n /\ put' \in Seq(1..TextLength)
    <3>1. 1 \in Nat /\ p + n \in Nat /\ 1 + (p + n) <= TextLength + 1
      BY <1>2, <1>4
    <3> QED BY <1>5, <3>1, RunTypes
  <2>2. Len(piece) = n /\ piece \in Seq(Units)
    <3>1. p + 1 \in Nat /\ (p + 1) + n <= Total
      BY <1>2, <1>4
    <3> HIDE DEF piece
    <3> QED BY <1>4, <1>6, <3>1, RunTypes
  <2> QED BY <2>1, <2>2
<1> HIDE DEF piece
<1>8. comp \in CompType(D)
  BY <1>1, Types
<1>9. /\ comp' \in CompType(D) /\ comp'.held = comp.held /\ comp'.in = piece
      /\ comp'.call = "write" /\ comp'.state = comp.state /\ D' = D /\ H' = H /\ K' = n
  BY <1>2, <1>3, <1>7, <1>8 DEF CompType, Calls, D, H, K
<1>10. TypeOK'
  BY <1>1, <1>2, <1>7, <1>9, Types DEF TypeOK, DiskType, CompType, Units, States, Calls, D
<1>11. DataOK'
  <2>1. D <= p + n + 1 \/ p + n = TextLength
    BY <1>1, <1>2, <1>4 DEF DataOK, p
  <2> QED BY <1>1, <1>2, <1>5, <1>7, <1>9, <2>1 DEF DataOK
<1>12. SaveOK'
  <2>1. ASSUME ~failed
        PROVE  comp.held = Run(D, H) /\ piece = Run(D + H, n) /\ D + H + n = p + n + 1
    <3>1. comp.held = Run(D, H) /\ D + H + K = p + 1 /\ K = 0
      BY <1>1, <1>2, <2>1 DEF SaveOK, p
    <3>2. D + H = p + 1 /\ D + H + n = p + n + 1
      BY <1>4, <3>1
    <3> QED BY <1>6, <3>1, <3>2
  <2>2. put' # <<>>
    BY <1>4, <1>7
  <2> QED BY <1>1, <1>2, <1>7, <1>9, <2>1, <2>2 DEF SaveOK
<1>13. LoadOK' /\ RestOK'
  BY <1>2 DEF LoadOK, RestOK
<1> QED BY <1>10, <1>11, <1>12, <1>13 DEF IInv

\* close() adds the trailer, unless nothing was written.
LEMMA SaverEndsKept ==
    ASSUME IInv, SaverEnds
    PROVE  IInv'
<1>1. TypeOK /\ DataOK /\ SaveOK /\ LoadOK /\ RestOK
  BY DEF IInv
<1> DEFINE held == comp.held
           more == Join(held, <<Trailer>>)
<1>2. /\ job = "save" /\ comp.call = "none" /\ (Len(put) = TextLength \/ failed)
      /\ UNCHANGED <<disk, job, put, failed, got, xml>>
  BY DEF SaverEnds
<1>3. IF comp.state = "BytesWritten"
      THEN comp' = [comp EXCEPT !.state = "NoBytesWritten", !.call = "finish", !.held = more]
      ELSE comp' = [comp EXCEPT !.call = "end"]
  BY Zenon DEF SaverEnds, Join
<1>4. /\ D \in Nat /\ H \in Nat /\ K \in Nat /\ held \in Seq(Units) /\ Len(held) = H
      /\ TextLength \in Nat /\ TextLength >= 1 /\ Total = TextLength + 2
  BY <1>1, LengthTypes, Lengths DEF H
<1> HIDE DEF held
<1>5. more \in Seq(Units) /\ Len(more) = H + 1
  <2>1. <<Trailer>> \in Seq(Units) /\ Len(<<Trailer>>) = 1
    BY <1>4 DEF Units, Header, Trailer
  <2> QED BY <1>4, <2>1, ConcatProperties DEF Join
<1> HIDE DEF more
<1>6. comp \in CompType(D) /\ D' = D
  BY <1>1, <1>2, Types DEF D
<1>7. /\ comp' \in CompType(D) /\ comp'.in = comp.in /\ K' = K
      /\ comp'.state \in {"NoBytesWritten", comp.state}
      /\ comp'.call \in {"finish", "end"}
  BY <1>3, <1>5, <1>6 DEF CompType, States, Calls, K
<1>8. TypeOK'
  BY <1>1, <1>2, <1>6, <1>7, Types DEF TypeOK, DiskType, CompType, Units, States, Calls, D
<1>9. DataOK'
  BY <1>1, <1>2, <1>6 DEF DataOK
<1>10. SaveOK'
  <2>1. ASSUME ~failed
        PROVE  /\ comp'.held = Run(D, H') /\ comp'.in = Run(D + H', K') /\ comp'.call = "finish"
               /\ K' = 0 /\ D + H' = Total /\ Len(put) = TextLength
    <3>1. /\ held = Run(D, H) /\ D + H + K = Len(put) + 1 /\ K = 0 /\ Len(put) = TextLength
          /\ comp.in = Run(D + H, K) /\ (put # <<>> => comp.state = "BytesWritten")
      BY <1>1, <1>2, <2>1 DEF SaveOK, held
    <3>2. put # <<>>
      BY <1>4, <3>1
    <3>3. comp.state = "BytesWritten"
      BY <3>1, <3>2
    <3>4. comp'.held = more /\ comp'.call = "finish" /\ H' = H + 1
      BY <1>3, <1>5, <1>6, <3>3 DEF CompType, H
    <3>5. D + H = TextLength + 1 /\ D + H' = Total
      BY <1>4, <3>1, <3>4
    <3>6. more = Run(D, H + 1)
      <4>1. <<Trailer>> = Run(D + H, 1)
        BY <3>5, WholeIsRun
      <4>2. Join(Run(D, H), Run(D + H, 1)) = Run(D, H + 1)
        BY <1>4, RunConcat
      <4> QED BY <3>1, <4>1, <4>2 DEF more
    <3>7. comp.in = Run(D + H', K')
      <4>1. K' = 0 /\ D + H' \in Nat /\ D + H \in Nat
        BY <1>4, <1>7, <3>1, <3>4
      <4> QED BY <3>1, <4>1, WholeIsRun
    <3> QED BY <1>7, <3>1, <3>4, <3>5, <3>6, <3>7
  <2>2. comp.state \in {"NoBytesWritten", "BytesWritten"} /\ (failed => disk.room = 0)
    BY <1>1, <1>2 DEF SaveOK
  <2> QED BY <1>2, <1>6, <1>7, <2>1, <2>2 DEF SaveOK
<1>11. LoadOK' /\ RestOK'
  BY <1>2 DEF LoadOK, RestOK
<1> QED BY <1>8, <1>9, <1>10, <1>11 DEF IInv

\* The file is closed; what was on the disk stays there.
LEMMA SavedKept ==
    ASSUME IInv, Saved
    PROVE  IInv'
<1>1. TypeOK /\ DataOK /\ SaveOK /\ LoadOK /\ RestOK
  BY DEF IInv
<1>2. /\ job = "save" /\ comp.call = "end" /\ comp' = Closed /\ job' = "saved"
      /\ UNCHANGED <<disk, put, failed, got, xml>>
  BY DEF Saved
<1>3. D' = D /\ D \in Nat
  BY <1>1, <1>2, LengthTypes DEF D
<1>4. TypeOK'
  <2>1. comp' \in CompType(D')
    BY <1>2, <1>3, ClosedType
  <2> QED BY <1>1, <1>2, <2>1, Types DEF TypeOK, DiskType, CompType, Units, States, Calls, D
<1>5. DataOK'
  BY <1>1, <1>2, <1>3 DEF DataOK
<1>6. SaveOK' /\ LoadOK' /\ RestOK'
  BY <1>1, <1>2, <1>3 DEF SaveOK, LoadOK, RestOK
<1> QED BY <1>4, <1>5, <1>6 DEF IInv

\* A crash leaves the beginning of what was on the disk.
LEMMA CrashKept ==
    ASSUME IInv, Crash
    PROVE  IInv'
<1>1. TypeOK /\ DataOK /\ SaveOK /\ LoadOK /\ RestOK
  BY DEF IInv
<1>2. /\ job = "save" /\ comp' = Closed /\ job' = "crashed"
      /\ UNCHANGED <<put, failed, got, xml>>
  BY DEF Crash
<1>3. PICK n \in 0..Len(disk.data) : disk' = [disk EXCEPT !.data = Part(disk.data, 1, n)]
  BY Zenon DEF Crash, Part
<1>4. D \in Nat /\ n \in Nat /\ n <= D /\ disk \in DiskType
  BY <1>1, <1>3, LengthTypes, Types DEF D
<1>5. Part(disk.data, 1, n) = Run(0, n)
  <2>1. Part(Run(0, D), 1, n) = Run(0, n)
    BY <1>4, RunParts
  <2> QED BY <1>1, <2>1 DEF DataOK
<1>6. D <= Total /\ Total \in Nat /\ Len(put) \in Nat
  BY <1>1, Lengths, LengthTypes DEF DataOK
<1>7. Run(0, n) \in Seq(Units) /\ Len(Run(0, n)) = n
  BY <1>4, <1>6, RunTypes
<1>8. disk'.data = Run(0, n) /\ disk' \in DiskType
  BY <1>3, <1>4, <1>5, <1>7 DEF DiskType
<1>9. D' = n
  BY <1>7, <1>8 DEF D
<1>10. TypeOK'
  <2>1. comp' \in CompType(D')
    BY <1>2, <1>4, <1>9, ClosedType
  <2> QED BY <1>1, <1>2, <1>8, <2>1, Types DEF TypeOK, DiskType, CompType, Units, States, Calls, D
<1>11. DataOK'
  <2>1. n <= Total /\ (failed => n < Total) /\ (n <= Len(put) + 1 \/ Len(put) = TextLength)
    BY <1>1, <1>4, <1>6 DEF DataOK
  <2> QED BY <1>1, <1>2, <1>8, <1>9, <2>1 DEF DataOK
<1>12. SaveOK' /\ LoadOK' /\ RestOK'
  BY <1>1, <1>2 DEF SaveOK, LoadOK, RestOK
<1> QED BY <1>10, <1>11, <1>12 DEF IInv
-----------------------------------------------------------------------------
(***************************************************************************)
(* Loading.                                                                *)
(***************************************************************************)
LEMMA LoadShowKept ==
    ASSUME IInv, loadShow
    PROVE  IInv'
<1>1. TypeOK /\ DataOK /\ SaveOK /\ LoadOK /\ RestOK
  BY DEF IInv
<1>2. /\ job' = "load" /\ comp' = NewReader /\ got' = <<>> /\ xml' = "ok"
      /\ UNCHANGED <<disk, put, failed>>
  BY DEF loadShow
<1>3. D' = D /\ D \in Nat /\ Len(put) \in Nat /\ bufferSize \in Nat
  BY <1>1, <1>2, LengthTypes, Lengths DEF D
<1>4. /\ comp'.in = <<>> /\ comp'.data = <<>> /\ comp'.pos = 0 /\ comp'.call = "none"
      /\ comp'.state = "NotReadFirstByte" /\ K' = 0 /\ Len(comp'.data) = 0 /\ Len(got') = 0
  BY <1>2 DEF NewReader, Closed, K
<1>5. Used' = 0
  BY <1>4 DEF Used
<1>6. TypeOK'
  <2>1. comp' \in CompType(D') /\ got' \in Seq(1..TextLength)
    BY <1>2, <1>3, ClosedType
  <2> QED BY <1>1, <1>2, <2>1, Types DEF TypeOK, DiskType, CompType, Units, States, Calls, D
<1>7. DataOK'
  BY <1>1, <1>2, <1>3 DEF DataOK
<1>8. LoadOK'
  <2>1. Run(0, 0) = <<>> /\ Run(1, 0) = <<>>
    BY WholeIsRun
  <2>2. TextIn(0) = 0
    BY DEF TextIn
  <2> QED BY <1>2, <1>3, <1>4, <1>5, <2>1, <2>2 DEF LoadOK
<1>9. SaveOK' /\ RestOK'
  BY <1>2 DEF SaveOK, RestOK
<1> QED BY <1>6, <1>7, <1>8, <1>9 DEF IInv

LEMMA ReadDataKept ==
    ASSUME IInv, NEW maxSize \in ReadSizes, readData(maxSize)
    PROVE  IInv'
<1>1. TypeOK /\ DataOK /\ SaveOK /\ LoadOK /\ RestOK
  BY DEF IInv
<1>2. /\ job = "load" /\ comp.call = "none" /\ UNCHANGED <<disk, job, put, failed, got>>
      /\ \/ xml' = "premature" /\ comp' = comp
         \/ /\ comp.state \notin {"EndOfStream", "Error"} /\ xml' = xml
            /\ comp' = [comp EXCEPT !.call = "read", !.want = maxSize, !.data = <<>>]
  BY DEF readData
<1>3. D' = D /\ comp \in CompType(D) /\ maxSize \in Nat
  BY <1>1, <1>2, Types, FileAssumption DEF D
<1>4. comp.data = <<>>
  BY <1>1, <1>2 DEF LoadOK
<1>5. /\ comp' \in CompType(D) /\ comp'.in = comp.in /\ comp'.data = comp.data
      /\ comp'.pos = comp.pos /\ comp'.state = comp.state /\ K' = K /\ Used' = Used
      /\ \/ comp' = comp
         \/ comp.state \notin {"EndOfStream", "Error"} /\ comp'.call = "read" /\ comp'.want = maxSize
  BY <1>2, <1>3, <1>4 DEF CompType, Calls, K, Used
<1>6. TypeOK'
  BY <1>1, <1>2, <1>3, <1>5, Types DEF TypeOK, DiskType, CompType, Units, States, Calls, D
<1>7. DataOK'
  BY <1>1, <1>2, <1>3 DEF DataOK
<1>8. LoadOK'
  <2>1. Len(comp.data) = 0 /\ 0 <= maxSize
    BY <1>3, <1>4
  <2> QED BY <1>1, <1>2, <1>3, <1>4, <1>5, <2>1 DEF LoadOK
<1>9. SaveOK' /\ RestOK'
  BY <1>2 DEF SaveOK, RestOK
<1> QED BY <1>6, <1>7, <1>8, <1>9 DEF IInv

\* The input of inflate(), refilled where it was used up: the units behind the
\* ones used, and none only at the end of the file.
LEMMA FilledFacts ==
    ASSUME IInv, job = "load", comp.call = "read"
    PROVE  /\ Filled(comp) \in CompType(D) /\ Len(Filled(comp).in) \in Nat
           /\ Filled(comp).want = comp.want /\ Filled(comp).data = comp.data
           /\ Filled(comp).call = "read" /\ Filled(comp).state \in {"NotReadFirstByte", "InStream"}
           /\ Used \in Nat /\ Filled(comp).pos = Used + Len(Filled(comp).in)
           /\ Len(Filled(comp).in) <= bufferSize
           /\ Filled(comp).in = Run(Used, Len(Filled(comp).in))
           /\ Filled(comp).in = <<>> => Filled(comp).pos = D
           /\ comp.in = <<>> /\ comp.pos = D => Filled(comp).in = <<>>
<1>1. TypeOK /\ DataOK /\ LoadOK /\ comp \in CompType(D)
  BY Types DEF IInv
<1>2. /\ D \in Nat /\ K \in Nat /\ comp.pos \in Nat /\ comp.pos <= D /\ D <= Total
      /\ K <= comp.pos /\ K <= bufferSize /\ comp.in = Run(Used, K) /\ disk.data = Run(0, D)
      /\ comp.state \in {"NotReadFirstByte", "InStream"} /\ bufferSize \in Nat /\ bufferSize >= 1
      /\ Total \in Nat
  BY <1>1, LengthTypes, Lengths DEF LoadOK, DataOK
<1>3. Used \in Nat /\ Used + K = comp.pos
  BY <1>2 DEF Used
<1>4. CASE comp.in # <<>>
  <2>1. Filled(comp) = comp
    BY <1>4 DEF Filled
  <2> QED BY <1>1, <1>2, <1>3, <1>4, <2>1 DEF K
<1>5. CASE comp.in = <<>>
  <2> DEFINE left == D - comp.pos
             n == IF left < bufferSize THEN left ELSE bufferSize
             part == Part(disk.data, comp.pos + 1, comp.pos + n)
  <2>1. Filled(comp) = [comp EXCEPT !.in = part, !.pos = comp.pos + n,
                                    !.state = IF n > 0 THEN "InStream" ELSE comp.state]
    BY <1>5, Zenon DEF Filled, Part, D
  <2>2. /\ n \in Nat /\ n <= bufferSize /\ comp.pos + n <= D /\ (n = 0 => comp.pos = D)
        /\ (comp.pos = D => n = 0)
    BY <1>2
  <2> HIDE DEF n
  <2>3. Used = comp.pos
    <3>1. K = 0
      BY <1>5 DEF K
    <3> QED BY <1>2, <3>1 DEF Used
  <2>4. part = Run(comp.pos, n)
    <3> DEFINE i == comp.pos + 1
               j == comp.pos + n
               at == comp.pos
    <3>1. /\ 0 \in Nat /\ D \in Nat /\ i \in Nat /\ j \in Nat /\ at \in Nat /\ n \in Nat
          /\ 1 <= i /\ j <= D /\ at = 0 + i - 1 /\ n = j - i + 1
      BY <1>2, <2>2
    <3> HIDE DEF i, j, at
    <3>2. Part(Run(0, D), i, j) = Run(at, n)
      BY <3>1, RunMiddle
    <3> QED BY <1>2, <3>2, Zenon DEF i, j, at
  <2>5. part \in Seq(Units) /\ Len(part) = n
    <3>1. comp.pos + n <= Total
      BY <1>2, <2>2
    <3> HIDE DEF part
    <3> QED BY <1>2, <2>2, <2>4, <3>1, RunTypes
  <2> HIDE DEF part
  <2>6. n = 0 <=> part = <<>>
    BY <2>5
  <2>7. /\ Filled(comp) \in CompType(D) /\ Filled(comp).in = part
        /\ Filled(comp).pos = comp.pos + n
        /\ Filled(comp).want = comp.want /\ Filled(comp).data = comp.data
        /\ Filled(comp).call = "read" /\ Filled(comp).state \in {"NotReadFirstByte", "InStream"}
    <3>1. comp.pos + n \in 0..D
      BY <1>2, <2>2
    <3> QED BY <1>1, <1>2, <2>1, <2>5, <3>1 DEF CompType, States
  <2> QED BY <1>2, <1>3, <2>2, <2>3, <2>4, <2>5, <2>6, <2>7, SMTT(20)
<1> QED BY <1>4, <1>5

\* What one inflate() makes of its input: the bytes that follow the ones the
\* loader has, no more than it asked for and no more than were handed over.
LEMMA Inflating ==
    ASSUME IInv, job = "load", comp.call = "read", NEW c, c = Filled(comp), c.in # <<>>,
           NEW n, n = Inflated(c), NEW data, data = Join(c.data, Bytes(Part(c.in, 1, n))),
           NEW left, left = Part(c.in, n + 1, Len(c.in))
    PROVE  /\ n \in Nat /\ n <= Len(c.in) /\ Used + n <= D
           /\ left = Run(Used + n, Len(c.in) - n) /\ Len(left) = Len(c.in) - n /\ left \in Seq(Units)
           /\ data \in Seq(1..TextLength) /\ Len(data) \in Nat /\ Len(data) <= c.want
           /\ data = Run(Len(got) + 1, Len(data)) /\ Len(got) + Len(data) = TextIn(Used + n)
           /\ Len(got) + Len(data) <= Len(put)
<1> DEFINE k == Len(c.in)
           g == Len(got)
           d == Len(comp.data)
<1>1. TypeOK /\ DataOK /\ LoadOK
  BY DEF IInv
<1>2. /\ c \in CompType(D) /\ k \in Nat /\ c.want = comp.want /\ c.data = comp.data
      /\ Used \in Nat /\ c.pos = Used + k /\ c.in = Run(Used, k)
      /\ ~(comp.in = <<>> /\ comp.pos = D)
  BY FilledFacts
<1>3. /\ comp.data = Run(g + 1, d) /\ g + d = TextIn(Used) /\ got = Run(1, g) /\ d <= comp.want
  BY <1>1, <1>2 DEF LoadOK
<1>4. /\ D \in Nat /\ g \in Nat /\ d \in Nat /\ comp.want \in Nat /\ Len(put) \in Nat
      /\ comp.data \in Seq(1..TextLength)
      /\ Total = TextLength + 2 /\ TextLength \in Nat /\ TextLength >= 1
  BY <1>1, <1>2, LengthTypes, Lengths DEF CompType
<1>5. Used + k <= D /\ D <= Total
  BY <1>1, <1>2, <1>4 DEF DataOK, CompType
<1>6. n \in Nat /\ n <= k /\ Len(Bytes(Part(c.in, 1, n))) <= c.want - Len(c.data)
  <2>1. Used + k <= Total
    BY <1>2, <1>4, <1>5
  <2>2. c.want \in Nat /\ Len(c.data) \in Nat /\ Len(c.data) <= c.want
    BY <1>2, <1>3, <1>4
  <2>3. /\ Inflated(c) \in 0..k
        /\ Len(Bytes(SubSeq(c.in, 1, Inflated(c)))) <= c.want - Len(c.data)
    BY <1>2, <2>1, <2>2, InflatedIsThere, Zenon
  <2>4. Len(Bytes(Part(c.in, 1, n))) <= c.want - Len(c.data)
    BY <2>3, Zenon DEF Part
  <2>5. n \in 0..k
    BY <2>3, Zenon
  <2> QED BY <1>2, <2>4, <2>5
<1> DEFINE m == TextIn(Used + n) - TextIn(Used)
<1>7. Used + n \in Nat /\ Used + n <= D /\ Used + n <= Total
  <2>1. /\ Used \in Nat /\ k \in Nat /\ n \in Nat /\ D \in Nat /\ TextLength \in Nat
        /\ n <= k /\ Used + k <= D /\ D <= Total /\ Total = TextLength + 2
    BY <1>2, <1>4, <1>5, <1>6, Zenon
  <2> HIDE DEF k
  <2> QED BY <2>1
<1>8. Part(c.in, 1, n) = Run(Used, n)
  <2>1. Part(Run(Used, k), 1, n) = Run(Used, n)
    <3>1. Used \in Nat /\ k \in Nat /\ n \in Nat /\ n <= k
      BY <1>2, <1>6, Zenon
    <3> HIDE DEF k
    <3> QED BY <3>1, RunParts
  <2> QED BY <1>2, <2>1
<1>9. /\ left = Run(Used + n, k - n) /\ Len(left) = k - n /\ left \in Seq(Units)
  <2>1. Part(Run(Used, k), n + 1, k) = Run(Used + n, k - n)
    <3>1. Used \in Nat /\ k \in Nat /\ n \in Nat /\ n <= k
      BY <1>2, <1>6, Zenon
    <3> HIDE DEF k
    <3>2. ASSUME NEW a \in Nat, NEW b \in Nat, NEW j \in Nat, j <= b
          PROVE  Part(Run(a, b), j + 1, b) = Run(a + j, b - j)
      BY <3>2, RunParts
    <3> QED BY <3>1, <3>2, Zenon
  <2>2. left = Run(Used + n, k - n)
    BY <1>2, <2>1, Zenon
  <2> HIDE DEF k
  <2>3. k - n \in Nat /\ (Used + n) + (k - n) = Used + k /\ Used + k <= Total
    <3>1. /\ Used \in Nat /\ k \in Nat /\ n \in Nat /\ D \in Nat /\ TextLength \in Nat
          /\ n <= k /\ Used + k <= D /\ D <= Total /\ Total = TextLength + 2
      BY <1>2, <1>4, <1>5, <1>6, Zenon DEF k
    <3> QED BY <3>1
  <2> QED BY <1>7, <2>2, <2>3, RunTypes
<1>10. Bytes(Part(c.in, 1, n)) = Run(TextIn(Used) + 1, m) /\ m \in Nat /\ TextIn(Used) \in Nat
       /\ TextIn(Used + n) <= TextLength /\ TextIn(Used + n) \in Nat
  BY <1>2, <1>6, <1>7, <1>8, BytesOfRun, TextInFacts
<1> HIDE DEF k, g, d, m
<1>11. data = Run(g + 1, d + m)
  <2>1. g + 1 \in Nat /\ TextIn(Used) + 1 = g + 1 + d /\ TextIn(Used) + 1 \in Nat
    BY <1>3, <1>4, <1>10, SMTT(20)
  <2>2. Join(Run(g + 1, d), Run(TextIn(Used) + 1, m)) = Run(g + 1, d + m)
    BY <1>4, <1>10, <2>1, RunConcat
  <2> QED BY <1>2, <1>3, <1>10, <2>2
<1>12. g + (d + m) = TextIn(Used + n) /\ d + m \in Nat /\ g + 1 \in Nat
  <2> DEFINE x == TextIn(Used + n)
             y == TextIn(Used)
  <2>1. /\ g \in Nat /\ d \in Nat /\ m \in Nat /\ x \in Nat /\ y \in Nat
        /\ g + d = y /\ m = x - y
    BY <1>3, <1>4, <1>10, Zenon DEF m
  <2> HIDE DEF x, y
  <2>2. g + (d + m) = x /\ d + m \in Nat /\ g + 1 \in Nat
    BY <2>1
  <2> QED BY <2>2, Zenon DEF x
<1>13. Len(data) = d + m /\ data \in Seq(1..TextLength)
  <2>1. 1 <= g + 1 /\ (g + 1) + (d + m) <= TextLength + 1
    BY <1>4, <1>10, <1>12
  <2> QED BY <1>11, <1>12, <2>1, RunTypes
<1>14. d + m <= c.want
  <2>1. Len(Run(TextIn(Used) + 1, m)) = m
    <3>1. TextIn(Used) + 1 \in Nat
      BY <1>10
    <3> QED BY <1>10, <3>1, RunTypes
  <2>2. m <= c.want - d
    BY <1>2, <1>6, <1>10, <2>1 DEF d
  <2> QED BY <1>2, <1>4, <1>10, <2>2, SMTT(20)
<1>15. TextIn(Used + n) <= Len(put)
  <2>1. D <= Len(put) + 1 \/ Len(put) = TextLength
    BY <1>1 DEF DataOK
  <2>2. CASE Len(put) = TextLength
    BY <1>10, <2>2
  <2>3. CASE D <= Len(put) + 1
    BY <1>4, <1>7, <2>3 DEF TextIn
  <2> QED BY <2>1, <2>2, <2>3
<1> QED BY <1>6, <1>7, <1>9, <1>11, <1>12, <1>13, <1>14, <1>15 DEF k, g

\* inflate() gives the loader the bytes that follow the ones it has, and is at
\* the end of the stream only with the last one.
LEMMA InflateKept ==
    ASSUME IInv, InflateStep, job = "load"
    PROVE  /\ IInv' /\ Len(got) <= Len(got')
           /\ comp'.state = "EndOfStream" => got' = put
<1>1. TypeOK /\ DataOK /\ SaveOK /\ LoadOK /\ RestOK
  BY DEF IInv
<1> DEFINE c == Filled(comp)
           n == Inflated(c)
           data == Join(c.data, Bytes(Part(c.in, 1, n)))
           left == Part(c.in, n + 1, Len(c.in))
           rest == [c EXCEPT !.in = left, !.data = data]
           k == Len(c.in)
           g == Len(got)
<1>2. comp.call = "read" /\ UNCHANGED <<disk, job, put, failed>>
  BY DEF InflateStep
<1>3. IF c.in = <<>> THEN Returns(c, <<>>)
      ELSE IF n > 0 /\ c.in[n] = Trailer
      THEN Returns([rest EXCEPT !.state = "EndOfStream", !.ungot = Len(rest.in) + 1], data)
      ELSE IF Len(data) = c.want THEN Returns(rest, data)
      ELSE comp' = rest /\ UNCHANGED <<got, xml>>
  BY Zenon DEF InflateStep, Join, Part
<1>4. /\ c \in CompType(D) /\ k \in Nat /\ c.want = comp.want /\ c.data = comp.data
      /\ c.call = "read" /\ c.state \in {"NotReadFirstByte", "InStream"}
      /\ Used \in Nat /\ c.pos = Used + k /\ k <= bufferSize /\ c.in = Run(Used, k)
      /\ c.in = <<>> => c.pos = D
  BY <1>2, FilledFacts
<1>5. /\ D' = D /\ D \in Nat /\ g \in Nat /\ Len(put) \in Nat /\ got \in Seq(1..TextLength)
      /\ Total = TextLength + 2 /\ TextLength \in Nat /\ TextLength >= 1
      /\ bufferSize \in Nat /\ bufferSize >= 1 /\ D <= Total
      /\ got = Run(1, g) /\ g <= Len(put)
  BY <1>1, <1>2, LengthTypes, Lengths, Types DEF D, DataOK, LoadOK
<1>6. DataOK' /\ SaveOK' /\ RestOK'
  BY <1>1, <1>2, <1>5 DEF DataOK, SaveOK, RestOK
<1>7. ASSUME comp' \in CompType(D), got' \in Seq(1..TextLength), xml' \in {"ok", "premature"}
      PROVE  TypeOK'
  BY <1>1, <1>2, <1>5, <1>7, Types DEF TypeOK, DiskType, CompType, Units, States, Calls, D
<1>8. CASE c.in = <<>>
  <2> HIDE DEF c
  <2>1. comp' = [c EXCEPT !.call = "none", !.want = 0, !.data = <<>>] /\ got' = got \o <<>>
        /\ xml' = "premature"
    BY <1>3, <1>8 DEF Returns
  <2>2. got' = got
    BY <1>5, <2>1, ConcatEmptySeq
  <2>3. /\ comp' \in CompType(D) /\ comp'.in = <<>> /\ comp'.data = <<>> /\ comp'.call = "none"
        /\ comp'.pos = D /\ comp'.state \in {"NotReadFirstByte", "InStream"}
    <3>1. <<>> \in Seq(1..TextLength)
      BY <1>5, ClosedType
    <3> QED BY <1>4, <1>8, <2>1, <3>1 DEF CompType, Calls
  <2>4. K' = 0 /\ Used' = D
    <3>1. K' = 0
      BY <2>3 DEF K
    <3> QED BY <1>5, <2>3, <3>1 DEF Used
  <2>5. <<>> = Run(D, 0)
    BY <1>5, WholeIsRun
  <2>6. LoadOK'
    BY <1>2, <1>5, <2>2, <2>3, <2>4, <2>5 DEF LoadOK
  <2> QED BY <1>5, <1>6, <1>7, <2>1, <2>2, <2>3, <2>6 DEF IInv
<1>9. CASE c.in # <<>>
  <2>1. /\ n \in Nat /\ n <= k /\ Used + n <= D
        /\ left = Run(Used + n, k - n) /\ Len(left) = k - n /\ left \in Seq(Units)
        /\ data \in Seq(1..TextLength) /\ Len(data) \in Nat /\ Len(data) <= c.want
        /\ data = Run(g + 1, Len(data)) /\ g + Len(data) = TextIn(Used + n)
        /\ g + Len(data) <= Len(put)
    <3>1. c = Filled(comp) /\ n = Inflated(c)
      OBVIOUS
    <3>2. data = Join(c.data, Bytes(Part(c.in, 1, n))) /\ left = Part(c.in, n + 1, Len(c.in))
      OBVIOUS
    <3> HIDE DEF c, n, data, left
    <3> QED BY <1>2, <1>9, <3>1, <3>2, Inflating
  <2> HIDE DEF c, n, data, left
  <2>2. /\ rest \in CompType(D) /\ rest.in = left /\ rest.data = data /\ rest.pos = Used + k
        /\ rest.call = "read" /\ rest.state \in {"NotReadFirstByte", "InStream"}
        /\ rest.want = c.want /\ Len(rest.in) = k - n
    BY <1>4, <2>1 DEF CompType
  <2> HIDE DEF rest, k
  <2>3. ASSUME NEW r \in CompType(D), Returns(r, data), r.in = left, r.pos = Used + k,
               r.state \in {"NotReadFirstByte", "InStream", "EndOfStream"}
        PROVE  /\ TypeOK' /\ LoadOK' /\ got' = Run(1, g + Len(data)) /\ Len(got') = g + Len(data)
               /\ comp'.state = r.state
    <3>1. /\ comp' = [r EXCEPT !.call = "none", !.want = 0, !.data = <<>>]
          /\ xml' \in {"ok", "premature"}
      BY <2>3 DEF Returns
    <3>2. got' = Join(got, data)
      BY <2>3, Zenon DEF Returns, Join
    <3>3. got' = Run(1, g + Len(data))
      <4>1. 1 \in Nat /\ g + 1 \in Nat /\ g + 1 = 1 + g
        BY <1>5
      <4>2. Join(Run(1, g), Run(g + 1, Len(data))) = Run(1, g + Len(data))
        BY <1>5, <2>1, <4>1, RunConcat
      <4> QED BY <1>5, <2>1, <3>2, <4>2
    <3>4. Len(got') = g + Len(data) /\ got' \in Seq(1..TextLength)
      <4>1. Len(put) <= TextLength
        BY <1>1 DEF DataOK
      <4>2. 1 \in Nat /\ g + Len(data) \in Nat /\ 1 + (g + Len(data)) <= TextLength + 1
        BY <1>5, <2>1, <4>1
      <4> QED BY <3>3, <4>2, RunTypes
    <3>5. /\ comp' \in CompType(D) /\ comp'.in = left /\ comp'.data = <<>> /\ comp'.call = "none"
          /\ comp'.pos = Used + k /\ comp'.state = r.state
      <4>1. <<>> \in Seq(1..TextLength)
        BY <1>5, ClosedType
      <4> QED BY <2>3, <3>1, <4>1 DEF CompType, Calls
    <3>6. K' = k - n /\ Used' = Used + n
      <4>1. K' = k - n
        BY <2>1, <3>5 DEF K
      <4> QED BY <1>4, <2>1, <3>5, <4>1 DEF Used
    <3>7. LoadOK'
      <4>1. K' <= comp'.pos /\ K' <= bufferSize
        BY <1>4, <1>5, <2>1, <3>5, <3>6, SMTT(20)
      <4>2. <<>> = Run(Len(got') + 1, 0) /\ Len(<<>>) = 0
        <5>1. Len(got') + 1 \in Nat
          BY <1>5, <2>1, <3>4
        <5> QED BY <5>1, WholeIsRun
      <4>3. Len(got') + Len(comp'.data) = TextIn(Used')
        BY <1>5, <2>1, <3>4, <3>5, <3>6, <4>2
      <4> QED BY <1>2, <2>1, <2>3, <3>3, <3>4, <3>5, <3>6, <4>1, <4>2, <4>3 DEF LoadOK
    <3> QED BY <1>7, <3>1, <3>3, <3>4, <3>5, <3>7
  <2>4. CASE n > 0 /\ c.in[n] = Trailer
    <3> DEFINE r == [rest EXCEPT !.state = "EndOfStream", !.ungot = Len(rest.in) + 1]
    <3>1. Used + n = Total /\ k - n = 0 /\ D = Total
      <4>1. Run(Used, k)[n] = Used + n - 1
        <5>1. \A i \in 1..k : Run(Used, k)[i] = Used + i - 1
          BY <1>4, RunIsSeq DEF k
        <5>2. n \in 1..k
          BY <1>4, <2>1, <2>4
        <5> QED BY <5>1, <5>2
      <4>2. Used + n - 1 = TextLength + 1
        BY <1>4, <2>4, <4>1 DEF Trailer
      <4>3. Used + k <= D
        BY <1>4, <1>5 DEF CompType
      <4>4. /\ Used \in Nat /\ k \in Nat /\ n \in Nat /\ D \in Nat /\ TextLength \in Nat
            /\ n <= k /\ D <= Total /\ Total = TextLength + 2
        BY <1>4, <1>5, <2>1, Zenon DEF k
      <4> QED BY <4>2, <4>3, <4>4
    <3>2. r \in CompType(D) /\ r.in = left /\ r.pos = Used + k /\ r.state = "EndOfStream"
      <4>1. Len(rest.in) + 1 \in 0..bufferSize
        BY <1>5, <2>2, <3>1
      <4> QED BY <2>2, <4>1 DEF CompType, States
    <3>3. Returns(r, data)
      BY <1>3, <1>9, <2>4
    <3> HIDE DEF r
    <3>4. /\ TypeOK' /\ LoadOK' /\ got' = Run(1, g + Len(data)) /\ Len(got') = g + Len(data)
      BY <2>3, <3>2, <3>3
    <3>5. Len(put) = TextLength /\ put = Run(1, Len(put))
      BY <1>1, <1>5, <3>1 DEF DataOK
    <3>6. g + Len(data) = TextLength
      BY <1>5, <2>1, <3>1 DEF TextIn
    <3> QED BY <1>5, <1>6, <2>1, <3>4, <3>5, <3>6 DEF IInv
  <2>5. CASE ~(n > 0 /\ c.in[n] = Trailer) /\ Len(data) = c.want
    <3>1. Returns(rest, data)
      BY <1>3, <1>9, <2>5
    <3>2. /\ TypeOK' /\ LoadOK' /\ Len(got') = g + Len(data)
          /\ comp'.state \in {"NotReadFirstByte", "InStream"}
      BY <2>2, <2>3, <3>1
    <3> QED BY <1>5, <1>6, <2>1, <3>2 DEF IInv
  <2>6. CASE ~(n > 0 /\ c.in[n] = Trailer) /\ ~(Len(data) = c.want)
    <3>1. comp' = rest /\ got' = got /\ xml' = xml
      BY <1>3, <1>9, <2>6
    <3>2. K' = k - n /\ Used' = Used + n
      <4>1. K' = k - n
        BY <2>2, <3>1 DEF K
      <4> QED BY <1>4, <2>1, <2>2, <3>1, <4>1 DEF Used
    <3>3. K' <= comp'.pos /\ K' <= bufferSize
      BY <1>4, <1>5, <2>1, <2>2, <3>1, <3>2
    <3>4. LoadOK'
      BY <1>2, <1>5, <2>1, <2>2, <3>1, <3>2, <3>3 DEF LoadOK
    <3>5. TypeOK'
      <4>1. xml \in {"ok", "premature"}
        BY <1>1, Types
      <4> QED BY <1>5, <1>7, <2>2, <3>1, <4>1
    <3> QED BY <1>5, <1>6, <2>2, <3>1, <3>4, <3>5 DEF IInv
  <2> QED BY <2>4, <2>5, <2>6
<1> QED BY <1>8, <1>9

\* A device that fails ends the call; nothing that was got is lost.
LEMMA ReadFailsKept ==
    ASSUME IInv, ReadFails, job = "load"
    PROVE  IInv' /\ got' = got /\ comp'.state = "Error"
<1>1. TypeOK /\ DataOK /\ SaveOK /\ LoadOK /\ RestOK
  BY DEF IInv
<1>2. /\ comp.call = "read" /\ comp.in = <<>> /\ UNCHANGED <<disk, job, put, failed>>
      /\ Returns([comp EXCEPT !.state = "Error"], <<>>)
  BY DEF ReadFails
<1>3. /\ comp' = [[comp EXCEPT !.state = "Error"] EXCEPT !.call = "none", !.want = 0, !.data = <<>>]
      /\ got' = got \o <<>> /\ xml' = "premature"
  BY <1>2 DEF Returns
<1>4. comp \in CompType(D) /\ D' = D /\ got \in Seq(1..TextLength) /\ D \in Nat
  BY <1>1, <1>2, Types, LengthTypes DEF D
<1>5. got' = got
  BY <1>3, <1>4, ConcatEmptySeq
<1>6. /\ comp' \in CompType(D) /\ comp'.in = comp.in /\ comp'.data = <<>> /\ comp'.call = "none"
      /\ comp'.pos = comp.pos /\ comp'.state = "Error" /\ K' = K /\ Used' = Used
  <2>1. <<>> \in Seq(1..TextLength)
    BY <1>4, ClosedType
  <2> QED BY <1>3, <1>4, <2>1 DEF CompType, States, Calls, K, Used
<1>7. TypeOK'
  BY <1>1, <1>2, <1>3, <1>4, <1>5, <1>6, Types
     DEF TypeOK, DiskType, CompType, Units, States, Calls, D
<1>8. DataOK' /\ SaveOK' /\ RestOK'
  BY <1>1, <1>2, <1>4 DEF DataOK, SaveOK, RestOK
<1>9. LoadOK'
  BY <1>1, <1>2, <1>4, <1>5, <1>6 DEF LoadOK
<1> QED BY <1>5, <1>6, <1>7, <1>8, <1>9 DEF IInv

\* Loaded() closes; the show that was got stays.
LEMMA LoaderKept ==
    ASSUME IInv, LoaderEnds \/ LoaderBreaks
    PROVE  IInv'
<1>1. TypeOK /\ DataOK /\ SaveOK /\ LoadOK /\ RestOK
  BY DEF IInv
<1>2. job' = "loaded" /\ comp' = Closed /\ UNCHANGED <<disk, put, failed, got, xml>>
  BY DEF LoaderEnds, LoaderBreaks
<1>3. D' = D /\ D \in Nat
  BY <1>1, <1>2, LengthTypes DEF D
<1>4. TypeOK'
  <2>1. comp' \in CompType(D')
    BY <1>2, <1>3, ClosedType
  <2> QED BY <1>1, <1>2, <2>1, Types DEF TypeOK, DiskType, CompType, Units, States, Calls, D
<1>5. DataOK' /\ SaveOK' /\ LoadOK' /\ RestOK'
  BY <1>1, <1>2, <1>3 DEF DataOK, SaveOK, LoadOK, RestOK
<1> QED BY <1>4, <1>5 DEF IInv

\* Only a load reads.
LEMMA ReadIsLoad ==
    ASSUME IInv, comp.call = "read"
    PROVE  job = "load"
BY DEF IInv, SaveOK, RestOK, Closed
-----------------------------------------------------------------------------
(***************************************************************************)
(* The specification.                                                      *)
(***************************************************************************)
LEMMA InitIInv == Init => IInv
<1> SUFFICES ASSUME Init PROVE IInv
  OBVIOUS
<1>1. /\ disk.data = <<>> /\ disk.room \in Rooms /\ comp = Closed /\ job = "none"
      /\ put = <<>> /\ ~failed /\ got = <<>> /\ xml = "ok" /\ failed \in BOOLEAN
  BY DEF Init
<1>2. Len(put) = 0 /\ D = 0
  BY <1>1 DEF D
<1>3. TypeOK
  <2>1. comp \in CompType(D) /\ <<>> \in Seq(Units) /\ <<>> \in Seq(1..TextLength)
    BY <1>1, <1>2, ClosedType
  <2>2. disk \in DiskType
    <3>1. disk \in [data : {<<>>}, room : Rooms]
      BY DEF Init
    <3> QED BY <2>1, <3>1, FileAssumption DEF DiskType
  <2> QED BY <1>1, <2>1, <2>2, Types
<1>4. <<>> = Run(0, 0) /\ <<>> = Run(1, 0)
  BY WholeIsRun
<1>5. DataOK
  BY <1>1, <1>2, <1>4, Lengths DEF DataOK
<1>6. SaveOK /\ LoadOK /\ RestOK
  BY <1>1 DEF SaveOK, LoadOK, RestOK
<1> QED BY <1>3, <1>5, <1>6 DEF IInv

LEMMA NextIInv == IInv /\ [Next]_vars => IInv'
<1> SUFFICES ASSUME IInv, [Next]_vars PROVE IInv'
  OBVIOUS
<1>1. CASE saveShow
  BY <1>1, SaveShowKept
<1>2. ASSUME NEW n \in Pieces, writeData(n) PROVE IInv'
  BY <1>2, WriteDataKept
<1>3. CASE DeflateStep
  BY <1>3, DeflateKept
<1>4. CASE SaverEnds
  BY <1>4, SaverEndsKept
<1>5. CASE FinishStep
  BY <1>5, FinishKept
<1>6. CASE Saved
  BY <1>6, SavedKept
<1>7. CASE Crash
  BY <1>7, CrashKept
<1>8. CASE loadShow
  BY <1>8, LoadShowKept
<1>9. ASSUME NEW n \in ReadSizes, readData(n) PROVE IInv'
  BY <1>9, ReadDataKept
<1>10. CASE InflateStep
  <2>1. job = "load"
    BY <1>10, ReadIsLoad DEF InflateStep
  <2> QED BY <1>10, <2>1, InflateKept
<1>11. CASE ReadFails
  <2>1. job = "load"
    BY <1>11, ReadIsLoad DEF ReadFails
  <2> QED BY <1>11, <2>1, ReadFailsKept
<1>12. CASE LoaderEnds \/ LoaderBreaks
  BY <1>12, LoaderKept
<1>13. CASE UNCHANGED vars
  BY <1>13 DEF vars, IInv, TypeOK, DataOK, SaveOK, LoadOK, RestOK, D, H, K, Used
<1>14. Done => UNCHANGED vars
  BY DEF Done
<1> QED BY <1>1, <1>2, <1>3, <1>4, <1>5, <1>6, <1>7, <1>8, <1>9, <1>10, <1>11, <1>12, <1>13,
           <1>14 DEF Next, SaveStep, LoadStep

\* The inductive invariant holds in every reachable state.
THEOREM Soundness == Spec => []IInv
<1>1. Init => IInv
  BY InitIInv
<1>2. IInv /\ [Next]_vars => IInv'
  BY NextIInv
<1> QED BY <1>1, <1>2, PTL DEF Spec

\* Every variable keeps its type; the reader stays within the file.
THEOREM TypeCorrect == Spec => []TypeOK
<1>1. IInv => TypeOK
  BY DEF IInv
<1> QED BY <1>1, Soundness, PTL

\* What writeBytes() has put on the disk is always the beginning of the file
\* that was meant, for every size of the buffer and of the disk.
THEOREM AlwaysPrefix == Spec => []FileIsPrefix
<1>1. IInv => FileIsPrefix
  <2> SUFFICES ASSUME IInv PROVE FileIsPrefix
    OBVIOUS
  <2>1. disk.data = Run(0, D) /\ D <= Total /\ D \in Nat /\ Total \in Nat
    BY LengthTypes, Lengths DEF IInv, DataOK
  <2>2. Whole = Run(0, Total) /\ Len(Run(0, Total)) = Total
    BY <2>1, WholeIsRun, RunTypes
  <2>3. Part(Run(0, Total), 1, D) = Run(0, D)
    BY <2>1, RunParts
  <2>4. Len(disk.data) <= Len(Whole)
    BY <2>1, <2>2 DEF D
  <2>5. SubSeq(disk.data, 1, Len(disk.data)) = SubSeq(Whole, 1, Len(disk.data))
    <3>1. Part(Run(0, D), 1, D) = Run(0, D)
      BY <2>1, RunParts
    <3> QED BY <2>1, <2>2, <2>3, <3>1, Zenon DEF Part, D
  <2> QED BY <2>4, <2>5 DEF FileIsPrefix, IsPrefix
<1> QED BY <1>1, Soundness, PTL

\* Saved() is reached with the whole file on the disk exactly if no write of
\* writeBytes() has failed.
THEOREM SavedAlwaysWhole == Spec => []SavedIsWhole
<1>1. IInv => SavedIsWhole
  <2> SUFFICES ASSUME IInv, job = "saved" PROVE failed <=> disk.data # Whole
    BY DEF SavedIsWhole
  <2>1. /\ disk.data = Run(0, D) /\ D \in Nat /\ Total \in Nat
        /\ failed => D < Total
        /\ ~failed => D = Total
    BY LengthTypes, Lengths DEF IInv, DataOK, RestOK
  <2>2. Whole = Run(0, Total) /\ Len(Whole) = Total
    BY <2>1, WholeIsRun, RunTypes
  <2>3. D < Total => disk.data # Whole
    BY <2>1, <2>2 DEF D
  <2> QED BY <2>1, <2>2, <2>3
<1> QED BY <1>1, Soundness, PTL
-----------------------------------------------------------------------------
(***************************************************************************)
(* The stream of bytes.                                                    *)
(***************************************************************************)
streamVars == <<put, job = "load", got, comp.state = "EndOfStream">>

\* Only a load knows of an end.
LEMMA EndIsLoad ==
    ASSUME IInv, comp.state = "EndOfStream"
    PROVE  job = "load"
BY DEF IInv, SaveOK, RestOK, Closed

\* Every step is one of the stream's, or none.
LEMMA StreamStep ==
    ASSUME IInv, IInv', [Next]_vars
    PROVE  [Stream!Next]_streamVars
<1> DEFINE loading == job = "load"
           ended == comp.state = "EndOfStream"
<1>1. (ended => loading) /\ (ended' => loading')
  <2>1. ended => loading
    BY EndIsLoad
  <2>2. IInv' /\ ended' => loading'
    BY DEF IInv, SaveOK, RestOK, Closed
  <2> QED BY <2>1, <2>2
<1>2. ASSUME ~loading, ~loading', put' = put, got' = got PROVE UNCHANGED streamVars
  <2>1. ~ended /\ ~ended'
    BY <1>1, <1>2
  <2> QED BY <1>2, <2>1 DEF streamVars
<1>3. CASE saveShow \/ DeflateStep \/ SaverEnds \/ FinishStep \/ Saved \/ Crash
  <2>1. put' = put /\ got' = got /\ ~loading'
    <3>1. DeflateStep \/ FinishStep => job = "save"
      BY DEF DeflateStep, FinishStep, IInv, LoadOK, RestOK, Closed
    <3> QED BY <1>3, <3>1
            DEF saveShow, DeflateStep, SaverEnds, FinishStep, Saved, Crash
  <2>2. ~loading
    BY <1>3 DEF saveShow, DeflateStep, SaverEnds, FinishStep, Saved, Crash, IInv, LoadOK
  <2> QED BY <1>2, <2>1, <2>2
<1>4. ASSUME NEW n \in Pieces, writeData(n) PROVE Stream!Put
  <2>1. job = "save" /\ job' = "save" /\ got' = got /\ Len(put) + n <= TextLength
        /\ put' = SubSeq(Text, 1, Len(put) + n)
    BY <1>4 DEF writeData
  <2>2. Len(Text) = TextLength
    BY Lengths, WholeIsRun, RunTypes
  <2>3. Len(put) + n \in Len(put)..Len(Text)
    BY <2>1, <2>2, LengthTypes, Lengths, FileAssumption DEF IInv
  <2>4. ~ended /\ ~ended'
    BY <1>1, <2>1
  <2> QED BY <2>1, <2>3, <2>4 DEF Stream!Put
<1>5. CASE loadShow
  <2>1. /\ ~loading /\ loading' /\ got' = <<>> /\ put' = put
    BY <1>5 DEF loadShow
  <2>2. ~ended'
    BY <1>5 DEF loadShow, NewReader, Closed
  <2>3. Stream!Open
    BY <2>1, <2>2 DEF Stream!Open
  <2> QED BY <2>3 DEF Stream!Next
<1>6. ASSUME NEW n \in ReadSizes, readData(n) PROVE UNCHANGED streamVars
  <2>1. put' = put /\ got' = got /\ job' = job
    BY <1>6 DEF readData
  <2>2. comp'.state = comp.state
    BY <1>6, Types DEF readData, IInv, CompType
  <2> QED BY <2>1, <2>2 DEF streamVars
<1>7. CASE InflateStep
  <2>1. loading /\ ~ended /\ comp.call = "read"
    <3>1. comp.call = "read"
      BY <1>7 DEF InflateStep
    <3>2. loading
      BY <3>1, ReadIsLoad
    <3> QED BY <3>1, <3>2 DEF IInv, LoadOK
  <2>2. put' = put /\ loading'
    BY <1>7, <2>1 DEF InflateStep
  <2>3. Len(got) <= Len(got') /\ (ended' => got' = put)
    BY <1>7, <2>1, InflateKept
  <2>4. /\ got' = Run(1, Len(got')) /\ Len(got') <= Len(put) /\ put = Run(1, Len(put))
        /\ Len(got') \in Nat /\ Len(put) \in Nat /\ Len(got) \in Nat
    <3>1. got' = Run(1, Len(got')) /\ Len(got') <= Len(put')
      BY <2>2 DEF IInv, LoadOK
    <3>2. put = Run(1, Len(put)) /\ Len(put) \in Nat /\ Len(got) \in Nat
      BY LengthTypes DEF IInv, DataOK
    <3>3. Len(got') \in Nat
      <4>1. got' \in Seq(1..TextLength)
        BY DEF IInv, TypeOK
      <4> QED BY <4>1, LenProperties
    <3> QED BY <2>2, <3>1, <3>2, <3>3
  <2>5. got' = SubSeq(put, 1, Len(got'))
    <3> DEFINE p == Len(put)
               g == Len(got')
    <3>1. 1 \in Nat /\ p \in Nat /\ g \in Nat /\ g <= p /\ put = Run(1, p) /\ got' = Run(1, g)
      BY <2>4
    <3> HIDE DEF p, g
    <3>2. Part(Run(1, p), 1, g) = Run(1, g)
      BY <3>1, RunParts
    <3>3. got' = SubSeq(put, 1, g)
      BY <3>1, <3>2, Zenon DEF Part
    <3> QED BY <3>3, Zenon DEF g
  <2>6. Len(got') \in Len(got)..Len(put)
    BY <2>3, <2>4
  <2>7. ended' \in {FALSE, got' = put}
    BY <2>3, Zenon
  <2>8. Stream!Get
    BY <2>1, <2>2, <2>5, <2>6, <2>7, Zenon DEF Stream!Get
  <2> QED BY <2>8 DEF Stream!Next
<1>8. CASE ReadFails
  <2>1. comp.call = "read" /\ put' = put /\ job' = job
    BY <1>8 DEF ReadFails
  <2>2. job = "load"
    BY <2>1, ReadIsLoad
  <2>3. got' = got /\ ~ended'
    BY <1>8, <2>2, ReadFailsKept
  <2>4. ~ended
    BY <2>1, <2>2 DEF IInv, LoadOK
  <2> QED BY <2>1, <2>3, <2>4 DEF streamVars
<1>9. CASE LoaderEnds \/ LoaderBreaks
  <2>1. loading /\ ~loading' /\ put' = put /\ got' = got
    BY <1>9 DEF LoaderEnds, LoaderBreaks
  <2>2. ~ended'
    BY <1>1, <2>1
  <2>3. Stream!Close
    BY <2>1, <2>2 DEF Stream!Close
  <2> QED BY <2>3 DEF Stream!Next
<1>10. CASE UNCHANGED vars
  BY <1>10 DEF vars, streamVars
<1>11. Done => UNCHANGED vars
  BY DEF Done
<1> QED BY <1>3, <1>4, <1>5, <1>6, <1>7, <1>8, <1>9, <1>10, <1>11
        DEF Next, SaveStep, LoadStep, Stream!Next

\* Through the compressor in both directions, a full disk, a crash and a
\* device that fails, the show file is a stream of bytes: a load gets the bytes
\* that were saved, in order, and is told of the end only at the end.
THEOREM FileIsStream == Spec => StreamSpec
<1>1. Init => Stream!Init
  BY DEF Init, Closed, Stream!Init
<1>2. IInv /\ IInv' /\ [Next]_vars => [Stream!Next]_streamVars
  BY StreamStep
<1> QED BY <1>1, <1>2, Soundness, PTL DEF Spec, StreamSpec, Stream!Spec, streamVars
=============================================================================
