------------------------ MODULE ControlSurfaceProofs ------------------------
(***************************************************************************)
(* Proofs about ControlSurface, for any number of heads, any keys, any     *)
(* other traffic and queues of any length.                                 *)
(*                                                                         *)
(* Three queues separate what is meant from what is so: the port's, the    *)
(* wire and the engine's event queue.  The invariant speaks of where the   *)
(* receiver of each will be when it has taken all that is in it (Leads),   *)
(* so a sender moves the end of such a run and a receiver its beginning.   *)
(***************************************************************************)
EXTENDS ControlSurface, SequenceTheorems, WellFoundedInduction, TLAPS

\* A set of natural numbers has a least one.
LEMMA LeastElement ==
    ASSUME NEW T, T \subseteq Nat, T # {}
    PROVE  \E x \in T : \A y \in T : x <= y
<1> DEFINE R == OpToRel(<, Nat)
<1>1. IsWellFoundedOn(R, Nat)
  BY NatLessThanWellFounded
<1>2. \A a, b \in Nat : a < b => <<a, b>> \in R
  BY Zenon DEF OpToRel
<1> HIDE DEF R
<1>3. PICK x \in T : \A y \in T : ~(<<y, x>> \in R)
  BY <1>1, WFMin
<1>4. ASSUME NEW y \in T PROVE x <= y
  <2>1. x \in Nat /\ y \in Nat /\ ~(y < x)
    BY <1>2, <1>3
  <2> QED BY <2>1
<1> QED BY <1>4

\* Min takes it.
LEMMA MinMember ==
    ASSUME NEW T, T \subseteq Nat, T # {}
    PROVE  Min(T) \in T
BY LeastElement DEF Min

\* Induction over the natural numbers, for sets of them.
LEMMA SetInduction ==
    ASSUME NEW T, 0 \in T, \A n \in Nat : n \in T => n + 1 \in T
    PROVE  \A n \in Nat : n \in T
<1> DEFINE Rest == Nat \ T
<1> SUFFICES ASSUME Rest # {} PROVE FALSE
  OBVIOUS
<1>1. PICK x \in Rest : \A y \in Rest : x <= y
  BY LeastElement
<1>2. x \in Nat /\ x # 0 /\ x - 1 \in Nat /\ x - 1 + 1 = x /\ ~(x <= x - 1)
  OBVIOUS
<1>3. x - 1 \in Rest
  BY <1>2
<1> QED BY <1>1, <1>2, <1>3

Joined(a, b) == a \o b

\* Sequences can be put together one after the other.
Chain(f, chunk, n) == /\ f[0] = <<>>
                      /\ \A i \in 1..n : f[i] = Joined(f[i - 1], chunk[i])

\* They always can.
LEMMA ChainExists ==
    ASSUME NEW S, NEW N \in Nat, NEW chunk \in [1..N -> Seq(S)]
    PROVE  \E f \in [0..N -> Seq(S)] : Chain(f, chunk, N)
<1> DEFINE Good == {n \in Nat : n <= N => \E f \in [0..n -> Seq(S)] : Chain(f, chunk, n)}
<1>1. 0 \in Good
  <2>1. [i \in 0..0 |-> <<>>] \in [0..0 -> Seq(S)]
    BY EmptySeq
  <2>2. Chain([i \in 0..0 |-> <<>>], chunk, 0)
    BY DEF Chain
  <2>3. \E f \in [0..0 -> Seq(S)] : Chain(f, chunk, 0)
    BY <2>1, <2>2
  <2> QED BY <2>3
<1>2. ASSUME NEW n \in Nat, n \in Good PROVE n + 1 \in Good
  <2> SUFFICES ASSUME n + 1 <= N
               PROVE  \E f \in [0..(n + 1) -> Seq(S)] : Chain(f, chunk, n + 1)
    BY <1>2
  <2>1. PICK f \in [0..n -> Seq(S)] : Chain(f, chunk, n)
    BY <1>2
  <2> DEFINE g == [i \in 0..(n + 1) |-> IF i <= n THEN f[i] ELSE Joined(f[n], chunk[n + 1])]
  <2>2. chunk[n + 1] \in Seq(S) /\ f[n] \in Seq(S)
    OBVIOUS
  <2>3. Joined(f[n], chunk[n + 1]) \in Seq(S)
    BY <2>2, ConcatProperties DEF Joined
  <2>4. g \in [0..(n + 1) -> Seq(S)]
    BY <2>3
  <2>5. g[0] = <<>>
    BY <2>1 DEF Chain
  <2>6. ASSUME NEW i \in 1..(n + 1) PROVE g[i] = Joined(g[i - 1], chunk[i])
    <3>1. g[i - 1] = f[i - 1] /\ g[i] = IF i <= n THEN f[i] ELSE Joined(f[n], chunk[n + 1])
      OBVIOUS
    <3>2. CASE i <= n
      BY <2>1, <3>1, <3>2 DEF Chain
    <3>3. CASE i = n + 1
      BY <3>1, <3>3
    <3> QED BY <3>2, <3>3
  <2> QED BY <2>4, <2>5, <2>6 DEF Chain
<1>3. \A n \in Nat : n \in Good
  <2> HIDE DEF Good
  <2> QED BY <1>1, <1>2, SetInduction
<1> QED BY <1>3

\* The function by which FlattenSeq is defined.
IsFlatten(f, s) == f = [i \in 1..Len(s) |-> IF i = 1 THEN s[i] ELSE Joined(f[i - 1], s[i])]

\* FlattenSeq is what a chain leads to.
LEMMA FlattenChain ==
    ASSUME NEW S, NEW N \in Nat \ {0}, NEW chunk \in [1..N -> Seq(S)],
           NEW f \in [0..N -> Seq(S)], Chain(f, chunk, N)
    PROVE  FlattenSeq(chunk) = f[N]
<1>1. Len(chunk) = N
  BY LenProperties
<1> DEFINE F == CHOOSE h : IsFlatten(h, chunk)
           g == [i \in 1..N |-> f[i]]
<1>2. FlattenSeq(chunk) = F[N]
  BY <1>1, Zenon DEF FlattenSeq, IsFlatten, Joined
<1>3. ASSUME NEW i \in 1..N
      PROVE  f[i] = IF i = 1 THEN chunk[1] ELSE Joined(f[i - 1], chunk[i])
  <2>1. chunk[i] \in Seq(S) /\ f[i] = Joined(f[i - 1], chunk[i]) /\ f[0] = <<>>
    BY DEF Chain
  <2>2. CASE i = 1
    <3>1. f[1] = Joined(<<>>, chunk[1])
      BY <2>1, <2>2
    <3> QED BY <2>1, <2>2, <3>1, ConcatEmptySeq DEF Joined
  <2> QED BY <2>1, <2>2
<1>4. IsFlatten(g, chunk)
  <2>1. ASSUME NEW i \in 1..N PROVE g[i] = IF i = 1 THEN chunk[i] ELSE Joined(g[i - 1], chunk[i])
    BY <1>3
  <2> QED BY <1>1, <2>1 DEF IsFlatten
<1>5. IsFlatten(F, chunk)
  BY <1>4
<1> HIDE DEF F
<1>6. \A i \in 1..N : F[i] = IF i = 1 THEN chunk[1] ELSE Joined(F[i - 1], chunk[i])
  BY <1>1, <1>5 DEF IsFlatten
<1> DEFINE Good == {n \in Nat : n < N => F[n + 1] = f[n + 1]}
<1>7. 0 \in Good
  BY <1>3, <1>6
<1>8. ASSUME NEW n \in Nat, n \in Good PROVE n + 1 \in Good
  <2> SUFFICES ASSUME n + 1 < N PROVE F[n + 2] = f[n + 2]
    OBVIOUS
  <2>1. F[n + 1] = f[n + 1] /\ n + 2 \in 1..N /\ n + 2 # 1 /\ n + 2 - 1 = n + 1
    BY <1>8
  <2>2. F[n + 2] = Joined(F[n + 2 - 1], chunk[n + 2])
    BY <1>6, <2>1
  <2>3. f[n + 2] = Joined(f[n + 2 - 1], chunk[n + 2])
    BY <1>3, <2>1
  <2> QED BY <2>1, <2>2, <2>3
<1>9. \A n \in Nat : n \in Good
  <2> HIDE DEF Good
  <2> QED BY <1>7, <1>8, SetInduction
<1>10. N - 1 \in Nat /\ N - 1 < N /\ N - 1 + 1 = N
  OBVIOUS
<1> QED BY <1>2, <1>9, <1>10

-----------------------------------------------------------------------------
\* From d, taking the messages one after the other, to e.
Leads(S, step, d, msgs, e) ==
    \E run \in [0..Len(msgs) -> S] :
        /\ run[0] = d /\ run[Len(msgs)] = e
        /\ \A i \in 1..Len(msgs) : run[i] = step[<<run[i - 1], msgs[i]>>]

\* Without messages it stays where it is,
LEMMA LeadsNowhere ==
    ASSUME NEW S, NEW step, NEW d \in S
    PROVE  Leads(S, step, d, <<>>, d)
<1> DEFINE run == [i \in 0..0 |-> d]
<1>1. run \in [0..0 -> S] /\ run[0] = d
  OBVIOUS
<1> HIDE DEF run
<1>2. Len(<<>>) = 0 /\ (\A i \in 1..0 : FALSE)
  OBVIOUS
<1> QED BY <1>1, <1>2 DEF Leads

\* and nowhere else.
LEMMA LeadsNowhereElse ==
    ASSUME NEW S, NEW step, NEW d, NEW e, Leads(S, step, d, <<>>, e)
    PROVE  d = e
BY DEF Leads

\* One message is one step.
LEMMA LeadsOne ==
    ASSUME NEW S, NEW step, NEW d \in S, NEW msg, step[<<d, msg>>] \in S
    PROVE  Leads(S, step, d, <<msg>>, step[<<d, msg>>])
<1> DEFINE run == [i \in 0..1 |-> IF i = 0 THEN d ELSE step[<<d, msg>>]]
<1>1. run \in [0..1 -> S] /\ run[0] = d /\ run[1] = step[<<d, msg>>]
  OBVIOUS
<1> HIDE DEF run
<1>2. Len(<<msg>>) = 1 /\ <<msg>>[1] = msg
  OBVIOUS
<1> QED BY <1>1, <1>2 DEF Leads

\* Two messages are two.
LEMMA LeadsTwo ==
    ASSUME NEW S, NEW step, NEW d \in S, NEW a, NEW b,
           NEW x \in S, x = step[<<d, a>>], NEW e \in S, e = step[<<x, b>>]
    PROVE  Leads(S, step, d, <<a, b>>, e)
<1> DEFINE run == [i \in 0..2 |-> IF i = 0 THEN d ELSE IF i = 1 THEN x ELSE e]
<1>1. run \in [0..2 -> S] /\ run[0] = d /\ run[1] = x /\ run[2] = e
  OBVIOUS
<1> HIDE DEF run
<1>2. Len(<<a, b>>) = 2 /\ <<a, b>>[1] = a /\ <<a, b>>[2] = b
  OBVIOUS
<1>3. ASSUME NEW i \in 1..2 PROVE run[i] = step[<<run[i - 1], <<a, b>>[i]>>]
  <2>1. CASE i = 1
    BY <1>1, <1>2, <2>1
  <2>2. CASE i = 2
    BY <1>1, <1>2, <2>2
  <2> QED BY <2>1, <2>2
<1> QED BY <1>1, <1>2, <1>3 DEF Leads

\* A run can be continued: more has been sent.
LEMMA LeadsOn ==
    ASSUME NEW S, NEW M, NEW step, NEW d, NEW a \in Seq(M), NEW e, NEW b \in Seq(M), NEW f,
           Leads(S, step, d, a, e), Leads(S, step, e, b, f)
    PROVE  Leads(S, step, d, a \o b, f)
<1>1. Len(a) \in Nat /\ Len(b) \in Nat
  BY LenProperties
<1>2. PICK r \in [0..Len(a) -> S] :
         /\ r[0] = d /\ r[Len(a)] = e
         /\ \A i \in 1..Len(a) : r[i] = step[<<r[i - 1], a[i]>>]
  BY DEF Leads
<1>3. PICK q \in [0..Len(b) -> S] :
         /\ q[0] = e /\ q[Len(b)] = f
         /\ \A i \in 1..Len(b) : q[i] = step[<<q[i - 1], b[i]>>]
  BY DEF Leads
<1> DEFINE n == Len(a) + Len(b)
           run == [i \in 0..n |-> IF i <= Len(a) THEN r[i] ELSE q[i - Len(a)]]
           ab == a \o b
<1>4. Len(ab) = n /\ (\A i \in 1..n : ab[i] = IF i <= Len(a) THEN a[i] ELSE b[i - Len(a)])
  BY ConcatProperties
<1>5. run \in [0..n -> S] /\ run[0] = d
  BY <1>1, <1>2
<1>6. run[n] = f
  <2>1. CASE Len(b) = 0
    BY <1>1, <1>2, <1>3, <2>1
  <2>2. CASE Len(b) > 0
    <3>1. n \in 0..n /\ ~(n <= Len(a)) /\ n - Len(a) = Len(b)
      BY <1>1, <2>2
    <3>2. run[n] = q[n - Len(a)]
      BY <3>1
    <3> HIDE DEF n
    <3> QED BY <1>3, <3>1, <3>2
  <2> QED BY <1>1, <2>1, <2>2
<1> HIDE DEF ab
<1>7. ASSUME NEW i \in 1..n PROVE run[i] = step[<<run[i - 1], ab[i]>>]
  <2>1. CASE i <= Len(a)
    <3>1. run[i] = r[i] /\ run[i - 1] = r[i - 1] /\ ab[i] = a[i] /\ i \in 1..Len(a)
      BY <1>1, <1>4, <2>1
    <3> QED BY <1>2, <3>1
  <2>2. CASE i > Len(a)
    <3>1. i - Len(a) \in 1..Len(b) /\ ab[i] = b[i - Len(a)] /\ run[i] = q[i - Len(a)]
      BY <1>1, <1>4, <2>2
    <3>2. run[i - 1] = q[i - Len(a) - 1]
      BY <1>1, <1>2, <1>3, <2>2
    <3> HIDE DEF run
    <3> QED BY <1>3, <3>1, <3>2
  <2> QED BY <1>1, <2>1, <2>2
<1> HIDE DEF run, n
<1> QED BY <1>4, <1>5, <1>6, <1>7 DEF Leads, ab

\* A run can be begun: the first message has been received.
LEMMA LeadsFurther ==
    ASSUME NEW S, NEW M, NEW step, NEW d, NEW msgs \in Seq(M), NEW e, msgs # <<>>,
           Leads(S, step, d, msgs, e)
    PROVE  Leads(S, step, step[<<d, Head(msgs)>>], Tail(msgs), e)
<1>1. Len(msgs) \in Nat /\ Len(msgs) # 0
  BY LenProperties, EmptySeq
<1>2. PICK r \in [0..Len(msgs) -> S] :
         /\ r[0] = d /\ r[Len(msgs)] = e
         /\ \A i \in 1..Len(msgs) : r[i] = step[<<r[i - 1], msgs[i]>>]
  BY DEF Leads
<1> DEFINE n == Len(msgs) - 1
           run == [i \in 0..n |-> r[i + 1]]
           rest == Tail(msgs)
<1>3. Len(rest) = n /\ (\A i \in 1..n : rest[i] = msgs[i + 1]) /\ Head(msgs) = msgs[1]
  BY <1>1, HeadTailProperties
<1>4. run \in [0..n -> S] /\ run[0] = step[<<d, Head(msgs)>>] /\ run[n] = e
  BY <1>1, <1>2, <1>3
<1> HIDE DEF rest
<1>5. ASSUME NEW i \in 1..n PROVE run[i] = step[<<run[i - 1], rest[i]>>]
  <2> DEFINE j == i + 1
  <2>1. /\ j \in 1..Len(msgs) /\ rest[i] = msgs[j] /\ run[i] = r[j] /\ run[i - 1] = r[j - 1]
    BY <1>1, <1>3
  <2> HIDE DEF j, run
  <2> QED BY <1>2, <2>1
<1> HIDE DEF run, n
<1> QED BY <1>3, <1>4, <1>5 DEF Leads, rest

-----------------------------------------------------------------------------
(***************************************************************************)
(* The table of the switches.                                              *)
(***************************************************************************)
Switches == [zone : -1..11, key : -1..7, lzone : 0..11, led : -1..7]

\* What the table says of each control.
LEMMA SwitchTypes ==
    ASSUME NEW c \in Controls
    PROVE  switches[c] \in Switches /\ (switches[c].key # None => switches[c].zone # None)
<1> USE DEF None
<1>1. CASE c < 48
  <2>1. c % 8 \in 0..7 /\ c \div 8 \in 0..5
    BY <1>1 DEF Controls
  <2>2. switches[c] = [zone |-> c % 8, key |-> c \div 8, lzone |-> c % 8,
                       led |-> IF c < 8 THEN None ELSE c \div 8]
    BY <1>1 DEF switches, Controls
  <2> QED BY <2>1, <2>2 DEF Switches
<1>2. CASE c \in 48..63
  <2>1. c % 8 \in 0..7 /\ c \div 8 + 2 \in 8..9
    BY <1>2
  <2>2. switches[c] = [zone |-> c \div 8 + 2, key |-> c % 8, lzone |-> c \div 8 + 2, led |-> c % 8]
    BY <1>2 DEF switches, Controls
  <2> QED BY <2>1, <2>2 DEF Switches
<1>3. CASE c \in 64..70
  <2>1. <<None, None, 0, 1, 2, 4, 6>>[c - 63] \in -1..7
    BY <1>3
  <2>2. switches[c] = [zone |-> 10, key |-> c - 64, lzone |-> 10,
                       led |-> <<None, None, 0, 1, 2, 4, 6>>[c - 63]]
    BY <1>3 DEF switches, Controls
  <2>3. 10 # None
    OBVIOUS
  <2> HIDE DEF None
  <2> QED BY <1>3, <2>1, <2>2, <2>3 DEF Switches
<1>4. CASE c \in 71..77
  <2>1. <<3, 5, 7, 1, 3, 5, 7>>[c - 70] \in -1..7
    BY <1>4
  <2>2. switches[c] = [zone |-> None, key |-> None, lzone |-> IF c < 74 THEN 10 ELSE 11,
                       led |-> <<3, 5, 7, 1, 3, 5, 7>>[c - 70]]
    BY <1>4 DEF switches, Controls
  <2> QED BY <1>4, <2>1, <2>2 DEF Switches
<1>5. CASE c \in 78..81
  <2>1. switches[c] = [zone |-> 11, key |-> c - 78, lzone |-> 11, led |-> 2 * (c - 78)]
    BY <1>5 DEF switches, Controls
  <2> QED BY <1>5, <2>1 DEF Switches
<1> QED BY <1>1, <1>2, <1>3, <1>4, <1>5 DEF Controls

\* The keys of the heads and the modifiers.
LEMMA NamedSwitches ==
    /\ \A h \in 0..3 : 78 + h \in Controls /\ switches[78 + h].led = 2 * h /\ LedOf(78 + h) = <<11, 2 * h>>
    /\ 48 \in Controls /\ switches[48].led = 0 /\ LedOf(48) = <<8, 0>>
    /\ 56 \in Controls /\ switches[56].led = 0 /\ LedOf(56) = <<9, 0>>
<1>1. ASSUME NEW h \in 0..3
      PROVE  78 + h \in Controls /\ switches[78 + h].led = 2 * h /\ LedOf(78 + h) = <<11, 2 * h>>
  <2>1. switches[78 + h] = [zone |-> 11, key |-> 78 + h - 78, lzone |-> 11, led |-> 2 * (78 + h - 78)]
    BY DEF switches, Controls
  <2> QED BY <2>1 DEF Controls, LedOf
<1>2. \A c \in {48, 56} : /\ c \in Controls /\ c \in 48..63 /\ ~(c < 48)
                          /\ switches[c] = [zone |-> c \div 8 + 2, key |-> c % 8,
                                            lzone |-> c \div 8 + 2, led |-> c % 8]
  BY DEF switches, Controls
<1>3. 48 \div 8 = 6 /\ 56 \div 8 = 7 /\ 48 % 8 = 0 /\ 56 % 8 = 0
  OBVIOUS
<1> QED BY <1>1, <1>2, <1>3 DEF LedOf

\* An LED of a control is one of the surface's.
LEMMA LedKnown ==
    ASSUME NEW c \in Controls, switches[c].led # None
    PROVE  LedOf(c) \in Leds
BY DEF LedOf, Leds

-----------------------------------------------------------------------------
(***************************************************************************)
(* The surface.                                                            *)
(***************************************************************************)
Levels == 0..2

DeviceStep == [x \in Devices \X Messages |-> Received(x[1], x[2])]
DeviceLeads(d, msgs, e) == Leads(Devices, DeviceStep, d, msgs, e)

\* A control change has a number and a value.
LEMMA ChangeOf ==
    ASSUME NEW number \in Byte, NEW amount \in Byte
    PROVE  /\ ControlChange(number, amount) \in ControlChanges
           /\ ControlChange(number, amount).number = number
           /\ ControlChange(number, amount).value = amount
<1>1. \E n, v \in Byte : ControlChange(number, amount) = ControlChange(n, v)
  OBVIOUS
<1>2. ControlChange(number, amount) \in ControlChanges
  BY <1>1 DEF ControlChanges
<1> QED BY <1>2 DEF ControlChange

\* The fields of a control change.
LEMMA ChangeFields ==
    ASSUME NEW msg \in ControlChanges
    PROVE  msg.number \in 0..127 /\ msg.value \in 0..127 /\ msg.channel = Channel /\ msg \in Messages
<1>1. PICK number \in Byte, val \in Byte : msg = ControlChange(number, val)
  BY DEF ControlChanges
<1> QED BY <1>1 DEF Byte, ControlChange, Messages

\* A display message sets the text.
LEMMA ReceivesText ==
    ASSUME NEW d \in Devices, NEW text \in {Blank} \cup Texts
    PROVE  /\ DisplayMessage(text) \in Messages
           /\ DeviceStep[<<d, DisplayMessage(text)>>] \in Devices
           /\ DeviceStep[<<d, DisplayMessage(text)>>].led = d.led
           /\ DeviceStep[<<d, DisplayMessage(text)>>].text = text
<1>1. DisplayMessage(text) \in Messages
  BY DEF Messages
<1>2. DeviceStep[<<d, DisplayMessage(text)>>] = Received(d, DisplayMessage(text))
  BY <1>1 DEF DeviceStep
<1>3. Received(d, DisplayMessage(text)) = [d EXCEPT !.text = text]
  BY DEF Received, DisplayMessage, SysEx
<1> QED BY <1>1, <1>2, <1>3 DEF Devices

\* What switching an LED does.
LEMMA SwitchedFields ==
    ASSUME NEW d \in Devices, NEW zone \in Byte, NEW code \in Byte
    PROVE  /\ Switched(d, zone, code) \in Devices
           /\ Switched(d, zone, code).text = d.text
           /\ \A l \in Leds : l # <<zone, code % 16>> => Switched(d, zone, code).led[l] = d.led[l]
           /\ LET led == <<zone, code % 16>>
                  new == IF code >= 80 THEN "blink" ELSE IF code >= 64 THEN "on" ELSE "off"
              IN  led \in Leds /\ ~(new = "on" /\ d.led[led] = "blink") =>
                      Switched(d, zone, code).led[led] = new
<1> DEFINE led == <<zone, code % 16>>
           new == IF code >= 80 THEN "blink" ELSE IF code >= 64 THEN "on" ELSE "off"
<1>1. new \in {"off", "on", "blink"}
  OBVIOUS
<1>2. Switched(d, zone, code) = IF led \notin Leds \/ (new = "on" /\ d.led[led] = "blink") THEN d
                                ELSE [d EXCEPT !.led[led] = new]
  BY DEF Switched
<1> HIDE DEF led, new
<1>3. CASE led \notin Leds \/ (new = "on" /\ d.led[led] = "blink")
  BY <1>2, <1>3 DEF led, new
<1>4. CASE ~(led \notin Leds \/ (new = "on" /\ d.led[led] = "blink"))
  <2>1. Switched(d, zone, code) = [d EXCEPT !.led = [d.led EXCEPT ![led] = new]]
    BY <1>2, <1>4
  <2>2. d.led \in [Leds -> {"off", "on", "blink"}]
    BY DEF Devices
  <2>3. [d.led EXCEPT ![led] = new] \in [Leds -> {"off", "on", "blink"}]
    BY <1>1, <2>2
  <2>4. Switched(d, zone, code) \in Devices /\ Switched(d, zone, code).text = d.text
    BY <2>1, <2>3 DEF Devices
  <2>5. Switched(d, zone, code).led = [d.led EXCEPT ![led] = new]
    BY <2>1 DEF Devices
  <2>6. led \in Leds
    BY <1>4
  <2>7. \A l \in Leds : l # led => Switched(d, zone, code).led[l] = d.led[l]
    BY <2>2, <2>5
  <2>8. Switched(d, zone, code).led[led] = new
    BY <2>2, <2>5, <2>6
  <2> QED BY <2>4, <2>7, <2>8 DEF led, new
<1> QED BY <1>3, <1>4

\* What a control change does.
LEMMA ReceivesChange ==
    ASSUME NEW d \in Devices, NEW msg \in ControlChanges
    PROVE  /\ DeviceStep[<<d, msg>>] \in Devices
           /\ DeviceStep[<<d, msg>>].text = d.text /\ DeviceStep[<<d, msg>>].last = msg
           /\ msg.number = 44 /\ d.last.number = 12 =>
                  DeviceStep[<<d, msg>>].led = Switched(d, d.last.value, msg.value).led
           /\ ~(msg.number = 44 /\ d.last.number = 12) => DeviceStep[<<d, msg>>].led = d.led
<1>1. msg.number \in 0..127 /\ msg.value \in 0..127 /\ msg \in Messages
  BY ChangeFields
<1>2. DeviceStep[<<d, msg>>] = Received(d, msg)
  BY <1>1 DEF DeviceStep
<1>3. d.last.value \in Byte /\ msg.value \in Byte
  BY ChangeFields DEF Devices, Byte
<1>4. CASE msg.number = 44 /\ d.last.number = 12
  <2> DEFINE e == Switched(d, d.last.value, msg.value)
  <2>1. e \in Devices /\ e.text = d.text
    BY <1>1, <1>3, SwitchedFields
  <2>2. Received(d, msg) = [e EXCEPT !.last = msg]
    BY <1>1, <1>4 DEF Received, SysEx
  <2> HIDE DEF e
  <2>3. /\ Received(d, msg) \in Devices /\ Received(d, msg).text = d.text
        /\ Received(d, msg).last = msg /\ Received(d, msg).led = e.led
    BY <2>1, <2>2 DEF Devices
  <2> QED BY <1>2, <1>4, <2>3 DEF e
<1>5. CASE ~(msg.number = 44 /\ d.last.number = 12)
  <2>1. Received(d, msg) = [d EXCEPT !.last = msg]
    BY <1>1, <1>5 DEF Received, SysEx
  <2>2. /\ Received(d, msg) \in Devices /\ Received(d, msg).text = d.text
        /\ Received(d, msg).last = msg /\ Received(d, msg).led = d.led
    BY <2>1 DEF Devices
  <2> QED BY <1>2, <1>5, <2>2
<1> QED BY <1>4, <1>5

\* What an LED looks like when its control has been set to val.
Shown(val) == IF val = 2 THEN "blink" ELSE IF val = 1 THEN "on" ELSE "off"

\* Two control changes, one after the other.
LEMMA TwoChanges ==
    ASSUME NEW d \in Devices, NEW a \in ControlChanges, NEW b \in ControlChanges
    PROVE  LET e == DeviceStep[<<DeviceStep[<<d, a>>], b>>]
           IN  /\ e \in Devices /\ DeviceLeads(d, <<a, b>>, e) /\ e.text = d.text
               /\ <<a, b>> \in Seq(Messages)
<1> DEFINE c == DeviceStep[<<d, a>>]
           e == DeviceStep[<<c, b>>]
<1>1. c \in Devices /\ c.text = d.text
  BY ReceivesChange
<1>2. e \in Devices /\ e.text = c.text
  BY <1>1, ReceivesChange
<1> HIDE DEF c
<1>3. c = DeviceStep[<<d, a>>]
  BY DEF c
<1>4. DeviceLeads(d, <<a, b>>, e)
  BY <1>1, <1>2, <1>3, LeadsTwo DEF DeviceLeads
<1>5. a \in Messages /\ b \in Messages
  BY ChangeFields
<1>6. <<a, b>> \in Seq(Messages)
  BY <1>5
<1> QED BY <1>1, <1>2, <1>4, <1>6 DEF c

\* setControl() switches its own LED and no other, but for the firmware.
LEMMA SetControlLeads ==
    ASSUME NEW d \in Devices, NEW c, NEW val \in Levels
    PROVE  /\ setControl(c, val) \in Seq(Messages)
           /\ \E e \in Devices :
                 /\ DeviceLeads(d, setControl(c, val), e) /\ e.text = d.text
                 /\ \A l \in Leds : (c \in Controls => l # LedOf(c)) => e.led[l] = d.led[l]
                 /\ c \in Controls /\ switches[c].led # None
                    /\ ~(val = 1 /\ d.led[LedOf(c)] = "blink") => e.led[LedOf(c)] = Shown(val)
<1>1. CASE c \notin Controls
  <2>1. setControl(c, val) = <<>>
    BY <1>1 DEF setControl
  <2>2. <<>> \in Seq(Messages)
    OBVIOUS
  <2>3. DeviceLeads(d, <<>>, d)
    BY LeadsNowhere DEF DeviceLeads
  <2> QED BY <1>1, <2>1, <2>2, <2>3
<1>2. CASE c \in Controls /\ switches[c].led = None
  <2> DEFINE a == ControlChange(0, 0)
             e == DeviceStep[<<DeviceStep[<<d, a>>], a>>]
  <2>1. setControl(c, val) = <<a, a>>
    BY <1>2 DEF setControl
  <2>2. a \in ControlChanges /\ a.number = 0
    <3>1. 0 \in Byte
      BY DEF Byte
    <3> HIDE DEF a
    <3> QED BY <3>1, ChangeOf DEF a
  <2>3. e \in Devices /\ DeviceLeads(d, <<a, a>>, e) /\ e.text = d.text /\ <<a, a>> \in Seq(Messages)
    BY <2>2, TwoChanges
  <2> HIDE DEF a
  <2>4. DeviceStep[<<d, a>>] \in Devices /\ DeviceStep[<<d, a>>].led = d.led
    BY <2>2, ReceivesChange
  <2>5. e.led = d.led
    BY <2>2, <2>4, ReceivesChange
  <2> QED BY <1>2, <2>1, <2>3, <2>5
<1>3. CASE c \in Controls /\ switches[c].led # None
  <2> DEFINE z == switches[c].lzone
             n == switches[c].led
             code == LedCode(c, val)
             a == ControlChange(12, z)
             b == ControlChange(44, code)
             x == DeviceStep[<<d, a>>]
             e == DeviceStep[<<x, b>>]
  <2>1. z \in 0..11 /\ n \in 0..7
    BY <1>3, SwitchTypes DEF Switches, None
  <2>2. code = (IF val = 0 THEN 0 ELSE IF val = 1 THEN 64 ELSE 80) + n
    BY DEF LedCode, Levels
  <2>3. code \in 0..127 /\ code % 16 = n /\ (code >= 80 <=> val = 2) /\ (code >= 64 <=> val \in {1, 2})
    <3> HIDE DEF code, n
    <3> QED BY <2>1, <2>2 DEF Levels
  <2>4. setControl(c, val) = <<a, b>>
    BY <1>3 DEF setControl
  <2>5. LedOf(c) = <<z, n>> /\ LedOf(c) \in Leds
    BY <1>3, LedKnown DEF LedOf
  <2> HIDE DEF code, n, z
  <2>6. /\ a \in ControlChanges /\ a.number = 12 /\ a.value = z
        /\ b \in ControlChanges /\ b.number = 44 /\ b.value = code
    <3> DEFINE first == 12
               second == 44
    <3>1. first \in Byte /\ second \in Byte /\ z \in Byte /\ code \in Byte
      BY <2>1, <2>3 DEF Byte
    <3>2. a = ControlChange(first, z) /\ b = ControlChange(second, code)
      OBVIOUS
    <3> HIDE DEF first, second, a, b
    <3>3. a \in ControlChanges /\ a.number = first /\ a.value = z
      BY <3>1, <3>2, ChangeOf
    <3>4. b \in ControlChanges /\ b.number = second /\ b.value = code
      BY <3>1, <3>2, ChangeOf
    <3> QED BY <3>3, <3>4 DEF first, second
  <2> HIDE DEF a, b
  <2>7. e \in Devices /\ DeviceLeads(d, <<a, b>>, e) /\ e.text = d.text /\ <<a, b>> \in Seq(Messages)
    BY <2>6, TwoChanges
  <2>8. x \in Devices /\ x.led = d.led /\ x.last = a
    BY <2>6, ReceivesChange
  <2> HIDE DEF x
  <2>9. e.led = Switched(x, z, code).led
    BY <2>6, <2>8, ReceivesChange
  <2> DEFINE new == IF code >= 80 THEN "blink" ELSE IF code >= 64 THEN "on" ELSE "off"
  <2>10. /\ \A l \in Leds : l # <<z, n>> => Switched(x, z, code).led[l] = x.led[l]
         /\ <<z, n>> \in Leds /\ ~(new = "on" /\ x.led[<<z, n>>] = "blink") =>
                Switched(x, z, code).led[<<z, n>>] = new
    <3>1. z \in Byte /\ code \in Byte /\ code % 16 = n
      BY <2>1, <2>3 DEF Byte
    <3> QED BY <2>8, <3>1, SwitchedFields
  <2>11. new = Shown(val)
    BY <2>3 DEF Shown
  <2>12. new = "on" => val = 1
    BY <2>3
  <2> HIDE DEF new, e
  <2>13. \A l \in Leds : (c \in Controls => l # LedOf(c)) => e.led[l] = d.led[l]
    BY <1>3, <2>5, <2>8, <2>9, <2>10
  <2>14. ~(val = 1 /\ d.led[LedOf(c)] = "blink") => e.led[LedOf(c)] = Shown(val)
    BY <2>5, <2>8, <2>9, <2>10, <2>11, <2>12
  <2> QED BY <1>3, <2>4, <2>7, <2>13, <2>14
<1> QED BY <1>1, <1>2, <1>3

\* The status of a head is one of three.
LEMMA StatusType == ASSUME NEW m, NEW h PROVE HeadStatus(m, h) \in Levels
BY DEF HeadStatus, Levels

\* An update of a head's LED takes it from the old status to the new one, also
\* where the firmware needs the detour, and leaves the others alone.
LEMMA HeadUpdateLeads ==
    ASSUME NEW m \in Surfaces, NEW h \in Heads, NEW d \in Devices
    PROVE  /\ HeadUpdate(m, h) \in Seq(Messages)
           /\ \E e \in Devices :
                 /\ DeviceLeads(d, HeadUpdate(m, h), e) /\ e.text = d.text
                 /\ \A l \in Leds : (m.controls[h] \in Controls => l # LedOf(m.controls[h])) =>
                        e.led[l] = d.led[l]
                 /\ m.controls[h] \in Controls /\ switches[m.controls[h]].led # None
                    /\ d.led[LedOf(m.controls[h])] = Shown(m.state[h]) =>
                        e.led[LedOf(m.controls[h])] = Shown(HeadStatus(m, h))
<1> DEFINE c == m.controls[h]
           old == m.state[h]
           new == HeadStatus(m, h)
<1>1. new \in 0..2 /\ old \in -1..2 /\ new \in Levels /\ 0 \in Levels /\ 1 \in Levels
  BY StatusType DEF Surfaces, Levels
<1>2. HeadUpdate(m, h) = IF new = old THEN <<>>
                         ELSE (IF new = 1 /\ old = 2 THEN setControl(c, 0) ELSE <<>>) \o setControl(c, new)
  BY DEF HeadUpdate
<1> HIDE DEF c, old, new
<1>3. CASE new = old
  <2>1. DeviceLeads(d, <<>>, d) /\ <<>> \in Seq(Messages)
    BY LeadsNowhere DEF DeviceLeads
  <2> QED BY <1>2, <1>3, <2>1 DEF c, old, new
<1>4. CASE new # old /\ ~(new = 1 /\ old = 2)
  <2>1. HeadUpdate(m, h) = <<>> \o setControl(c, new)
    BY <1>2, <1>4
  <2>2. setControl(c, new) \in Seq(Messages)
    BY <1>1, SetControlLeads
  <2>3. HeadUpdate(m, h) = setControl(c, new)
    BY <2>1, <2>2, ConcatEmptySeq
  <2>4. PICK e \in Devices :
           /\ DeviceLeads(d, setControl(c, new), e) /\ e.text = d.text
           /\ \A l \in Leds : (c \in Controls => l # LedOf(c)) => e.led[l] = d.led[l]
           /\ c \in Controls /\ switches[c].led # None
              /\ ~(new = 1 /\ d.led[LedOf(c)] = "blink") => e.led[LedOf(c)] = Shown(new)
    BY <1>1, SetControlLeads
  <2>5. new = 1 => Shown(old) # "blink"
    BY <1>1, <1>4 DEF Shown
  <2> QED BY <2>2, <2>3, <2>4, <2>5 DEF c, old, new
<1>5. CASE new = 1 /\ old = 2
  <2>1. HeadUpdate(m, h) = setControl(c, 0) \o setControl(c, 1)
    BY <1>2, <1>5
  <2>2. setControl(c, 0) \in Seq(Messages) /\ setControl(c, 1) \in Seq(Messages)
    BY <1>1, SetControlLeads
  <2>3. PICK x \in Devices :
           /\ DeviceLeads(d, setControl(c, 0), x) /\ x.text = d.text
           /\ \A l \in Leds : (c \in Controls => l # LedOf(c)) => x.led[l] = d.led[l]
           /\ c \in Controls /\ switches[c].led # None => x.led[LedOf(c)] = Shown(0)
    BY <1>1, SetControlLeads
  <2>4. PICK e \in Devices :
           /\ DeviceLeads(x, setControl(c, 1), e) /\ e.text = x.text
           /\ \A l \in Leds : (c \in Controls => l # LedOf(c)) => e.led[l] = x.led[l]
           /\ c \in Controls /\ switches[c].led # None
              /\ x.led[LedOf(c)] # "blink" => e.led[LedOf(c)] = Shown(1)
    BY <1>1, SetControlLeads
  <2>5. DeviceLeads(d, setControl(c, 0) \o setControl(c, 1), e)
    BY <2>2, <2>3, <2>4, LeadsOn DEF DeviceLeads
  <2>6. setControl(c, 0) \o setControl(c, 1) \in Seq(Messages)
    BY <2>2, ConcatProperties
  <2>7. Shown(0) # "blink"
    BY DEF Shown
  <2> QED BY <1>5, <2>1, <2>3, <2>4, <2>5, <2>6, <2>7 DEF c, old, new
<1> QED BY <1>3, <1>4, <1>5

-----------------------------------------------------------------------------
(***************************************************************************)
(* What the driver sends keeps the surface in step.                        *)
(***************************************************************************)
StrayIn(m) == \E h \in Heads : h > 3 /\ m.controls[h] \in Controls
Named(m) == \A h \in Heads : h <= 3 => m.controls[h] = 78 + h
Modifiers == {shiftControl, escControl}

\* The LEDs show the status last sent for the heads, and the modifiers.
HeadsLit(m, e) == \A h \in Heads : h <= 3 => e.led[LedOf(m.controls[h])] = Shown(m.state[h])
KeysLit(m, e) == \A k \in Modifiers : e.led[LedOf(k)] = Shown(m.values[k])

\* The LEDs of the heads and of the modifiers are different ones.
LEMMA LedsApart ==
    ASSUME NEW m, Named(m)
    PROVE  /\ \A h \in Heads : h <= 3 =>
                 /\ m.controls[h] \in Controls /\ switches[m.controls[h]].led # None
                 /\ LedOf(m.controls[h]) \in Leds
           /\ \A h, j \in Heads : h <= 3 /\ j <= 3 /\ h # j => LedOf(m.controls[h]) # LedOf(m.controls[j])
           /\ \A k \in Modifiers : k \in Controls /\ switches[k].led # None /\ LedOf(k) \in Leds
           /\ \A k \in Modifiers, h \in Heads : h <= 3 => LedOf(k) # LedOf(m.controls[h])
           /\ LedOf(shiftControl) # LedOf(escControl)
<1>1. ASSUME NEW h \in Heads, h <= 3
      PROVE  /\ m.controls[h] \in Controls /\ switches[m.controls[h]].led # None
             /\ LedOf(m.controls[h]) \in Leds /\ LedOf(m.controls[h]) = <<11, 2 * h>>
  <2>1. m.controls[h] = 78 + h /\ h \in 0..3
    BY <1>1, MotorMixAssumption DEF Named, Heads
  <2>2. 78 + h \in Controls /\ switches[78 + h].led # None /\ LedOf(78 + h) = <<11, 2 * h>>
    BY <2>1, NamedSwitches DEF None
  <2>3. LedOf(78 + h) \in Leds
    BY <2>2, LedKnown
  <2> QED BY <2>1, <2>2, <2>3
<1>2. \A h, j \in Heads : h # j => <<11, 2 * h>> # <<11, 2 * j>>
  BY MotorMixAssumption DEF Heads
<1>3. /\ shiftControl \in Controls /\ switches[shiftControl].led # None /\ LedOf(shiftControl) = <<8, 0>>
      /\ escControl \in Controls /\ switches[escControl].led # None /\ LedOf(escControl) = <<9, 0>>
  BY NamedSwitches DEF shiftControl, escControl, None
<1>4. LedOf(shiftControl) \in Leds /\ LedOf(escControl) \in Leds
  BY <1>3, LedKnown
<1>5. \A x : <<8, 0>> # <<11, x>> /\ <<9, 0>> # <<11, x>>
  OBVIOUS
<1> QED BY <1>1, <1>2, <1>3, <1>4, <1>5 DEF Modifiers

\* What updateHeadStatus() sends for all heads, however many there are.
Updates(m) == [i \in 1..MAX_HEADS |-> HeadUpdate(m, i - 1)]

\* They lead all heads' LEDs to the new status and leave the modifiers' alone.
LEMMA UpdatesLead ==
    ASSUME NEW m \in Surfaces, Named(m), NEW d \in Devices
    PROVE  /\ FlattenSeq(Updates(m)) \in Seq(Messages)
           /\ \E e \in Devices :
                 /\ DeviceLeads(d, FlattenSeq(Updates(m)), e) /\ e.text = d.text
                 /\ ~StrayIn(m) /\ HeadsLit(m, d) =>
                       /\ \A h \in Heads : h <= 3 => e.led[LedOf(m.controls[h])] = Shown(HeadStatus(m, h))
                       /\ \A k \in Modifiers : e.led[LedOf(k)] = d.led[LedOf(k)]
<1> DEFINE U == Updates(m)
<1>1. U \in [1..MAX_HEADS -> Seq(Messages)]
  <2>1. \A i \in 1..MAX_HEADS : i - 1 \in Heads
    BY MotorMixAssumption DEF Heads
  <2>2. \A h \in Heads : HeadUpdate(m, h) \in Seq(Messages)
    BY HeadUpdateLeads
  <2> QED BY <2>1, <2>2 DEF Updates
<1>2. MAX_HEADS \in Nat \ {0} /\ MAX_HEADS \in Nat
  BY MotorMixAssumption
<1> HIDE DEF U
<1>3. PICK f \in [0..MAX_HEADS -> Seq(Messages)] : Chain(f, U, MAX_HEADS)
  BY <1>1, <1>2, ChainExists
<1>4. FlattenSeq(U) = f[MAX_HEADS]
  BY <1>1, <1>2, <1>3, FlattenChain
<1> DEFINE Status(h, n) == IF h < n THEN Shown(HeadStatus(m, h)) ELSE Shown(m.state[h])
           Sent(e, n) == /\ DeviceLeads(d, f[n], e) /\ e.text = d.text
                         /\ ~StrayIn(m) /\ HeadsLit(m, d) =>
                            /\ \A h \in Heads : h <= 3 => e.led[LedOf(m.controls[h])] = Status(h, n)
                            /\ \A k \in Modifiers : e.led[LedOf(k)] = d.led[LedOf(k)]
           Good == {n \in Nat : n <= MAX_HEADS => \E e \in Devices : Sent(e, n)}
<1>5. 0 \in Good
  <2>1. f[0] = <<>>
    BY <1>3 DEF Chain
  <2>2. DeviceLeads(d, <<>>, d)
    BY LeadsNowhere DEF DeviceLeads
  <2>3. \A h \in Heads : Status(h, 0) = Shown(m.state[h])
    BY DEF Heads
  <2>4. Sent(d, 0)
    BY <2>1, <2>2, <2>3 DEF HeadsLit
  <2> QED BY <2>4
<1>6. ASSUME NEW n \in Nat, n \in Good PROVE n + 1 \in Good
  <2> SUFFICES ASSUME n + 1 <= MAX_HEADS PROVE \E e \in Devices : Sent(e, n + 1)
    OBVIOUS
  <2>1. PICK x \in Devices : Sent(x, n)
    <3>1. n <= MAX_HEADS
      BY <1>2
    <3> HIDE DEF Sent
    <3> QED BY <1>6, <3>1
  <2>2. n \in Heads /\ n + 1 \in 1..MAX_HEADS
    BY <1>2 DEF Heads
  <2>3. PICK e \in Devices :
           /\ DeviceLeads(x, HeadUpdate(m, n), e) /\ e.text = x.text
           /\ \A l \in Leds : (m.controls[n] \in Controls => l # LedOf(m.controls[n])) => e.led[l] = x.led[l]
           /\ m.controls[n] \in Controls /\ switches[m.controls[n]].led # None
              /\ x.led[LedOf(m.controls[n])] = Shown(m.state[n]) =>
                 e.led[LedOf(m.controls[n])] = Shown(HeadStatus(m, n))
    BY <2>2, HeadUpdateLeads
  <2>4. f[n + 1] = f[n] \o HeadUpdate(m, n)
    <3>1. f[n + 1] = Joined(f[n + 1 - 1], U[n + 1])
      BY <1>3, <2>2 DEF Chain
    <3>2. U[n + 1] = HeadUpdate(m, n + 1 - 1)
      BY <2>2 DEF U, Updates
    <3>3. n + 1 - 1 = n
      OBVIOUS
    <3> QED BY <3>1, <3>2, <3>3 DEF Joined
  <2>5. f[n] \in Seq(Messages) /\ HeadUpdate(m, n) \in Seq(Messages)
    BY <1>2, <2>2, HeadUpdateLeads
  <2>6. DeviceLeads(d, f[n + 1], e) /\ e.text = d.text
    <3>1. DeviceLeads(d, f[n], x) /\ x.text = d.text
      BY <2>1
    <3> QED BY <2>3, <2>4, <2>5, <3>1, LeadsOn DEF DeviceLeads
  <2>7. ASSUME ~StrayIn(m), HeadsLit(m, d)
        PROVE  /\ \A h \in Heads : h <= 3 => e.led[LedOf(m.controls[h])] = Status(h, n + 1)
               /\ \A k \in Modifiers : e.led[LedOf(k)] = d.led[LedOf(k)]
    <3>1. /\ \A h \in Heads : h <= 3 => x.led[LedOf(m.controls[h])] = Status(h, n)
          /\ \A k \in Modifiers : x.led[LedOf(k)] = d.led[LedOf(k)]
      BY <2>1, <2>7
    <3>2. \A h \in Heads : h # n => Status(h, n + 1) = Status(h, n)
      BY <1>2 DEF Heads
    <3>3. Status(n, n) = Shown(m.state[n]) /\ Status(n, n + 1) = Shown(HeadStatus(m, n))
      OBVIOUS
    <3> HIDE DEF Status
    <3>4. CASE n <= 3
      <4>1. /\ \A h \in Heads : h <= 3 /\ h # n => e.led[LedOf(m.controls[h])] = x.led[LedOf(m.controls[h])]
            /\ \A k \in Modifiers : e.led[LedOf(k)] = x.led[LedOf(k)]
        BY <2>2, <2>3, <3>4, LedsApart
      <4>2. e.led[LedOf(m.controls[n])] = Shown(HeadStatus(m, n))
        BY <2>2, <2>3, <3>1, <3>3, <3>4, LedsApart
      <4> QED BY <3>1, <3>2, <3>3, <4>1, <4>2
    <3>5. CASE n > 3
      <4>1. m.controls[n] \notin Controls
        BY <2>2, <2>7, <3>5 DEF StrayIn
      <4>2. /\ \A h \in Heads : h <= 3 => e.led[LedOf(m.controls[h])] = x.led[LedOf(m.controls[h])]
            /\ \A k \in Modifiers : e.led[LedOf(k)] = x.led[LedOf(k)]
        BY <2>3, <4>1, LedsApart
      <4>3. \A h \in Heads : h <= 3 => h # n
        BY <3>5 DEF Heads
      <4> QED BY <3>1, <3>2, <4>2, <4>3
    <3> QED BY <3>4, <3>5
  <2> QED BY <2>6, <2>7
<1>7. \A n \in Nat : n \in Good
  <2> HIDE DEF Good
  <2> QED BY <1>5, <1>6, SetInduction
<1>8. PICK e \in Devices : Sent(e, MAX_HEADS)
  BY <1>2, <1>7
<1>9. \A h \in Heads : Status(h, MAX_HEADS) = Shown(HeadStatus(m, h))
  BY <1>2 DEF Heads
<1>10. f[MAX_HEADS] \in Seq(Messages)
  BY <1>2
<1> HIDE DEF Status
<1> QED BY <1>4, <1>8, <1>9, <1>10 DEF U

\* The surface shows what the driver means it to show.
Shows(m, e) == /\ e.text = IF m.timer = None THEN Blank ELSE m.timer
               /\ ~StrayIn(m) => HeadsLit(m, e) /\ KeysLit(m, e)

\* The status sent last is that of the head.
Settled(m) == \A h \in Heads : \/ m.state[h] = HeadStatus(m, h)
                               \/ m.state[h] = -1 /\ HeadStatus(m, h) = 0

ModifiersOK(m) == \A k \in Modifiers : m.values[k] \in {0, 1}

SurfaceOK(m) == m \in Surfaces /\ Named(m) /\ Settled(m) /\ ModifiersOK(m)

\* A surface that shows m shows n when it has received what n has sent more.
InStep(m, n) ==
    \E ext \in Seq(Messages) :
        /\ n.out = m.out \o ext
        /\ \A d \in Devices : Shows(m, d) => \E e \in Devices : DeviceLeads(d, ext, e) /\ Shows(n, e)

\* What is at a place of a concatenation.
LEMMA ConcatAt ==
    ASSUME NEW S, NEW s \in Seq(S), NEW t \in Seq(S), NEW c, c = s \o t
    PROVE  /\ c \in Seq(S) /\ Len(c) = Len(s) + Len(t)
           /\ \A i \in Int : 1 <= i /\ i <= Len(s) => c[i] = s[i]
           /\ \A i \in Int : Len(s) < i /\ i <= Len(s) + Len(t) => c[i] = t[i - Len(s)]
<1>1. Len(s) \in Nat /\ Len(t) \in Nat
  OBVIOUS
<1>2. /\ c \in Seq(S) /\ Len(c) = Len(s) + Len(t)
      /\ \A i \in 1..(Len(s) + Len(t)) : c[i] = IF i <= Len(s) THEN s[i] ELSE t[i - Len(s)]
  BY ConcatProperties
<1> QED BY <1>1, <1>2

\* Concatenation is associative.
LEMMA Associative ==
    ASSUME NEW S, NEW s \in Seq(S), NEW t \in Seq(S), NEW u \in Seq(S)
    PROVE  Joined(Joined(s, t), u) = Joined(s, Joined(t, u))
<1> DEFINE st == s \o t
           tu == t \o u
           l == st \o u
           r == s \o tu
<1>1. st \in Seq(S) /\ tu \in Seq(S)
  BY ConcatProperties
<1>2. st = s \o t /\ tu = t \o u /\ l = st \o u /\ r = s \o tu
  OBVIOUS
<1> HIDE DEF st, tu, l, r
<1>3. /\ Len(st) = Len(s) + Len(t)
      /\ \A i \in Int : 1 <= i /\ i <= Len(s) => st[i] = s[i]
      /\ \A i \in Int : Len(s) < i /\ i <= Len(s) + Len(t) => st[i] = t[i - Len(s)]
  BY <1>2, ConcatAt
<1>4. /\ Len(tu) = Len(t) + Len(u)
      /\ \A i \in Int : 1 <= i /\ i <= Len(t) => tu[i] = t[i]
      /\ \A i \in Int : Len(t) < i /\ i <= Len(t) + Len(u) => tu[i] = u[i - Len(t)]
  BY <1>2, ConcatAt
<1>5. /\ l \in Seq(S) /\ Len(l) = Len(st) + Len(u)
      /\ \A i \in Int : 1 <= i /\ i <= Len(st) => l[i] = st[i]
      /\ \A i \in Int : Len(st) < i /\ i <= Len(st) + Len(u) => l[i] = u[i - Len(st)]
  BY <1>1, <1>2, ConcatAt
<1>6. /\ r \in Seq(S) /\ Len(r) = Len(s) + Len(tu)
      /\ \A i \in Int : 1 <= i /\ i <= Len(s) => r[i] = s[i]
      /\ \A i \in Int : Len(s) < i /\ i <= Len(s) + Len(tu) => r[i] = tu[i - Len(s)]
  BY <1>1, <1>2, ConcatAt
<1> DEFINE a == Len(s)
           b == Len(t)
           c == Len(u)
<1>7. a \in Nat /\ b \in Nat /\ c \in Nat
  OBVIOUS
<1>8. Len(st) = a + b /\ Len(tu) = b + c /\ Len(l) = a + b + c /\ Len(r) = a + b + c
  BY <1>3, <1>4, <1>5, <1>6, <1>7
<1> HIDE DEF a, b, c
<1>9. ASSUME NEW i \in 1..Len(l) PROVE l[i] = r[i]
  <2>1. i \in Int /\ 1 <= i /\ i <= a + b + c
    BY <1>7, <1>8
  <2>2. CASE i <= a
    <3>1. l[i] = st[i]
      BY <1>5, <1>7, <1>8, <2>1, <2>2
    <3>2. st[i] = s[i]
      BY <1>3, <2>1, <2>2 DEF a
    <3>3. r[i] = s[i]
      BY <1>6, <2>1, <2>2 DEF a
    <3> QED BY <3>1, <3>2, <3>3
  <2>3. CASE i > a /\ i <= a + b
    <3>1. l[i] = st[i]
      BY <1>5, <1>7, <1>8, <2>1, <2>3
    <3>2. st[i] = t[i - a]
      BY <1>3, <2>1, <2>3 DEF a, b
    <3>3. r[i] = tu[i - a]
      BY <1>6, <1>7, <1>8, <2>1, <2>3 DEF a
    <3>4. i - a \in Int /\ 1 <= i - a /\ i - a <= b
      BY <1>7, <2>1, <2>3
    <3>5. tu[i - a] = t[i - a]
      BY <1>4, <3>4 DEF b
    <3> QED BY <3>1, <3>2, <3>3, <3>5
  <2>4. CASE i > a + b
    <3>1. l[i] = u[i - (a + b)]
      BY <1>5, <1>7, <1>8, <2>1, <2>4 DEF c
    <3>2. r[i] = tu[i - a]
      BY <1>6, <1>7, <1>8, <2>1, <2>4 DEF a
    <3>3. i - a \in Int /\ b < i - a /\ i - a <= b + c /\ i - a - b = i - (a + b)
      BY <1>7, <2>1, <2>4
    <3>4. tu[i - a] = u[i - a - b]
      BY <1>4, <3>3 DEF b, c
    <3> QED BY <3>1, <3>2, <3>3, <3>4
  <2> QED BY <1>7, <2>1, <2>2, <2>3, <2>4
<1>10. l = r
  BY <1>5, <1>6, <1>8, <1>9, SeqEqual
<1> QED BY <1>10 DEF l, r, st, tu, Joined

\* Two calls, one after the other.
LEMMA InStepTwice ==
    ASSUME NEW l \in Surfaces, NEW m, NEW n, InStep(l, m), InStep(m, n)
    PROVE  InStep(l, n)
<1>1. PICK a \in Seq(Messages) :
         /\ m.out = l.out \o a
         /\ \A d \in Devices : Shows(l, d) => \E e \in Devices : DeviceLeads(d, a, e) /\ Shows(m, e)
  BY DEF InStep
<1>2. PICK b \in Seq(Messages) :
         /\ n.out = m.out \o b
         /\ \A d \in Devices : Shows(m, d) => \E e \in Devices : DeviceLeads(d, b, e) /\ Shows(n, e)
  BY DEF InStep
<1>3. l.out \in Seq(Messages) /\ a \o b \in Seq(Messages)
  BY ConcatProperties DEF Surfaces
<1>4. n.out = l.out \o (a \o b)
  <2>1. n.out = Joined(Joined(l.out, a), b)
    BY <1>1, <1>2, Zenon DEF Joined
  <2>2. Joined(Joined(l.out, a), b) = Joined(l.out, Joined(a, b))
    BY <1>3, Associative
  <2> QED BY <2>1, <2>2, Zenon DEF Joined
<1>5. ASSUME NEW d \in Devices, Shows(l, d)
      PROVE  \E e \in Devices : DeviceLeads(d, a \o b, e) /\ Shows(n, e)
  <2>1. PICK x \in Devices : DeviceLeads(d, a, x) /\ Shows(m, x)
    BY <1>1, <1>5
  <2>2. PICK e \in Devices : DeviceLeads(x, b, e) /\ Shows(n, e)
    BY <1>2, <2>1
  <2>3. DeviceLeads(d, a \o b, e)
    BY <2>1, <2>2, LeadsOn DEF DeviceLeads
  <2> QED BY <2>2, <2>3
<1> QED BY <1>3, <1>4, <1>5 DEF InStep

\* What the surface should show depends on these fields only.
Alike(m, n) == /\ n.controls = m.controls /\ n.state = m.state /\ n.timer = m.timer /\ n.out = m.out
               /\ \A k \in Modifiers : n.values[k] = m.values[k]

\* A call that starts from a surface like it.
LEMMA AlikeInStep ==
    ASSUME NEW l, NEW m, NEW n, Alike(l, m), InStep(m, n)
    PROVE  InStep(l, n)
<1>1. \A d : Shows(l, d) <=> Shows(m, d)
  BY DEF Alike, Shows, StrayIn, HeadsLit, KeysLit
<1>2. l.out = m.out
  BY DEF Alike
<1> QED BY <1>1, <1>2 DEF InStep

\* A call that sends nothing.
LEMMA StillInStep ==
    ASSUME NEW m \in Surfaces, NEW n, Alike(m, n)
    PROVE  InStep(m, n)
<1>1. \A d : Shows(m, d) <=> Shows(n, d)
  BY DEF Alike, Shows, StrayIn, HeadsLit, KeysLit
<1>2. m.out \in Seq(Messages) /\ n.out = m.out /\ <<>> \in Seq(Messages)
  BY DEF Alike, Surfaces
<1>3. n.out = m.out \o <<>>
  BY <1>2, ConcatEmptySeq
<1>4. \A d \in Devices : DeviceLeads(d, <<>>, d)
  BY LeadsNowhere DEF DeviceLeads
<1> QED BY <1>1, <1>2, <1>3, <1>4 DEF InStep

\* The fields of a surface.
Pairs == Byte \X Byte
KeyValues == [Controls -> Byte]
HeadControls == [Heads -> Int]
Selections == Heads \cup {None}
HeadSets == SUBSET Heads
Statuses == [Heads -> -1..2]
Timers == Texts \cup {None}
Outputs == Seq(Messages)

LEMMA SurfacesAre ==
    Surfaces = [numbers : Pairs, values : KeyValues, controls : HeadControls, selected : Selections,
                active : HeadSets, state : Statuses, timer : Timers, out : Outputs]
BY DEF Surfaces, Pairs, KeyValues, HeadControls, Selections, HeadSets, Statuses, Timers, Outputs

\* MIDIChannel::send() changes the queue only.
LEMMA SendFields ==
    ASSUME NEW m \in Surfaces, NEW msgs \in Seq(Messages)
    PROVE  LET n == Send(m, msgs)
           IN  /\ n \in Surfaces /\ n.out = m.out \o msgs
               /\ n.numbers = m.numbers /\ n.values = m.values /\ n.controls = m.controls
               /\ n.selected = m.selected /\ n.active = m.active /\ n.state = m.state
               /\ n.timer = m.timer
<1>1. m.out \o msgs \in Seq(Messages)
  BY ConcatProperties DEF Surfaces
<1> DEFINE o == m.out \o msgs
<1>2. Send(m, msgs) = [m EXCEPT !.out = o]
  BY DEF Send
<1> HIDE DEF o
<1>3. o \in Outputs
  BY <1>1 DEF o, Outputs
<1>4. /\ Send(m, msgs) \in Surfaces /\ Send(m, msgs).out = o
      /\ Send(m, msgs).numbers = m.numbers /\ Send(m, msgs).values = m.values
      /\ Send(m, msgs).controls = m.controls /\ Send(m, msgs).selected = m.selected
      /\ Send(m, msgs).active = m.active /\ Send(m, msgs).state = m.state
      /\ Send(m, msgs).timer = m.timer
  BY <1>2, <1>3, SurfacesAre
<1> QED BY <1>4 DEF o

\* One display message more.
LEMMA DisplayInStep ==
    ASSUME NEW m \in Surfaces, NEW n, NEW text \in {Blank} \cup Texts,
           n.out = m.out \o <<DisplayMessage(text)>>,
           n.controls = m.controls, n.state = m.state, n.values = m.values,
           text = IF n.timer = None THEN Blank ELSE n.timer
    PROVE  InStep(m, n)
<1> DEFINE msg == DisplayMessage(text)
<1>1. \A d \in Devices : /\ msg \in Messages /\ DeviceStep[<<d, msg>>] \in Devices
                         /\ DeviceStep[<<d, msg>>].led = d.led /\ DeviceStep[<<d, msg>>].text = text
  BY ReceivesText
<1> HIDE DEF msg
<1>2. ASSUME NEW d \in Devices, Shows(m, d)
      PROVE  \E e \in Devices : DeviceLeads(d, <<msg>>, e) /\ Shows(n, e)
  <2> DEFINE e == DeviceStep[<<d, msg>>]
  <2>1. e \in Devices /\ e.led = d.led /\ e.text = text
    BY <1>1
  <2>2. DeviceLeads(d, <<msg>>, e)
    BY <2>1, LeadsOne DEF DeviceLeads
  <2> HIDE DEF e
  <2>3. e.text = IF n.timer = None THEN Blank ELSE n.timer
    BY <2>1
  <2>4. ~StrayIn(n) => HeadsLit(n, e) /\ KeysLit(n, e)
    BY <1>2, <2>1 DEF Shows, StrayIn, HeadsLit, KeysLit
  <2> QED BY <2>1, <2>2, <2>3, <2>4 DEF Shows
<1>3. msg \in Messages
  BY DEF msg, Messages
<1>4. <<msg>> \in Seq(Messages)
  BY <1>3
<1>5. n.out = m.out \o <<msg>>
  BY DEF msg
<1> QED BY <1>2, <1>4, <1>5 DEF InStep

\* The fields the parser, the reports and the keys go by.
Untouched(m, n) == /\ n.numbers = m.numbers /\ n.values = m.values /\ n.active = m.active

\* What a call keeps.
KeptBy(m, n) == SurfaceOK(n) /\ InStep(m, n) /\ n.controls = m.controls

\* messageTimeout() blanks the display.
LEMMA TimeoutKept ==
    ASSUME NEW m, SurfaceOK(m)
    PROVE  KeptBy(m, messageTimeout(m)) /\ Untouched(m, messageTimeout(m))
           /\ messageTimeout(m).state = m.state /\ messageTimeout(m).timer = None
<1> DEFINE s == Send(m, <<DisplayMessage(Blank)>>)
           n == messageTimeout(m)
<1>1. DisplayMessage(Blank) \in Messages
  BY DEF Messages
<1>2. <<DisplayMessage(Blank)>> \in Seq(Messages) /\ m \in Surfaces
  BY <1>1 DEF SurfaceOK
<1>3. /\ s \in Surfaces /\ s.out = m.out \o <<DisplayMessage(Blank)>>
      /\ s.numbers = m.numbers /\ s.values = m.values /\ s.controls = m.controls
      /\ s.selected = m.selected /\ s.active = m.active /\ s.state = m.state
  BY <1>2, SendFields
<1>4. n = [s EXCEPT !.timer = None]
  BY DEF messageTimeout
<1> HIDE DEF s, n
<1>5. /\ n \in Surfaces /\ n.out = m.out \o <<DisplayMessage(Blank)>> /\ n.timer = None
      /\ n.numbers = m.numbers /\ n.values = m.values /\ n.controls = m.controls
      /\ n.selected = m.selected /\ n.active = m.active /\ n.state = m.state
  BY <1>3, <1>4, SurfacesAre DEF Timers
<1>6. SurfaceOK(n)
  BY <1>5 DEF SurfaceOK, Named, Settled, ModifiersOK, HeadStatus
<1>7. InStep(m, n)
  <2>1. Blank = IF n.timer = None THEN Blank ELSE n.timer
    BY <1>5
  <2> QED BY <1>2, <1>5, <2>1, DisplayInStep
<1> QED BY <1>5, <1>6, <1>7 DEF KeptBy, Untouched, n

\* message() shows the text and starts the timer.
LEMMA MessageKept ==
    ASSUME NEW m, SurfaceOK(m), NEW text \in Texts
    PROVE  KeptBy(m, message(m, text)) /\ Untouched(m, message(m, text))
<1> DEFINE t == messageTimeout(m)
           s == Send(t, <<DisplayMessage(text)>>)
           n == message(m, text)
<1>1. SurfaceOK(t) /\ InStep(m, t) /\ t.controls = m.controls /\ Untouched(m, t) /\ t.state = m.state
  BY TimeoutKept DEF KeptBy
<1> HIDE DEF t
<1>2. DisplayMessage(text) \in Messages
  BY DEF Messages
<1>3. <<DisplayMessage(text)>> \in Seq(Messages) /\ m \in Surfaces /\ t \in Surfaces
  BY <1>1, <1>2 DEF SurfaceOK
<1>4. /\ s \in Surfaces /\ s.out = t.out \o <<DisplayMessage(text)>>
      /\ s.numbers = t.numbers /\ s.values = t.values /\ s.controls = t.controls
      /\ s.selected = t.selected /\ s.active = t.active /\ s.state = t.state
  BY <1>3, SendFields
<1>5. n = [s EXCEPT !.timer = text]
  BY DEF message, t
<1> HIDE DEF s, n
<1>6. /\ n \in Surfaces /\ n.out = t.out \o <<DisplayMessage(text)>> /\ n.timer = text
      /\ n.numbers = t.numbers /\ n.values = t.values /\ n.controls = t.controls
      /\ n.selected = t.selected /\ n.active = t.active /\ n.state = t.state
  BY <1>4, <1>5, SurfacesAre DEF Timers
<1>7. SurfaceOK(n)
  BY <1>1, <1>6 DEF SurfaceOK, Named, Settled, ModifiersOK, HeadStatus
<1>8. InStep(t, n)
  <2>1. text # None
    BY SurfaceAssumption DEF None
  <2>2. text = IF n.timer = None THEN Blank ELSE n.timer
    BY <1>6, <2>1
  <2> QED BY <1>3, <1>6, <2>2, DisplayInStep
<1>9. InStep(m, n)
  BY <1>1, <1>3, <1>8, InStepTwice
<1> QED BY <1>1, <1>6, <1>7, <1>9 DEF KeptBy, Untouched, n

\* updateHeadStatus(), whatever head has just been selected or has reported.
LEMMA UpdateKept ==
    ASSUME NEW m \in Surfaces, Named(m), ModifiersOK(m)
    PROVE  KeptBy(m, updateHeadStatus(m)) /\ Untouched(m, updateHeadStatus(m))
<1> DEFINE all == FlattenSeq(Updates(m))
           s == Send(m, all)
           new == [h \in Heads |-> HeadStatus(m, h)]
           n == updateHeadStatus(m)
<1>1. all \in Seq(Messages)
  <2>1. \A d \in Devices : all \in Seq(Messages)
    BY UpdatesLead
  <2>2. \E d : d \in Devices
    <3> DEFINE d == [last |-> ControlChange(0, 0), led |-> [l \in Leds |-> "off"], text |-> Blank]
    <3>1. 0 \in Byte
      BY DEF Byte
    <3>2. ControlChange(0, 0) \in ControlChanges
      BY <3>1, ChangeOf
    <3>3. d \in Devices
      BY <3>2 DEF Devices
    <3> QED BY <3>3
  <2> QED BY <2>1, <2>2
<1>2. n = [s EXCEPT !.state = new]
  BY DEF updateHeadStatus, Updates
<1> HIDE DEF all
<1>3. /\ s \in Surfaces /\ s.out = m.out \o all
      /\ s.numbers = m.numbers /\ s.values = m.values /\ s.controls = m.controls
      /\ s.selected = m.selected /\ s.active = m.active /\ s.timer = m.timer
  BY <1>1, SendFields
<1>4. new \in [Heads -> -1..2]
  BY StatusType DEF Levels
<1> HIDE DEF s, n, new
<1>5. /\ n \in Surfaces /\ n.out = m.out \o all /\ n.state = new /\ n.timer = m.timer
      /\ n.numbers = m.numbers /\ n.values = m.values /\ n.controls = m.controls
      /\ n.selected = m.selected /\ n.active = m.active
  BY <1>2, <1>3, <1>4, SurfacesAre DEF Statuses
<1>6. \A h \in Heads : HeadStatus(n, h) = HeadStatus(m, h) /\ n.state[h] = HeadStatus(m, h)
  BY <1>5 DEF HeadStatus, new
<1>7. SurfaceOK(n)
  BY <1>5, <1>6 DEF SurfaceOK, Named, Settled, ModifiersOK
<1>8. ASSUME NEW d \in Devices, Shows(m, d)
      PROVE  \E e \in Devices : DeviceLeads(d, all, e) /\ Shows(n, e)
  <2>1. PICK e \in Devices :
           /\ DeviceLeads(d, all, e) /\ e.text = d.text
           /\ ~StrayIn(m) /\ HeadsLit(m, d) =>
                /\ \A h \in Heads : h <= 3 => e.led[LedOf(m.controls[h])] = Shown(HeadStatus(m, h))
                /\ \A k \in Modifiers : e.led[LedOf(k)] = d.led[LedOf(k)]
    BY UpdatesLead DEF all
  <2>2. e.text = IF n.timer = None THEN Blank ELSE n.timer
    BY <1>5, <1>8, <2>1 DEF Shows
  <2>3. ~StrayIn(n) => HeadsLit(n, e) /\ KeysLit(n, e)
    BY <1>5, <1>6, <1>8, <2>1 DEF Shows, StrayIn, HeadsLit, KeysLit
  <2> QED BY <2>1, <2>2, <2>3 DEF Shows
<1>9. InStep(m, n)
  BY <1>1, <1>5, <1>8 DEF InStep
<1> QED BY <1>5, <1>7, <1>9 DEF KeptBy, Untouched, n

\* headActive() and headInactive() note the report.
LEMMA ReportKept ==
    ASSUME NEW m, SurfaceOK(m), NEW h \in Heads
    PROVE  /\ KeptBy(m, headActive(m, h)) /\ headActive(m, h).active = m.active \cup {h}
           /\ headActive(m, h).numbers = m.numbers /\ headActive(m, h).values = m.values
           /\ KeptBy(m, headInactive(m, h)) /\ headInactive(m, h).active = m.active \ {h}
           /\ headInactive(m, h).numbers = m.numbers /\ headInactive(m, h).values = m.values
<1>1. m \in Surfaces /\ Named(m) /\ ModifiersOK(m) /\ m.active \subseteq Heads
  BY DEF SurfaceOK, Surfaces
<1>2. KeptBy(m, m)
  BY <1>1, StillInStep DEF KeptBy, Alike
<1>3. ASSUME NEW new \in SUBSET Heads
      PROVE  LET n == updateHeadStatus([m EXCEPT !.active = new])
             IN  KeptBy(m, n) /\ n.active = new /\ n.numbers = m.numbers /\ n.values = m.values
  <2> DEFINE s == [m EXCEPT !.active = new]
             n == updateHeadStatus(s)
  <2>1. s \in Surfaces /\ Named(s) /\ ModifiersOK(s) /\ Alike(m, s)
        /\ s.active = new /\ s.numbers = m.numbers /\ s.values = m.values /\ s.controls = m.controls
    <3>1. new \in HeadSets
      BY DEF HeadSets
    <3>2. /\ s \in Surfaces /\ s.active = new /\ s.numbers = m.numbers /\ s.values = m.values
          /\ s.controls = m.controls /\ s.state = m.state /\ s.timer = m.timer /\ s.out = m.out
      BY <1>1, <3>1, SurfacesAre
    <3> HIDE DEF s
    <3> QED BY <1>1, <3>2 DEF Named, ModifiersOK, Alike
  <2> HIDE DEF s
  <2>2. KeptBy(s, n) /\ Untouched(s, n)
    BY <2>1, UpdateKept
  <2> HIDE DEF n
  <2>3. InStep(m, n)
    BY <2>1, <2>2, AlikeInStep DEF KeptBy
  <2>4. KeptBy(m, n) /\ n.active = new /\ n.numbers = m.numbers /\ n.values = m.values
    BY <2>1, <2>2, <2>3 DEF KeptBy, Untouched
  <2> QED BY <2>4 DEF n, s
<1>4. /\ KeptBy(m, headActive(m, h)) /\ headActive(m, h).active = m.active \cup {h}
      /\ headActive(m, h).numbers = m.numbers /\ headActive(m, h).values = m.values
  <2>1. CASE h \in m.active
    <3>1. headActive(m, h) = m /\ m.active = m.active \cup {h}
      BY <2>1 DEF headActive
    <3> QED BY <1>2, <3>1
  <2>2. CASE h \notin m.active
    <3> DEFINE new == m.active \cup {h}
    <3>1. headActive(m, h) = updateHeadStatus([m EXCEPT !.active = new])
      BY <2>2 DEF headActive
    <3>2. new \in SUBSET Heads
      BY <1>1
    <3> HIDE DEF new
    <3>3. KeptBy(m, headActive(m, h)) /\ headActive(m, h).active = new
          /\ headActive(m, h).numbers = m.numbers /\ headActive(m, h).values = m.values
      BY <1>3, <3>1, <3>2
    <3> QED BY <3>3 DEF new
  <2> QED BY <2>1, <2>2
<1>5. /\ KeptBy(m, headInactive(m, h)) /\ headInactive(m, h).active = m.active \ {h}
      /\ headInactive(m, h).numbers = m.numbers /\ headInactive(m, h).values = m.values
  <2>1. CASE h \notin m.active
    <3>1. headInactive(m, h) = m /\ m.active = m.active \ {h}
      BY <2>1 DEF headInactive
    <3> QED BY <1>2, <3>1
  <2>2. CASE h \in m.active
    <3> DEFINE new == m.active \ {h}
    <3>1. headInactive(m, h) = updateHeadStatus([m EXCEPT !.active = new])
      BY <2>2 DEF headInactive
    <3>2. new \in SUBSET Heads
      BY <1>1
    <3> HIDE DEF new
    <3>3. KeptBy(m, headInactive(m, h)) /\ headInactive(m, h).active = new
          /\ headInactive(m, h).numbers = m.numbers /\ headInactive(m, h).values = m.values
      BY <1>3, <3>1, <3>2
    <3> QED BY <3>3 DEF new
  <2> QED BY <2>1, <2>2
<1> QED BY <1>4, <1>5

\* headSelected() notes the selection.
LEMMA SelectedKept ==
    ASSUME NEW m, SurfaceOK(m), NEW h \in Heads
    PROVE  KeptBy(m, headSelected(m, h)) /\ Untouched(m, headSelected(m, h))
<1> DEFINE s == [m EXCEPT !.selected = h]
           n == headSelected(m, h)
<1>1. m \in Surfaces /\ Named(m) /\ ModifiersOK(m)
  BY DEF SurfaceOK
<1>2. s \in Surfaces /\ Named(s) /\ ModifiersOK(s) /\ Alike(m, s)
      /\ s.active = m.active /\ s.numbers = m.numbers /\ s.values = m.values /\ s.controls = m.controls
  <2>1. h \in Selections
    BY DEF Selections
  <2>2. /\ s \in Surfaces /\ s.active = m.active /\ s.numbers = m.numbers /\ s.values = m.values
        /\ s.controls = m.controls /\ s.state = m.state /\ s.timer = m.timer /\ s.out = m.out
    BY <1>1, <2>1, SurfacesAre
  <2> HIDE DEF s
  <2> QED BY <1>1, <2>2 DEF Named, ModifiersOK, Alike
<1>3. n = updateHeadStatus(s)
  BY DEF headSelected
<1> HIDE DEF s, n
<1>4. KeptBy(s, n) /\ Untouched(s, n)
  BY <1>2, <1>3, UpdateKept
<1>5. InStep(m, n)
  BY <1>2, <1>4, AlikeInStep DEF KeptBy
<1> QED BY <1>2, <1>4, <1>5 DEF KeptBy, Untouched, n

\* What controlChangedData() sends for the modifiers makes their LEDs follow
\* the keys: one that only goes on and off never meets the firmware's gap.
Lit(m) == Send(m, setControl(shiftControl, m.values[shiftControl])
                  \o setControl(escControl, m.values[escControl]))

\* The modifiers are lit when a value has changed.
LEMMA LitKept ==
    ASSUME NEW m, SurfaceOK(m), NEW new \in KeyValues,
           \A k \in Modifiers : new[k] \in {0, 1}
    PROVE  LET n == Lit([m EXCEPT !.values = new])
           IN  KeptBy(m, n) /\ n.numbers = m.numbers /\ n.values = new /\ n.active = m.active
<1> DEFINE x == [m EXCEPT !.values = new]
           shift == setControl(shiftControl, new[shiftControl])
           esc == setControl(escControl, new[escControl])
           n == Lit(x)
<1>1. /\ m \in Surfaces /\ Named(m) /\ Settled(m) /\ \A k \in Modifiers : m.values[k] \in {0, 1}
  BY DEF SurfaceOK, ModifiersOK
<1>2. /\ x \in Surfaces /\ x.out = m.out /\ x.numbers = m.numbers /\ x.values = new
      /\ x.controls = m.controls /\ x.selected = m.selected /\ x.active = m.active
      /\ x.state = m.state /\ x.timer = m.timer
  BY <1>1, SurfacesAre
<1> HIDE DEF x
<1>3. new[shiftControl] \in Levels /\ new[escControl] \in Levels
  BY DEF Modifiers, Levels
<1>4. shift \in Seq(Messages) /\ esc \in Seq(Messages)
  <2> DEFINE d == [last |-> ControlChange(0, 0), led |-> [l \in Leds |-> "off"], text |-> Blank]
  <2>1. 0 \in Byte
    BY DEF Byte
  <2>2. ControlChange(0, 0) \in ControlChanges
    BY <2>1, ChangeOf
  <2>3. d \in Devices
    BY <2>2 DEF Devices
  <2> HIDE DEF d
  <2> QED BY <1>3, <2>3, SetControlLeads
<1> DEFINE ext == shift \o esc
<1>5. ext \in Seq(Messages)
  BY <1>4, ConcatProperties
<1>6. n = Send(x, ext)
  BY <1>2 DEF Lit
<1> HIDE DEF n, shift, esc, ext
<1>7. /\ n \in Surfaces /\ n.out = m.out \o ext /\ n.numbers = m.numbers /\ n.values = new
      /\ n.controls = m.controls /\ n.selected = m.selected /\ n.active = m.active
      /\ n.state = m.state /\ n.timer = m.timer
  <2>1. x \in Surfaces
    BY <1>2
  <2>2. /\ n \in Surfaces /\ n.out = x.out \o ext /\ n.numbers = x.numbers /\ n.values = x.values
        /\ n.controls = x.controls /\ n.selected = x.selected /\ n.active = x.active
        /\ n.state = x.state /\ n.timer = x.timer
    BY <1>5, <1>6, <2>1, SendFields
  <2>3. n.out = m.out \o ext
    BY <1>2, <2>2, Zenon
  <2> QED BY <1>2, <2>2, <2>3
<1>8. SurfaceOK(n)
  BY <1>1, <1>7 DEF SurfaceOK, Named, Settled, ModifiersOK, HeadStatus
<1>9. ASSUME NEW d \in Devices, Shows(m, d)
      PROVE  \E e \in Devices : DeviceLeads(d, ext, e) /\ Shows(n, e)
  <2>1. PICK y \in Devices :
           /\ DeviceLeads(d, shift, y) /\ y.text = d.text
           /\ \A l \in Leds : (shiftControl \in Controls => l # LedOf(shiftControl)) => y.led[l] = d.led[l]
           /\ shiftControl \in Controls /\ switches[shiftControl].led # None
              /\ ~(new[shiftControl] = 1 /\ d.led[LedOf(shiftControl)] = "blink") =>
                 y.led[LedOf(shiftControl)] = Shown(new[shiftControl])
    BY <1>3, SetControlLeads DEF shift
  <2>2. PICK e \in Devices :
           /\ DeviceLeads(y, esc, e) /\ e.text = y.text
           /\ \A l \in Leds : (escControl \in Controls => l # LedOf(escControl)) => e.led[l] = y.led[l]
           /\ escControl \in Controls /\ switches[escControl].led # None
              /\ ~(new[escControl] = 1 /\ y.led[LedOf(escControl)] = "blink") =>
                 e.led[LedOf(escControl)] = Shown(new[escControl])
    BY <1>3, SetControlLeads DEF esc
  <2>3. DeviceLeads(d, ext, e)
    BY <1>4, <2>1, <2>2, LeadsOn DEF DeviceLeads, ext
  <2>4. e.text = IF n.timer = None THEN Blank ELSE n.timer
    BY <1>7, <1>9, <2>1, <2>2 DEF Shows
  <2>5. ASSUME ~StrayIn(n) PROVE HeadsLit(n, e) /\ KeysLit(n, e)
    <3>1. ~StrayIn(m)
      BY <1>7, <2>5 DEF StrayIn
    <3>2. HeadsLit(m, d) /\ KeysLit(m, d)
      BY <1>9, <3>1 DEF Shows
    <3>3. \A k \in Modifiers : d.led[LedOf(k)] # "blink"
      BY <1>1, <3>2 DEF KeysLit, Shown
    <3>4. HeadsLit(n, e)
      <4>1. \A h \in Heads : h <= 3 => e.led[LedOf(m.controls[h])] = d.led[LedOf(m.controls[h])]
        BY <1>1, <2>1, <2>2, LedsApart DEF Modifiers
      <4> QED BY <1>7, <3>2, <4>1 DEF HeadsLit
    <3>5. /\ y.led[LedOf(shiftControl)] = Shown(new[shiftControl])
          /\ y.led[LedOf(escControl)] = d.led[LedOf(escControl)]
      BY <1>1, <2>1, <3>3, LedsApart DEF Modifiers
    <3>6. /\ e.led[LedOf(shiftControl)] = Shown(new[shiftControl])
          /\ e.led[LedOf(escControl)] = Shown(new[escControl])
      BY <1>1, <2>2, <3>3, <3>5, LedsApart DEF Modifiers
    <3>7. KeysLit(n, e)
      BY <1>7, <3>6 DEF KeysLit, Modifiers
    <3> QED BY <3>4, <3>7
  <2> QED BY <2>3, <2>4, <2>5 DEF Shows
<1>10. InStep(m, n)
  BY <1>5, <1>7, <1>9 DEF InStep
<1> QED BY <1>7, <1>8, <1>10 DEF KeptBy, n, x

\* controlValueChanged() notes the value, and may select a head.
LEMMA ChangedKept ==
    ASSUME NEW m, SurfaceOK(m), NEW c \in Controls, NEW val \in {0, 1}
    PROVE  LET n == controlValueChanged(m, c, val)
           IN  /\ KeptBy(m, n) /\ n.numbers = m.numbers /\ n.active = m.active
               /\ n.values = [m.values EXCEPT ![c] = val]
<1> DEFINE new == [m.values EXCEPT ![c] = val]
           x == [m EXCEPT !.values = new]
           lit == Lit(x)
           n == controlValueChanged(m, c, val)
           chosen == {h \in Heads : x.controls[h] = c}
<1>1. m \in Surfaces /\ m.values \in KeyValues /\ ModifiersOK(m)
  BY SurfacesAre DEF SurfaceOK
<1>2. new \in KeyValues /\ \A k \in Modifiers : new[k] \in {0, 1}
  <2>1. val \in Byte /\ \A k \in Modifiers : k \in Controls
    BY DEF Byte, Modifiers, Controls, shiftControl, escControl
  <2> QED BY <1>1, <2>1 DEF ModifiersOK, KeyValues
<1>3. [m EXCEPT !.values[c] = val] = x
  BY <1>1 DEF Surfaces
<1>4. n = IF ~Modified(x) /\ chosen # {} THEN headSelected(lit, Min(chosen)) ELSE lit
  BY <1>3 DEF controlValueChanged, controlChangedData, Lit
<1> HIDE DEF new
<1>5. KeptBy(m, lit) /\ lit.numbers = m.numbers /\ lit.values = new /\ lit.active = m.active
  BY <1>2, LitKept
<1> HIDE DEF lit, n, x
<1>6. CASE ~(~Modified(x) /\ chosen # {})
  <2>1. n = lit
    BY <1>4, <1>6
  <2> QED BY <1>5, <2>1 DEF n, new
<1>7. CASE ~Modified(x) /\ chosen # {}
  <2>1. chosen \subseteq Nat /\ chosen \subseteq Heads
    BY DEF Heads
  <2> HIDE DEF chosen
  <2>2. Min(chosen) \in Heads /\ n = headSelected(lit, Min(chosen))
    BY <1>4, <1>7, <2>1, MinMember
  <2> DEFINE h == Min(chosen)
  <2> HIDE DEF h
  <2>3. h \in Heads /\ n = headSelected(lit, h) /\ SurfaceOK(lit)
    BY <1>5, <2>2 DEF h, KeptBy
  <2>4. KeptBy(lit, n) /\ Untouched(lit, n)
    BY <2>3, SelectedKept
  <2>5. InStep(m, n)
    BY <1>1, <1>5, <2>4, InStepTwice DEF KeptBy
  <2> QED BY <1>5, <2>4, <2>5 DEF KeptBy, Untouched, n, new
<1> QED BY <1>6, <1>7

-----------------------------------------------------------------------------
(***************************************************************************)
(* What the driver makes of the messages it receives.                      *)
(***************************************************************************)
Traffic == ControlChanges \cup Noise
Parsers == [numbers : Pairs, values : KeyValues]
Parser(m) == [numbers |-> m.numbers, values |-> m.values]

Noted(p, number, val) == [numbers |-> <<p.numbers[2], number>>,
                          values |-> [p.values EXCEPT ![0] = p.values[1], ![1] = val]]
Hits(p) == {c \in Controls : /\ Scan(c).numbers = p.numbers /\ Scan(c).zone = p.values[0]
                             /\ p.values[1] \in {Scan(c).pressed, Scan(c).released}}
Level(p, c) == IF p.values[1] = Scan(c).pressed THEN 1 ELSE 0
Fired(p) == IF Hits(p) = {} THEN p
            ELSE [numbers |-> p.numbers, values |-> [p.values EXCEPT ![Min(Hits(p))] = Level(p, Min(Hits(p)))]]
Heard(p, msg) == IF msg.channel = Channel /\ msg.number # SysEx
                 THEN Fired(Noted(p, msg.number, msg.value)) ELSE p
ParserStep == [x \in Parsers \X Traffic |-> Heard(x[1], x[2])]

\* What may be on the wire.
LEMMA TrafficFields ==
    ASSUME NEW msg \in Traffic
    PROVE  /\ msg.value \in Byte
           /\ msg.number # SysEx => msg.number \in Byte
<1>1. CASE msg \in ControlChanges
  BY <1>1, ChangeFields DEF Byte
<1>2. CASE msg \in Noise
  BY <1>2, SurfaceAssumption DEF Byte
<1> QED BY <1>1, <1>2 DEF Traffic

\* The history has room for any message.
LEMMA NotedFields ==
    ASSUME NEW p \in Parsers, NEW number \in Byte, NEW val \in Byte
    PROVE  LET q == Noted(p, number, val)
           IN  /\ q \in Parsers /\ q.numbers = <<p.numbers[2], number>>
               /\ q.values[0] = p.values[1] /\ q.values[1] = val
               /\ \A c \in Controls \ {0, 1} : q.values[c] = p.values[c]
<1> DEFINE q == Noted(p, number, val)
           new == [p.values EXCEPT ![0] = p.values[1], ![1] = val]
           pair == <<p.numbers[2], number>>
<1>1. p.values \in [Controls -> Byte] /\ p.numbers[2] \in Byte /\ 0 \in Controls /\ 1 \in Controls
  <2>1. p.values \in KeyValues /\ p.numbers \in Pairs
    BY DEF Parsers
  <2> QED BY <2>1 DEF KeyValues, Pairs, Controls
<1>2. /\ new \in [Controls -> Byte] /\ new[0] = p.values[1] /\ new[1] = val
      /\ \A c \in Controls \ {0, 1} : new[c] = p.values[c]
  BY <1>1
<1>3. pair \in Byte \X Byte
  BY <1>1
<1>4. q = [numbers |-> pair, values |-> new]
  BY DEF Noted
<1> HIDE DEF new, pair
<1>5. q \in Parsers /\ q.numbers = pair /\ q.values = new
  BY <1>2, <1>3, <1>4 DEF Parsers, Pairs, KeyValues
<1> QED BY <1>2, <1>5 DEF pair

\* The control that is found is one of those that match.
LEMMA HitFound ==
    ASSUME NEW p, Hits(p) # {}
    PROVE  Min(Hits(p)) \in Hits(p) /\ Min(Hits(p)) \in Controls
<1>1. Hits(p) \subseteq Nat /\ Hits(p) \subseteq Controls
  BY DEF Hits, Controls
<1>2. Min(Hits(p)) \in Hits(p)
  BY <1>1, MinMember
<1> QED BY <1>1, <1>2

\* Hearing a message leads from a parser to a parser.
LEMMA HeardType ==
    ASSUME NEW p \in Parsers, NEW msg \in Traffic
    PROVE  Heard(p, msg) \in Parsers /\ ParserStep[<<p, msg>>] = Heard(p, msg)
<1>1. ParserStep[<<p, msg>>] = Heard(p, msg)
  BY DEF ParserStep
<1>2. CASE ~(msg.channel = Channel /\ msg.number # SysEx)
  BY <1>1, <1>2 DEF Heard
<1>3. CASE msg.channel = Channel /\ msg.number # SysEx
  <2> DEFINE q == Noted(p, msg.number, msg.value)
  <2>1. q \in Parsers
    BY <1>3, TrafficFields, NotedFields
  <2>2. Heard(p, msg) = Fired(q)
    BY <1>3 DEF Heard
  <2> HIDE DEF q
  <2>3. CASE Hits(q) = {}
    BY <1>1, <2>1, <2>2, <2>3 DEF Fired
  <2>4. CASE Hits(q) # {}
    <3> DEFINE c == Min(Hits(q))
               v == Level(q, c)
    <3>1. c \in Controls /\ v \in Byte
      BY <2>4, HitFound DEF Level, Byte
    <3>2. Fired(q) = [numbers |-> q.numbers, values |-> [q.values EXCEPT ![c] = v]]
      BY <2>4 DEF Fired
    <3> HIDE DEF c, v
    <3> QED BY <1>1, <2>1, <2>2, <3>1, <3>2 DEF Parsers, KeyValues
  <2> QED BY <2>3, <2>4
<1> QED BY <1>2, <1>3

\* Receive() keeps the surface in step and does to the parser's part of the
\* driver what Heard() says.
LEMMA ReceiveKept ==
    ASSUME NEW m, SurfaceOK(m), NEW msg \in Traffic
    PROVE  /\ KeptBy(m, Receive(m, msg)) /\ Receive(m, msg).active = m.active
           /\ Parser(Receive(m, msg)) = Heard(Parser(m), msg)
           /\ Parser(m) \in Parsers
<1>1. m \in Surfaces /\ Named(m) /\ Settled(m) /\ ModifiersOK(m)
  BY DEF SurfaceOK
<1>2. Parser(m) \in Parsers /\ Parser(m).numbers = m.numbers /\ Parser(m).values = m.values
  BY <1>1, SurfacesAre DEF Parser, Parsers
<1>3. CASE ~(msg.channel = Channel /\ msg.number # SysEx)
  <2>1. Receive(m, msg) = m /\ Heard(Parser(m), msg) = Parser(m)
    BY <1>3 DEF Receive, Heard
  <2>2. InStep(m, m)
    BY <1>1, StillInStep DEF Alike
  <2> QED BY <1>2, <2>1, <2>2 DEF KeptBy
<1>4. CASE msg.channel = Channel /\ msg.number # SysEx
  <2> DEFINE number == msg.number
             val == msg.value
             q == Noted(Parser(m), number, val)
             n == History(m, number, val)
             r == Receive(m, msg)
  <2>1. number \in Byte /\ val \in Byte
    BY <1>4, TrafficFields
  <2>2. /\ q \in Parsers /\ q.values[0] = m.values[1] /\ q.values[1] = val
        /\ \A c \in Controls \ {0, 1} : q.values[c] = m.values[c]
    <3> DEFINE p == Parser(m)
    <3> HIDE DEF p, number, val
    <3>1. p \in Parsers /\ p.values = m.values /\ q = Noted(p, number, val)
      BY <1>2 DEF p
    <3> HIDE DEF q
    <3>2. /\ q \in Parsers /\ q.values[0] = p.values[1] /\ q.values[1] = val
          /\ \A c \in Controls \ {0, 1} : q.values[c] = p.values[c]
      BY <2>1, <3>1, NotedFields
    <3> QED BY <3>1, <3>2
  <2>3. n = [m EXCEPT !.numbers = q.numbers, !.values = q.values]
    <3>1. m.values \in KeyValues
      BY <1>1, SurfacesAre
    <3>2. q.numbers = <<m.numbers[2], number>> /\ q.values = [m.values EXCEPT ![0] = m.values[1], ![1] = val]
      BY <1>2 DEF Noted
    <3>3. n = [m EXCEPT !.numbers = <<m.numbers[2], number>>,
                        !.values = [m.values EXCEPT ![0] = m.values[1], ![1] = val]]
      BY <1>1, <3>1, SurfacesAre DEF History
    <3> QED BY <3>2, <3>3
  <2>4. r = IF Hits(n) = {} THEN n ELSE controlValueChanged(n, Min(Hits(n)), Level(n, Min(Hits(n))))
    BY <1>4, Zenon DEF Receive, midiControlValueChanged, Hits, Level
  <2>5. Heard(Parser(m), msg) = Fired(q)
    BY <1>4 DEF Heard
  <2> HIDE DEF n, q, r, number, val
  <2>6. /\ n \in Surfaces /\ n.numbers = q.numbers /\ n.values = q.values
        /\ n.out = m.out /\ n.controls = m.controls /\ n.selected = m.selected /\ n.active = m.active
        /\ n.state = m.state /\ n.timer = m.timer
    <3>1. q.numbers \in Pairs /\ q.values \in KeyValues
      BY <2>2 DEF Parsers
    <3> QED BY <1>1, <2>3, <3>1, SurfacesAre
  <2>7. \A k \in Modifiers : n.values[k] = m.values[k]
    <3>1. \A k \in Modifiers : k \in Controls \ {0, 1}
      BY DEF Modifiers, Controls, shiftControl, escControl
    <3> QED BY <2>2, <2>6, <3>1
  <2>8. SurfaceOK(n)
    BY <1>1, <2>6, <2>7 DEF SurfaceOK, Named, Settled, ModifiersOK, HeadStatus
  <2>9. Alike(m, n)
    BY <2>6, <2>7 DEF Alike
  <2>10. KeptBy(m, n)
    BY <1>1, <2>6, <2>8, <2>9, StillInStep DEF KeptBy
  <2>11. Hits(n) = Hits(q) /\ (\A c : Level(n, c) = Level(q, c))
    BY <2>6 DEF Hits, Level
  <2>12. CASE Hits(q) = {}
    <3>1. r = n /\ Fired(q) = q
      BY <2>4, <2>11, <2>12 DEF Fired
    <3>2. Parser(n) = q
      BY <2>2, <2>6 DEF Parser, Parsers
    <3> QED BY <1>2, <2>5, <2>6, <2>10, <3>1, <3>2 DEF r
  <2>13. CASE Hits(q) # {}
    <3> DEFINE c == Min(Hits(q))
               v == Level(q, c)
    <3>1. c \in Controls /\ v \in {0, 1}
      BY <2>13, HitFound DEF Level
    <3>2. Fired(q) = [numbers |-> q.numbers, values |-> [q.values EXCEPT ![c] = v]]
      BY <2>13 DEF Fired
    <3>3. r = controlValueChanged(n, c, v)
      BY <2>4, <2>11, <2>13
    <3> HIDE DEF c, v
    <3>4. /\ KeptBy(n, r) /\ r.numbers = n.numbers /\ r.active = n.active
          /\ r.values = [n.values EXCEPT ![c] = v]
      BY <2>8, <3>1, <3>3, ChangedKept
    <3>5. InStep(m, r)
      BY <2>9, <3>4, AlikeInStep DEF KeptBy
    <3>6. Parser(r) = Fired(q)
      BY <2>6, <3>2, <3>4 DEF Parser
    <3> QED BY <1>2, <2>5, <2>6, <3>4, <3>5, <3>6 DEF KeptBy, r
  <2> QED BY <2>12, <2>13
<1> QED BY <1>3, <1>4

\* A control that has a key has a zone.
LEMMA ZoneKnown ==
    ASSUME NEW c \in Controls, switches[c].key # None
    PROVE  switches[c].zone \in 0..11 /\ switches[c].key \in 0..7
<1>1. switches[c] \in Switches /\ switches[c].zone # None
  BY SwitchTypes
<1> QED BY <1>1 DEF Switches, None

\* The messages of a key.
KeyZone(k) == ControlChange(15, switches[k].zone)
KeyCode(k, on) == ControlChange(47, (IF on THEN 64 ELSE 0) + switches[k].key)

\* They can be on the wire.
LEMMA KeyMessages ==
    ASSUME NEW k \in Controls, switches[k].key # None, NEW on \in BOOLEAN
    PROVE  /\ KeyZone(k) \in Traffic /\ KeyZone(k).channel = Channel
           /\ KeyZone(k).number = 15 /\ KeyZone(k).value = switches[k].zone
           /\ KeyCode(k, on) \in Traffic /\ KeyCode(k, on).channel = Channel
           /\ KeyCode(k, on).number = 47
           /\ KeyCode(k, on).value = (IF on THEN 64 ELSE 0) + switches[k].key
           /\ KeyZone(k) \in ControlChanges /\ KeyCode(k, on) \in ControlChanges
<1> DEFINE z == switches[k].zone
           v == (IF on THEN 64 ELSE 0) + switches[k].key
           first == 15
           second == 47
<1>1. z \in Byte /\ v \in Byte /\ first \in Byte /\ second \in Byte
  BY ZoneKnown DEF Byte
<1>2. KeyZone(k) = ControlChange(first, z)
  BY DEF KeyZone
<1>3. KeyCode(k, on) = ControlChange(second, v)
  BY DEF KeyCode
<1> HIDE DEF z, v, first, second
<1>4. KeyZone(k) \in ControlChanges /\ KeyZone(k).number = first /\ KeyZone(k).value = z
  <2>1. /\ ControlChange(first, z) \in ControlChanges
        /\ ControlChange(first, z).number = first /\ ControlChange(first, z).value = z
    BY <1>1, ChangeOf
  <2> QED BY <1>2, <2>1
<1>5. KeyCode(k, on) \in ControlChanges /\ KeyCode(k, on).number = second /\ KeyCode(k, on).value = v
  <2>1. /\ ControlChange(second, v) \in ControlChanges
        /\ ControlChange(second, v).number = second /\ ControlChange(second, v).value = v
    BY <1>1, ChangeOf
  <2> QED BY <1>3, <2>1
<1> QED BY <1>4, <1>5, ChangeFields DEF Traffic, z, v, first, second

\* The scan code of a control with a key, and of one without.
LEMMA ScanOf ==
    ASSUME NEW c \in Controls
    PROVE  /\ switches[c].key = None => Scan(c).numbers = <<0, 0>>
           /\ switches[c].key # None =>
                 /\ Scan(c).numbers = <<15, 47>> /\ Scan(c).zone = switches[c].zone
                 /\ Scan(c).pressed = 64 + switches[c].key /\ Scan(c).released = switches[c].key
BY DEF Scan

\* A key's two messages, heard one after the other, whatever was heard before.
LEMMA PairHeard ==
    ASSUME NEW p \in Parsers, NEW k \in Controls, switches[k].key # None, NEW on \in BOOLEAN
    PROVE  LET q == Heard(Heard(p, KeyZone(k)), KeyCode(k, on))
           IN  /\ q \in Parsers /\ q.values[k] = IF on THEN 1 ELSE 0
               /\ \A c \in Controls \ {0, 1, k} : q.values[c] = p.values[c]
<1> DEFINE a == KeyZone(k)
           b == KeyCode(k, on)
           x == Heard(p, a)
           y == Noted(p, a.number, a.value)
           z == Noted(x, b.number, b.value)
           q == Heard(x, b)
           first == 15
           second == 47
<1>1. /\ a \in Traffic /\ a.channel = Channel /\ a.number = 15 /\ a.value = switches[k].zone
      /\ b \in Traffic /\ b.channel = Channel /\ b.number = 47
      /\ b.value = (IF on THEN 64 ELSE 0) + switches[k].key
  BY KeyMessages
<1>2. /\ switches[k].zone \in 0..11 /\ switches[k].key \in 0..7 /\ a.value \in Byte
      /\ b.value \in Byte /\ first \in Byte /\ second \in Byte
  BY <1>1, ZoneKnown DEF Byte
<1>3. x = Fired(y) /\ q = Fired(z) /\ y = Noted(p, first, a.value) /\ z = Noted(x, second, b.value)
  BY <1>1 DEF Heard, SysEx
<1> HIDE DEF a, b, x, y, z, q, first, second
<1>4. y \in Parsers /\ y.numbers = <<p.numbers[2], first>> /\ y.values[1] = a.value
      /\ \A c \in Controls \ {0, 1} : y.values[c] = p.values[c]
  <2> DEFINE u == a.value
             w == Noted(p, first, u)
  <2>1. u \in Byte /\ first \in Byte
    BY <1>2
  <2>2. y = w /\ u = a.value
    BY <1>3
  <2> HIDE DEF u
  <2>3. w \in Parsers /\ w.numbers = <<p.numbers[2], first>> /\ w.values[1] = u
        /\ \A c \in Controls \ {0, 1} : w.values[c] = p.values[c]
    BY <2>1, NotedFields
  <2> QED BY <2>2, <2>3
<1>5. Hits(y) = {}
  <2>1. \A c \in Controls : Scan(c).numbers # y.numbers
    <3>1. <<p.numbers[2], first>> # <<0, 0>> /\ <<p.numbers[2], first>> # <<15, 47>>
      BY DEF first
    <3> QED BY <1>4, <3>1, ScanOf
  <2> QED BY <2>1 DEF Hits
<1>6. x = y
  BY <1>3, <1>5 DEF Fired
<1>7. /\ z \in Parsers /\ z.numbers = <<x.numbers[2], second>> /\ z.values[0] = x.values[1]
      /\ z.values[1] = b.value /\ \A c \in Controls \ {0, 1} : z.values[c] = x.values[c]
  <2> DEFINE u == b.value
             w == Noted(x, second, u)
  <2>1. u \in Byte /\ second \in Byte /\ x \in Parsers
    BY <1>2, <1>4, <1>6
  <2>2. z = w /\ u = b.value
    BY <1>3
  <2> HIDE DEF u
  <2>3. /\ w \in Parsers /\ w.numbers = <<x.numbers[2], second>> /\ w.values[0] = x.values[1]
        /\ w.values[1] = u /\ \A c \in Controls \ {0, 1} : w.values[c] = x.values[c]
    BY <2>1, NotedFields
  <2> QED BY <2>2, <2>3
<1>8. z.numbers = <<15, 47>> /\ z.values[0] = switches[k].zone
  BY <1>1, <1>4, <1>6, <1>7 DEF first, second
<1>9. ASSUME NEW c \in Controls PROVE c \in Hits(z) <=> c = k
  <2>1. CASE switches[c].key = None
    <3>1. <<0, 0>> # <<15, 47>>
      OBVIOUS
    <3>2. c # k /\ Scan(c).numbers # z.numbers
      BY <1>8, <2>1, <3>1, ScanOf
    <3> QED BY <3>2 DEF Hits
  <2>2. CASE switches[c].key # None
    <3>1. switches[c].key \in 0..7
      BY <2>2, ZoneKnown
    <3>2. c \in Hits(z) <=> /\ switches[c].zone = switches[k].zone
                            /\ b.value \in {64 + switches[c].key, switches[c].key}
      BY <1>7, <1>8, <2>2, ScanOf DEF Hits
    <3>3. b.value \in {64 + switches[c].key, switches[c].key} <=> switches[c].key = switches[k].key
      BY <1>1, <1>2, <3>1
    <3>4. c # k => <<switches[c].zone, switches[c].key>> # <<switches[k].zone, switches[k].key>>
      BY <2>2, CodesDistinct
    <3>5. c # k => ~(switches[c].zone = switches[k].zone /\ switches[c].key = switches[k].key)
      BY <3>4
    <3> QED BY <3>2, <3>3, <3>5
  <2> QED BY <2>1, <2>2
<1>10. Hits(z) = {k}
  BY <1>9 DEF Hits
<1>11. Min(Hits(z)) = k
  BY <1>10, HitFound
<1>12. Level(z, k) = IF on THEN 1 ELSE 0
  BY <1>1, <1>2, <1>7, ScanOf DEF Level
<1> DEFINE v == Level(z, k)
<1>13. q = [numbers |-> z.numbers, values |-> [z.values EXCEPT ![k] = v]]
  BY <1>3, <1>10, <1>11 DEF Fired
<1>14. v \in Byte /\ v = IF on THEN 1 ELSE 0
  BY <1>12 DEF Byte
<1> HIDE DEF v
<1>15. /\ q \in Parsers /\ q.values[k] = IF on THEN 1 ELSE 0
       /\ \A c \in Controls \ {k} : q.values[c] = z.values[c]
  BY <1>7, <1>13, <1>14 DEF Parsers, KeyValues
<1> QED BY <1>4, <1>6, <1>7, <1>15 DEF q, x, a, b

\* Other traffic does not reach the value of a key.
LEMMA NoiseHeard ==
    ASSUME NEW p \in Parsers, NEW msg \in Noise
    PROVE  \A k \in Controls \ {0, 1} : switches[k].key # None => Heard(p, msg).values[k] = p.values[k]
<1>1. CASE ~(msg.channel = Channel /\ msg.number # SysEx)
  BY <1>1 DEF Heard
<1>2. CASE msg.channel = Channel /\ msg.number # SysEx
  <2> DEFINE q == Noted(p, msg.number, msg.value)
             r == Heard(p, msg)
  <2>1. msg.number # 47 /\ msg.number \in Byte /\ msg.value \in Byte
    <3>1. msg.number # 47
      BY <1>2, SurfaceAssumption
    <3>2. msg \in Traffic
      BY DEF Traffic
    <3> QED BY <1>2, <3>1, <3>2, TrafficFields
  <2>2. /\ q \in Parsers /\ q.numbers = <<p.numbers[2], msg.number>>
        /\ \A c \in Controls \ {0, 1} : q.values[c] = p.values[c]
    BY <2>1, NotedFields
  <2>3. r = Fired(q)
    BY <1>2 DEF Heard
  <2> HIDE DEF q, r
  <2>4. CASE Hits(q) = {}
    BY <2>2, <2>3, <2>4 DEF Fired, r
  <2>5. CASE Hits(q) # {}
    <3> DEFINE c == Min(Hits(q))
               v == Level(q, c)
    <3>1. c \in Controls /\ c \in Hits(q)
      BY <2>5, HitFound
    <3>2. r = [numbers |-> q.numbers, values |-> [q.values EXCEPT ![c] = v]]
      BY <2>3, <2>5 DEF Fired
    <3> HIDE DEF c, v
    <3>3. Scan(c).numbers = q.numbers
      BY <3>1 DEF Hits
    <3>4. <<p.numbers[2], msg.number>> # <<15, 47>>
      BY <2>1
    <3>5. switches[c].key = None
      BY <2>2, <3>1, <3>3, <3>4, ScanOf
    <3>6. ASSUME NEW k \in Controls \ {0, 1}, switches[k].key # None PROVE r.values[k] = p.values[k]
      <4>1. k # c
        BY <3>5, <3>6
      <4>2. r.values[k] = q.values[k]
        BY <2>2, <3>2, <4>1 DEF Parsers, KeyValues
      <4> QED BY <2>2, <4>2
    <3> QED BY <3>6 DEF r
  <2> QED BY <2>4, <2>5
<1> QED BY <1>1, <1>2

-----------------------------------------------------------------------------
(***************************************************************************)
(* The inductive invariant: the surface will show what the driver means it *)
(* to show when it has received what is in the queue of the port, the      *)
(* driver will know the keys when it has heard what is on the wire, and    *)
(* the projecting heads when it has handled what is in the event queue.    *)
(***************************************************************************)
KeysAt(p, down) == \A k \in Keys \ {0, 1} : p.values[k] = IF k \in down THEN 1 ELSE 0

Reported(heads, event) == IF event[1] = "active" THEN heads \cup {event[2]}
                          ELSE IF event[1] = "inactive" THEN heads \ {event[2]} ELSE heads
ReportStep == [x \in (SUBSET Heads) \X Events |-> Reported(x[1], x[2])]

WillShow(m, d) == \E e \in Devices : DeviceLeads(d, m.out, e) /\ Shows(m, e)
WillHear(m, w, down) == \E p \in Parsers : Leads(Parsers, ParserStep, Parser(m), w, p) /\ KeysAt(p, down)
WillKnow(m, q, heads) == Leads(SUBSET Heads, ReportStep, m.active, q, heads)

IInv == /\ TypeOK /\ SurfaceOK(mm)
        /\ WillShow(mm, device) /\ WillHear(mm, wire, held) /\ WillKnow(mm, queue, busy)

\* A call that keeps in step keeps the promise.
LEMMA StillWillShow ==
    ASSUME NEW m, SurfaceOK(m), NEW n, InStep(m, n), NEW d, WillShow(m, d)
    PROVE  WillShow(n, d)
<1>1. PICK x \in Devices : DeviceLeads(d, m.out, x) /\ Shows(m, x)
  BY DEF WillShow
<1>2. PICK ext \in Seq(Messages) :
         /\ n.out = m.out \o ext
         /\ \A y \in Devices : Shows(m, y) => \E e \in Devices : DeviceLeads(y, ext, e) /\ Shows(n, e)
  BY DEF InStep
<1>3. PICK e \in Devices : DeviceLeads(x, ext, e) /\ Shows(n, e)
  BY <1>1, <1>2
<1>4. m.out \in Seq(Messages)
  BY DEF SurfaceOK, Surfaces
<1>5. DeviceLeads(d, m.out \o ext, e)
  BY <1>1, <1>3, <1>4, LeadsOn DEF DeviceLeads
<1> QED BY <1>2, <1>3, <1>5 DEF WillShow

\* A message of the queue is received.
LEMMA Transmitted ==
    ASSUME NEW m, SurfaceOK(m), m.out # <<>>, NEW d \in Devices, WillShow(m, d)
    PROVE  LET n == [m EXCEPT !.out = Tail(@)]
           IN  /\ SurfaceOK(n) /\ Parser(n) = Parser(m) /\ n.active = m.active
               /\ Received(d, Head(m.out)) \in Devices /\ WillShow(n, Received(d, Head(m.out)))
<1> DEFINE o == m.out
           rest == Tail(o)
           msg == Head(o)
           n == [m EXCEPT !.out = rest]
<1>1. m \in Surfaces /\ o \in Seq(Messages)
  BY DEF SurfaceOK, Surfaces
<1>2. msg \in Messages /\ rest \in Seq(Messages)
  BY <1>1, HeadTailProperties
<1>3. [m EXCEPT !.out = Tail(@)] = n
  OBVIOUS
<1>4. DeviceStep[<<d, msg>>] = Received(d, msg)
  <2> HIDE DEF msg
  <2> QED BY <1>2 DEF DeviceStep
<1>5. Received(d, msg) \in Devices
  <2> HIDE DEF msg
  <2>1. CASE msg \in ControlChanges
    BY <1>4, <2>1, ReceivesChange
  <2>2. CASE \E text \in {Blank} \cup Texts : msg = DisplayMessage(text)
    <3>1. PICK text \in {Blank} \cup Texts : msg = DisplayMessage(text)
      BY <2>2
    <3>2. DeviceStep[<<d, DisplayMessage(text)>>] \in Devices
      BY ReceivesText
    <3> QED BY <1>4, <3>1, <3>2
  <2> QED BY <1>2, <2>1, <2>2 DEF Messages
<1>6. PICK e \in Devices : DeviceLeads(d, o, e) /\ Shows(m, e)
  BY DEF WillShow
<1>7. DeviceLeads(DeviceStep[<<d, msg>>], rest, e)
  BY <1>1, <1>6, LeadsFurther DEF DeviceLeads
<1> HIDE DEF rest, msg
<1>8. /\ n \in Surfaces /\ n.out = rest /\ n.numbers = m.numbers /\ n.values = m.values
      /\ n.controls = m.controls /\ n.selected = m.selected /\ n.active = m.active
      /\ n.state = m.state /\ n.timer = m.timer
  <2>1. rest \in Outputs
    BY <1>2 DEF Outputs
  <2> QED BY <1>1, <2>1, SurfacesAre
<1> HIDE DEF n
<1>9. SurfaceOK(n)
  BY <1>8 DEF SurfaceOK, Named, Settled, ModifiersOK, HeadStatus
<1>10. Shows(n, e)
  BY <1>6, <1>8 DEF Shows, StrayIn, HeadsLit, KeysLit
<1>11. WillShow(n, Received(d, msg))
  BY <1>4, <1>6, <1>7, <1>8, <1>10 DEF WillShow
<1>12. Parser(n) = Parser(m)
  BY <1>8 DEF Parser
<1> QED BY <1>3, <1>5, <1>8, <1>9, <1>11, <1>12 DEF msg, n, rest

\* The driver does not listen to what others say between two messages.
LEMMA ForeignHeard ==
    ASSUME NEW p \in Parsers, NEW other \in Between
    PROVE  other \in Seq(Traffic) /\ Leads(Parsers, ParserStep, p, other, p)
<1>1. CASE other = <<>>
  BY <1>1, LeadsNowhere
<1>2. CASE \E msg \in Foreign : other = <<msg>>
  <2>1. PICK msg \in Foreign : other = <<msg>>
    BY <1>2
  <2>2. msg \in Traffic /\ Heard(p, msg) = p
    BY DEF Foreign, Traffic, Heard
  <2>3. ParserStep[<<p, msg>>] = p
    BY <2>2, HeardType
  <2>4. Leads(Parsers, ParserStep, p, <<msg>>, p)
    <3>1. ParserStep[<<p, msg>>] \in Parsers
      BY <2>3
    <3>2. Leads(Parsers, ParserStep, p, <<msg>>, ParserStep[<<p, msg>>])
      BY <3>1, LeadsOne
    <3> QED BY <2>3, <3>2
  <2> QED BY <2>1, <2>2, <2>4
<1> QED BY <1>1, <1>2 DEF Between

\* A key is pressed or released: its messages are heard after the others.
LEMMA KeyWillBeHeard ==
    ASSUME NEW m, NEW w \in Seq(Traffic), NEW down, NEW k \in Keys, NEW on \in BOOLEAN,
           WillHear(m, w, down)
    PROVE  \A other \in Between :
              /\ <<KeyZone(k)>> \o other \o <<KeyCode(k, on)>> \in Seq(Traffic)
              /\ WillHear(m, w \o (<<KeyZone(k)>> \o other \o <<KeyCode(k, on)>>),
                          IF on THEN down \cup {k} ELSE down \ {k})
<1> DEFINE a == KeyZone(k)
           b == KeyCode(k, on)
           now == IF on THEN down \cup {k} ELSE down \ {k}
<1>1. k \in Controls /\ switches[k].key # None /\ Keys \subseteq Controls
  BY SurfaceAssumption
<1>2. a \in Traffic /\ b \in Traffic
  BY <1>1, KeyMessages
<1>3. PICK p \in Parsers : Leads(Parsers, ParserStep, Parser(m), w, p) /\ KeysAt(p, down)
  BY DEF WillHear
<1> DEFINE x == Heard(p, a)
           q == Heard(x, b)
<1>4. /\ q \in Parsers /\ q.values[k] = IF on THEN 1 ELSE 0
      /\ \A c \in Controls \ {0, 1, k} : q.values[c] = p.values[c]
  BY <1>1, PairHeard
<1> HIDE DEF a, b
<1>5. x \in Parsers /\ x = ParserStep[<<p, a>>]
  BY <1>2, HeardType
<1> HIDE DEF x
<1>6. q = ParserStep[<<x, b>>]
  BY <1>2, <1>5, HeardType
<1> HIDE DEF q
<1>7. Leads(Parsers, ParserStep, p, <<a>>, x) /\ Leads(Parsers, ParserStep, x, <<b>>, q)
  BY <1>4, <1>5, <1>6, LeadsOne
<1>8. KeysAt(q, now)
  BY <1>1, <1>3, <1>4 DEF KeysAt
<1>9. ASSUME NEW other \in Between
      PROVE  LET typed == <<a>> \o other \o <<b>>
             IN  typed \in Seq(Traffic) /\ WillHear(m, w \o typed, now)
  <2>1. other \in Seq(Traffic) /\ Leads(Parsers, ParserStep, x, other, x)
    BY <1>5, ForeignHeard
  <2>2. <<a>> \in Seq(Traffic) /\ <<b>> \in Seq(Traffic)
    BY <1>2
  <2> DEFINE start == <<a>> \o other
             end == <<b>>
             typed == start \o end
  <2>3. start \in Seq(Traffic) /\ Leads(Parsers, ParserStep, p, start, x)
    BY <1>7, <2>1, <2>2, LeadsOn, ConcatProperties
  <2>4. end \in Seq(Traffic) /\ Leads(Parsers, ParserStep, x, end, q)
    BY <1>7, <2>2
  <2> HIDE DEF start, end
  <2>5. typed \in Seq(Traffic) /\ Leads(Parsers, ParserStep, p, typed, q)
    BY <2>3, <2>4, LeadsOn, ConcatProperties
  <2> HIDE DEF typed
  <2>6. Leads(Parsers, ParserStep, Parser(m), w \o typed, q)
    BY <1>3, <2>5, LeadsOn
  <2>7. WillHear(m, w \o typed, now)
    BY <1>4, <1>8, <2>6 DEF WillHear
  <2> QED BY <2>5, <2>7 DEF typed, start, end
<1> QED BY <1>9 DEF a, b

\* Other traffic leaves what is known of the keys.
LEMMA NoiseWillBeHeard ==
    ASSUME NEW m, NEW w \in Seq(Traffic), NEW down, NEW msg \in Noise, WillHear(m, w, down)
    PROVE  <<msg>> \in Seq(Traffic) /\ WillHear(m, w \o <<msg>>, down)
<1>1. msg \in Traffic
  BY DEF Traffic
<1>2. PICK p \in Parsers : Leads(Parsers, ParserStep, Parser(m), w, p) /\ KeysAt(p, down)
  BY DEF WillHear
<1> DEFINE q == ParserStep[<<p, msg>>]
<1>3. q \in Parsers /\ q = Heard(p, msg)
  BY <1>1, HeardType
<1>4. \A k \in Keys \ {0, 1} : q.values[k] = p.values[k]
  BY <1>3, NoiseHeard, SurfaceAssumption
<1>5. Leads(Parsers, ParserStep, p, <<msg>>, q)
  BY <1>3, LeadsOne
<1> HIDE DEF q
<1>6. <<msg>> \in Seq(Traffic)
  BY <1>1
<1>7. Leads(Parsers, ParserStep, Parser(m), w \o <<msg>>, q)
  BY <1>2, <1>5, <1>6, LeadsOn
<1>8. KeysAt(q, down)
  BY <1>2, <1>4 DEF KeysAt
<1> QED BY <1>3, <1>6, <1>7, <1>8 DEF WillHear

\* An event is queued.
LEMMA EventWillBeKnown ==
    ASSUME NEW m, NEW q \in Seq(Events), NEW heads \in SUBSET Heads, NEW event \in Events,
           WillKnow(m, q, heads)
    PROVE  Append(q, event) \in Seq(Events) /\ WillKnow(m, Append(q, event), Reported(heads, event))
<1> DEFINE now == ReportStep[<<heads, event>>]
<1>1. now = Reported(heads, event)
  BY DEF ReportStep
<1>2. now \in SUBSET Heads
  <2>1. event[1] = "active" => event[2] \in Heads
    BY SurfaceAssumption DEF Events
  <2> HIDE DEF now
  <2> QED BY <1>1, <2>1 DEF Reported
<1>3. Leads(SUBSET Heads, ReportStep, heads, <<event>>, now)
  BY <1>2, LeadsOne
<1> HIDE DEF now
<1>4. <<event>> \in Seq(Events)
  OBVIOUS
<1>5. Leads(SUBSET Heads, ReportStep, m.active, q \o <<event>>, now)
  BY <1>3, <1>4, LeadsOn DEF WillKnow
<1>6. Append(q, event) = q \o <<event>>
  BY AppendIsConcat
<1>7. Append(q, event) \in Seq(Events)
  BY AppendProperties
<1>8. Leads(SUBSET Heads, ReportStep, m.active, Append(q, event), now)
  BY <1>5, <1>6, Zenon
<1> QED BY <1>1, <1>7, <1>8 DEF WillKnow

-----------------------------------------------------------------------------
\* When the port is opened nothing is lit, down or due.
LEMMA InitInv == Init => IInv
<1> SUFFICES ASSUME Init PROVE IInv
  OBVIOUS
<1>1. PICK g \in [{h \in Heads : h > 3} -> Garbage] :
         mm = NewSurface([h \in Heads |-> IF h > 3 THEN g[h] ELSE NamedHeadControls[h]])
  BY DEF Init
<1> DEFINE ctl == [h \in Heads |-> IF h > 3 THEN g[h] ELSE NamedHeadControls[h]]
<1>2. /\ enabled = FALSE /\ wire = <<>> /\ queue = <<>> /\ busy = {} /\ held = {}
      /\ device = [last |-> ControlChange(0, 0), led |-> [l \in Leds |-> "off"], text |-> Blank]
  BY DEF Init, PortOpened
<1>3. ASSUME NEW h \in Heads PROVE ctl[h] \in Int /\ (h <= 3 => ctl[h] = 78 + h)
  <2>1. CASE h > 3
    <3>1. h \in {x \in Heads : x > 3} /\ h \in Int
      BY <2>1 DEF Heads
    <3>2. ctl[h] = g[h] /\ g[h] \in Garbage
      BY <2>1, <3>1
    <3>3. ~(h <= 3)
      BY <2>1, <3>1
    <3> QED BY <3>2, <3>3, SurfaceAssumption
  <2>2. CASE h <= 3
    <3>1. h \in 0..3 /\ ~(h > 3)
      BY <2>2, MotorMixAssumption DEF Heads
    <3> QED BY <3>1 DEF NamedHeadControls
  <2> QED BY <2>1, <2>2, MotorMixAssumption DEF Heads
<1>4. ctl \in [Heads -> Int]
  BY <1>3
<1>5. /\ mm = [numbers |-> <<0, 0>>, values |-> [c \in Controls |-> 0],
               controls |-> ctl, selected |-> None, active |-> {},
               state |-> [h \in Heads |-> -1], timer |-> None, out |-> <<>>]
      /\ \A h \in Heads : h <= 3 => ctl[h] = 78 + h
  BY <1>1, <1>3 DEF NewSurface
<1> HIDE DEF ctl
<1>6. /\ mm.numbers = <<0, 0>> /\ mm.values = [c \in Controls |-> 0] /\ mm.controls = ctl
      /\ mm.selected = None /\ mm.active = {} /\ mm.state = [h \in Heads |-> -1]
      /\ mm.timer = None /\ mm.out = <<>>
  BY <1>5
<1>7. mm \in Surfaces
  <2>1. <<0, 0>> \in Byte \X Byte /\ <<>> \in Seq(Messages)
    BY DEF Byte
  <2>2. [c \in Controls |-> 0] \in [Controls -> Byte] /\ [h \in Heads |-> -1] \in [Heads -> -1..2]
    BY DEF Byte
  <2> DEFINE vals == [c \in Controls |-> 0]
             sent == [h \in Heads |-> -1]
             nums == <<0, 0>>
             out == <<>>
  <2>3. mm = [numbers |-> nums, values |-> vals, controls |-> ctl, selected |-> None, active |-> {},
              state |-> sent, timer |-> None, out |-> out]
    BY <1>5
  <2>4. /\ vals \in [Controls -> Byte] /\ sent \in [Heads -> -1..2]
        /\ nums \in Byte \X Byte /\ out \in Seq(Messages)
    BY <2>1, <2>2
  <2> HIDE DEF vals, sent, nums, out
  <2> QED BY <1>4, <2>3, <2>4 DEF Surfaces
<1>8. device \in Devices
  <2>1. 0 \in Byte
    BY DEF Byte
  <2>2. ControlChange(0, 0) \in ControlChanges
    BY <2>1, ChangeOf
  <2> QED BY <1>2, <2>2 DEF Devices
<1>9. TypeOK
  <2>1. wire \in Seq(ControlChanges \cup Noise) /\ Len(wire) <= MaxWire
    BY <1>2, SurfaceAssumption
  <2>2. queue \in Seq(Events) /\ Len(queue) <= MaxQueue
    BY <1>2, SurfaceAssumption
  <2> QED BY <1>2, <1>7, <1>8, <2>1, <2>2 DEF TypeOK
<1>10. \A h \in Heads : mm.state[h] = -1 /\ HeadStatus(mm, h) = 0
  BY <1>6 DEF HeadStatus, None, Heads
<1>11. \A k \in Modifiers : k \in Controls /\ mm.values[k] = 0
  <2>1. \A k \in Modifiers : k \in Controls
    BY DEF Modifiers, Controls, shiftControl, escControl
  <2>2. \A k \in Controls : mm.values[k] = 0
    BY <1>6
  <2> QED BY <2>1, <2>2
<1>12. SurfaceOK(mm)
  BY <1>5, <1>6, <1>7, <1>10, <1>11 DEF SurfaceOK, Named, Settled, ModifiersOK
<1>13. WillShow(mm, device)
  <2>1. Named(mm)
    BY <1>12 DEF SurfaceOK
  <2>2. HeadsLit(mm, device)
    BY <1>2, <1>10, <2>1, LedsApart DEF HeadsLit, Shown
  <2>3. KeysLit(mm, device)
    BY <1>2, <1>11, <2>1, LedsApart DEF KeysLit, Shown
  <2>4. device.text = IF mm.timer = None THEN Blank ELSE mm.timer
    BY <1>2, <1>6
  <2>5. DeviceLeads(device, <<>>, device)
    BY <1>8, LeadsNowhere DEF DeviceLeads
  <2> QED BY <1>6, <1>8, <2>2, <2>3, <2>4, <2>5 DEF WillShow, Shows
<1>14. WillHear(mm, wire, held)
  <2>1. Parser(mm) \in Parsers /\ Parser(mm).values = mm.values
    BY <1>7, SurfacesAre DEF Parser, Parsers
  <2>2. Leads(Parsers, ParserStep, Parser(mm), <<>>, Parser(mm))
    BY <2>1, LeadsNowhere
  <2>3. KeysAt(Parser(mm), {})
    BY <1>6, <2>1, SurfaceAssumption DEF KeysAt
  <2> QED BY <1>2, <2>1, <2>2, <2>3 DEF WillHear
<1>15. WillKnow(mm, queue, busy)
  <2>1. {} \in SUBSET Heads
    OBVIOUS
  <2> QED BY <1>2, <1>6, <2>1, LeadsNowhere DEF WillKnow
<1> QED BY <1>9, <1>12, <1>13, <1>14, <1>15 DEF IInv

-----------------------------------------------------------------------------
\* The user's side: a key.
LEMMA KeyInv ==
    ASSUME IInv, NEW k \in Keys, Press(k) \/ Release(k)
    PROVE  IInv'
<1>1. PICK on \in BOOLEAN : IF on THEN Press(k) ELSE Release(k)
  BY Zenon
<1> DEFINE code == (IF on THEN 64 ELSE 0) + switches[k].key
           now == IF on THEN held \cup {k} ELSE held \ {k}
<1>2. k \in Controls /\ switches[k].key # None /\ switches[k].key \in Int
  BY SurfaceAssumption, ZoneKnown
<1>3. TypesKey(k, code) /\ held' = now /\ UNCHANGED <<mm, enabled, queue, busy, device>>
  <2>1. CASE on
    <3>1. code = 64 + switches[k].key
      BY <2>1
    <3>2. Press(k)
      BY <1>1, <2>1
    <3> HIDE DEF code
    <3> QED BY <2>1, <3>1, <3>2, Zenon DEF Press
  <2>2. CASE ~on
    <3>1. code = switches[k].key
      BY <1>2, <2>2
    <3>2. Release(k)
      BY <1>1, <2>2
    <3> HIDE DEF code
    <3> QED BY <2>2, <3>1, <3>2, Zenon DEF Release
  <2> QED BY <2>1, <2>2
<1>4. wire \in Seq(Traffic) /\ TypeOK
  BY DEF IInv, TypeOK, Traffic
<1>5. PICK other \in Between : Types(<<KeyZone(k)>> \o other \o <<KeyCode(k, on)>>)
  BY <1>3 DEF TypesKey, KeyZone, KeyCode
<1> DEFINE pair == <<KeyZone(k)>> \o other \o <<KeyCode(k, on)>>
<1>6. pair \in Seq(Traffic) /\ WillHear(mm, wire \o pair, now)
  BY <1>4, KeyWillBeHeard DEF IInv
<1>7. wire' = wire \o pair /\ Len(wire) + Len(pair) <= MaxWire
  BY <1>5 DEF Types
<1> HIDE DEF pair, now
<1>8. wire \o pair \in Seq(Traffic) /\ Len(wire \o pair) = Len(wire) + Len(pair)
  BY <1>4, <1>6, ConcatProperties
<1>9. wire' \in Seq(Traffic) /\ Len(wire') <= MaxWire
  BY <1>7, <1>8
<1>10. held' \subseteq Keys
  BY <1>3, <1>4 DEF TypeOK, now
<1>11. TypeOK'
  BY <1>3, <1>4, <1>9, <1>10 DEF TypeOK, Traffic
<1>12. WillHear(mm, wire, held)'
  BY <1>3, <1>6, <1>7 DEF WillHear
<1>13. (SurfaceOK(mm) /\ WillShow(mm, device) /\ WillKnow(mm, queue, busy))'
  BY <1>3 DEF IInv
<1> QED BY <1>11, <1>12, <1>13 DEF IInv

\* Something else on the cable.
LEMMA TrafficInv == ASSUME IInv, OtherTraffic PROVE IInv'
<1>1. PICK msg \in Noise : Types(<<msg>>)
  BY DEF OtherTraffic
<1>2. UNCHANGED <<mm, enabled, queue, busy, held, device>>
  BY DEF OtherTraffic
<1>3. wire \in Seq(Traffic) /\ TypeOK
  BY DEF IInv, TypeOK, Traffic
<1> DEFINE one == <<msg>>
<1>4. one \in Seq(Traffic) /\ WillHear(mm, wire \o one, held)
  BY <1>3, NoiseWillBeHeard DEF IInv
<1>5. wire' = wire \o one /\ Len(wire) + Len(one) <= MaxWire
  BY <1>1 DEF Types
<1> HIDE DEF one
<1>6. wire \o one \in Seq(Traffic) /\ Len(wire \o one) = Len(wire) + Len(one)
  BY <1>3, <1>4, ConcatProperties
<1>7. wire' \in Seq(Traffic) /\ Len(wire') <= MaxWire
  BY <1>5, <1>6
<1>8. TypeOK'
  BY <1>2, <1>3, <1>7 DEF TypeOK, Traffic
<1>9. WillHear(mm, wire, held)'
  BY <1>2, <1>4, <1>5 DEF WillHear
<1>10. (SurfaceOK(mm) /\ WillShow(mm, device) /\ WillKnow(mm, queue, busy))'
  BY <1>2 DEF IInv
<1> QED BY <1>8, <1>9, <1>10 DEF IInv

\* An event is queued for the engine's thread.
LEMMA QueuedInv ==
    ASSUME IInv, NEW event \in Events, Queued(event), busy' = Reported(busy, event),
           UNCHANGED <<mm, enabled, wire, held, device>>
    PROVE  IInv'
<1>1. TypeOK /\ queue \in Seq(Events) /\ busy \in SUBSET Heads
  BY SurfaceAssumption DEF IInv, TypeOK
<1>2. Append(queue, event) \in Seq(Events) /\ WillKnow(mm, Append(queue, event), Reported(busy, event))
  BY <1>1, EventWillBeKnown DEF IInv
<1>3. queue' = Append(queue, event) /\ Len(queue) < MaxQueue
  BY DEF Queued, Room
<1>4. Len(queue') <= MaxQueue
  <2>1. Len(queue') = Len(queue) + 1 /\ Len(queue) \in Nat
    BY <1>1, <1>3, AppendProperties
  <2> QED BY <1>3, <2>1, SurfaceAssumption
<1>5. busy' \subseteq Reporting
  <2>1. event[1] = "active" => event[2] \in Reporting
    BY DEF Events
  <2> QED BY <1>1, <2>1 DEF TypeOK, Reported
<1>6. TypeOK'
  BY <1>1, <1>2, <1>3, <1>4, <1>5 DEF TypeOK
<1>7. WillKnow(mm, queue, busy)'
  BY <1>2, <1>3 DEF WillKnow
<1>8. (SurfaceOK(mm) /\ WillShow(mm, device) /\ WillHear(mm, wire, held))'
  BY DEF IInv
<1> QED BY <1>6, <1>7, <1>8 DEF IInv

\* The events of the heads, the window and the engine.
LEMMA EventsInv ==
    ASSUME IInv, Say \/ \E h \in Reporting : SelectHead(h) \/ \E on \in BOOLEAN : HeadReports(h, on)
    PROVE  IInv'
<1>1. CASE Say
  <2>0. PICK text \in Texts : Queued(<<"message", text>>)
    BY <1>1 DEF Say
  <2> DEFINE event == <<"message", text>>
  <2>1. event \in Events
    BY DEF Events
  <2>2. Reported(busy, event) = busy
    BY DEF Reported
  <2> HIDE DEF event
  <2> QED BY <1>1, <2>0, <2>1, <2>2, QueuedInv DEF Say, event
<1>2. CASE \E h \in Reporting : SelectHead(h)
  <2>1. PICK h \in Reporting : SelectHead(h)
    BY <1>2
  <2> DEFINE event == <<"select", h>>
  <2>2. event \in Events
    BY DEF Events
  <2>3. Reported(busy, event) = busy
    BY DEF Reported
  <2> HIDE DEF event
  <2> QED BY <2>1, <2>2, <2>3, QueuedInv DEF SelectHead, event
<1>3. CASE \E h \in Reporting, on \in BOOLEAN : HeadReports(h, on)
  <2>1. PICK h \in Reporting, on \in BOOLEAN : HeadReports(h, on)
    BY <1>3
  <2> DEFINE event == <<IF on THEN "active" ELSE "inactive", h>>
  <2>2. event \in Events
    BY DEF Events
  <2>3. Reported(busy, event) = IF on THEN busy \cup {h} ELSE busy \ {h}
    BY DEF Reported
  <2>4. Queued(event) /\ busy' = Reported(busy, event) /\ UNCHANGED <<mm, enabled, wire, held, device>>
    BY <2>1, <2>3, Zenon DEF HeadReports
  <2> HIDE DEF event
  <2> QED BY <2>2, <2>4, QueuedInv
<1> QED BY <1>1, <1>2, <1>3

\* A handler has run: what it sent keeps the surface in step.
LEMMA HandledInv ==
    ASSUME IInv, NEW n, Handled(n), KeptBy(mm, n)
    PROVE  /\ mm' = n /\ device' = device /\ enabled' \in BOOLEAN
           /\ mm' \in Surfaces /\ SurfaceOK(mm)' /\ WillShow(mm, device)'
<1>1. mm' = n /\ device' = device
  BY DEF Handled
<1>2. enabled' \in BOOLEAN
  BY Zenon DEF Handled
<1>3. SurfaceOK(n) /\ n \in Surfaces
  BY DEF KeptBy, SurfaceOK
<1>4. WillShow(n, device)
  BY StillWillShow DEF IInv, KeptBy
<1> QED BY <1>1, <1>2, <1>3, <1>4

\* A message is read and parsed.
LEMMA ReadInv == ASSUME IInv, readAvailable PROVE IInv'
<1> DEFINE msg == Head(wire)
           n == Receive(mm, msg)
<1>1. /\ wire # <<>> /\ wire' = Tail(wire) /\ Handled(n) /\ UNCHANGED <<queue, busy, held>>
  BY DEF readAvailable
<1>2. wire \in Seq(Traffic) /\ TypeOK /\ Len(wire) <= MaxWire /\ SurfaceOK(mm)
  BY DEF IInv, TypeOK, Traffic
<1>3. msg \in Traffic /\ Tail(wire) \in Seq(Traffic) /\ Len(Tail(wire)) = Len(wire) - 1
  BY <1>1, <1>2, HeadTailProperties
<1>4. Len(wire') <= MaxWire
  <2>1. Len(wire) \in Nat
    BY <1>2
  <2> QED BY <1>1, <1>2, <1>3, <2>1, SurfaceAssumption
<1>5. PICK p \in Parsers : Leads(Parsers, ParserStep, Parser(mm), wire, p) /\ KeysAt(p, held)
  BY DEF IInv, WillHear
<1>6. Leads(Parsers, ParserStep, ParserStep[<<Parser(mm), msg>>], Tail(wire), p)
  BY <1>1, <1>2, <1>5, LeadsFurther
<1> HIDE DEF msg
<1>7. KeptBy(mm, n) /\ n.active = mm.active /\ Parser(n) = Heard(Parser(mm), msg) /\ Parser(mm) \in Parsers
  BY <1>2, <1>3, ReceiveKept
<1>8. ParserStep[<<Parser(mm), msg>>] = Heard(Parser(mm), msg)
  BY <1>3, <1>7, HeardType
<1> HIDE DEF n
<1>9. /\ mm' = n /\ device' = device /\ enabled' \in BOOLEAN
      /\ mm' \in Surfaces /\ SurfaceOK(mm)' /\ WillShow(mm, device)'
  BY <1>1, <1>7, HandledInv
<1>10. TypeOK'
  <2>1. wire' \in Seq(Traffic)
    BY <1>1, <1>3
  <2> QED BY <1>1, <1>2, <1>4, <1>9, <2>1 DEF TypeOK, Traffic
<1>11. WillHear(mm, wire, held)'
  <2>1. WillHear(n, Tail(wire), held)
    BY <1>5, <1>6, <1>7, <1>8 DEF WillHear
  <2> QED BY <1>1, <1>9, <2>1
<1>12. WillKnow(mm, queue, busy)'
  <2>1. WillKnow(n, queue, busy)
    BY <1>7 DEF WillKnow, IInv
  <2> QED BY <1>1, <1>9, <2>1
<1> QED BY <1>9, <1>10, <1>11, <1>12 DEF IInv

\* An event is handled.
LEMMA EventInv == ASSUME IInv, EngineEvent PROVE IInv'
<1> DEFINE event == Head(queue)
           kind == event[1]
           arg == event[2]
           n == CASE kind = "active" -> headActive(mm, arg)
                  [] kind = "inactive" -> headInactive(mm, arg)
                  [] kind = "select" -> headSelected(mm, arg)
                  [] kind = "message" -> message(mm, arg)
<1>1. /\ queue # <<>> /\ queue' = Tail(queue) /\ Handled(n) /\ UNCHANGED <<wire, busy, held>>
  BY DEF EngineEvent
<1>2. queue \in Seq(Events) /\ TypeOK /\ Len(queue) <= MaxQueue /\ SurfaceOK(mm) /\ mm.active \subseteq Heads
  BY DEF IInv, TypeOK, SurfaceOK, Surfaces
<1>3. event \in Events /\ Tail(queue) \in Seq(Events) /\ Len(Tail(queue)) = Len(queue) - 1
  BY <1>1, <1>2, HeadTailProperties
<1>4. Len(queue') <= MaxQueue
  <2>1. Len(queue) \in Nat
    BY <1>2
  <2> QED BY <1>1, <1>2, <1>3, <2>1, SurfaceAssumption
<1>5. Leads(SUBSET Heads, ReportStep, ReportStep[<<mm.active, event>>], Tail(queue), busy)
  BY <1>1, <1>2, LeadsFurther DEF IInv, WillKnow
<1> HIDE DEF event
<1>6. \/ kind \in {"active", "inactive", "select"} /\ arg \in Heads
      \/ kind = "message" /\ arg \in Texts
  BY <1>3, SurfaceAssumption DEF Events
<1>7. ReportStep[<<mm.active, event>>] = Reported(mm.active, event)
  BY <1>2, <1>3 DEF ReportStep
<1>8. Reported(mm.active, event) = IF kind = "active" THEN mm.active \cup {arg}
                                   ELSE IF kind = "inactive" THEN mm.active \ {arg} ELSE mm.active
  BY DEF Reported
<1> HIDE DEF kind, arg
<1>9. /\ KeptBy(mm, n) /\ n.active = Reported(mm.active, event)
      /\ n.numbers = mm.numbers /\ n.values = mm.values
  <2>1. CASE kind = "active" /\ arg \in Heads
    <3>1. n = headActive(mm, arg)
      BY <2>1
    <3> HIDE DEF n
    <3> QED BY <1>2, <1>8, <2>1, <3>1, ReportKept
  <2>2. CASE kind = "inactive" /\ arg \in Heads
    <3>1. n = headInactive(mm, arg)
      BY <2>2
    <3> HIDE DEF n
    <3> QED BY <1>2, <1>8, <2>2, <3>1, ReportKept
  <2>3. CASE kind = "select" /\ arg \in Heads
    <3>1. n = headSelected(mm, arg)
      BY <2>3
    <3> HIDE DEF n
    <3> QED BY <1>2, <1>8, <2>3, <3>1, SelectedKept DEF Untouched
  <2>4. CASE kind = "message" /\ arg \in Texts
    <3>1. n = message(mm, arg)
      BY <2>4
    <3> HIDE DEF n
    <3> QED BY <1>2, <1>8, <2>4, <3>1, MessageKept DEF Untouched
  <2> QED BY <1>6, <2>1, <2>2, <2>3, <2>4
<1> HIDE DEF n
<1>10. /\ mm' = n /\ device' = device /\ enabled' \in BOOLEAN
       /\ mm' \in Surfaces /\ SurfaceOK(mm)' /\ WillShow(mm, device)'
  BY <1>1, <1>9, HandledInv
<1>11. TypeOK'
  BY <1>1, <1>2, <1>3, <1>4, <1>10 DEF TypeOK
<1>12. WillHear(mm, wire, held)'
  <2>1. WillHear(n, wire, held)
    BY <1>9 DEF WillHear, IInv, Parser
  <2> QED BY <1>1, <1>10, <2>1
<1>13. WillKnow(mm, queue, busy)'
  <2>1. WillKnow(n, Tail(queue), busy)
    BY <1>5, <1>7, <1>9 DEF WillKnow
  <2> QED BY <1>1, <1>10, <2>1
<1> QED BY <1>10, <1>11, <1>12, <1>13 DEF IInv

\* The message timer fires.
LEMMA TimeoutInv == ASSUME IInv, Timeout PROVE IInv'
<1> DEFINE n == messageTimeout(mm)
<1>1. Handled(n) /\ UNCHANGED <<wire, queue, busy, held>>
  BY DEF Timeout
<1>2. SurfaceOK(mm) /\ TypeOK
  BY DEF IInv
<1>3. KeptBy(mm, n) /\ Untouched(mm, n)
  BY <1>2, TimeoutKept
<1> HIDE DEF n
<1>4. /\ mm' = n /\ device' = device /\ enabled' \in BOOLEAN
      /\ mm' \in Surfaces /\ SurfaceOK(mm)' /\ WillShow(mm, device)'
  BY <1>1, <1>3, HandledInv
<1>5. TypeOK'
  BY <1>1, <1>2, <1>4 DEF TypeOK
<1>6. WillHear(mm, wire, held)'
  <2>1. WillHear(n, wire, held)
    BY <1>3 DEF WillHear, IInv, Parser, Untouched
  <2> QED BY <1>1, <1>4, <2>1
<1>7. WillKnow(mm, queue, busy)'
  <2>1. WillKnow(n, queue, busy)
    BY <1>3 DEF WillKnow, IInv, Untouched
  <2> QED BY <1>1, <1>4, <2>1
<1> QED BY <1>4, <1>5, <1>6, <1>7 DEF IInv

\* The device takes a message.
LEMMA WriteInv == ASSUME IInv, writeAvailable PROVE IInv'
<1> DEFINE n == [mm EXCEPT !.out = Tail(@)]
           d == Received(device, Head(mm.out))
<1>1. /\ mm.out # <<>> /\ device' = d /\ mm' = n /\ enabled' \in BOOLEAN
      /\ UNCHANGED <<wire, queue, busy, held>>
  BY Zenon DEF writeAvailable
<1>2. SurfaceOK(mm) /\ TypeOK /\ device \in Devices /\ WillShow(mm, device)
  BY DEF IInv, TypeOK
<1>3. SurfaceOK(n) /\ Parser(n) = Parser(mm) /\ n.active = mm.active /\ d \in Devices /\ WillShow(n, d)
  BY <1>1, <1>2, Transmitted
<1> HIDE DEF n, d
<1>4. TypeOK'
  <2>1. mm' \in Surfaces
    BY <1>1, <1>3 DEF SurfaceOK
  <2> QED BY <1>1, <1>2, <1>3, <2>1 DEF TypeOK
<1>5. SurfaceOK(mm)' /\ WillShow(mm, device)'
  BY <1>1, <1>3
<1>6. WillHear(mm, wire, held)'
  <2>1. WillHear(n, wire, held)
    BY <1>3 DEF WillHear, IInv
  <2> QED BY <1>1, <2>1
<1>7. WillKnow(mm, queue, busy)'
  <2>1. WillKnow(n, queue, busy)
    BY <1>3 DEF WillKnow, IInv
  <2> QED BY <1>1, <2>1
<1> QED BY <1>4, <1>5, <1>6, <1>7 DEF IInv

-----------------------------------------------------------------------------
\* Every step keeps it.
LEMMA NextInv == IInv /\ [Next]_vars => IInv'
<1> SUFFICES ASSUME IInv, [Next]_vars PROVE IInv'
  OBVIOUS
<1>1. CASE readAvailable
  BY <1>1, ReadInv
<1>2. CASE EngineEvent
  BY <1>2, EventInv
<1>3. CASE writeAvailable
  BY <1>3, WriteInv
<1>4. CASE Timeout
  BY <1>4, TimeoutInv
<1>5. CASE OtherTraffic
  BY <1>5, TrafficInv
<1>6. CASE \E k \in Keys : Press(k) \/ Release(k)
  BY <1>6, KeyInv
<1>7. CASE Say \/ \E h \in Reporting : SelectHead(h) \/ \E on \in BOOLEAN : HeadReports(h, on)
  BY <1>7, EventsInv
<1>8. CASE UNCHANGED vars
  <2>1. (TypeOK /\ SurfaceOK(mm))'
    BY <1>8 DEF IInv, vars, TypeOK
  <2>2. (WillShow(mm, device) /\ WillHear(mm, wire, held) /\ WillKnow(mm, queue, busy))'
    BY <1>8 DEF IInv, vars
  <2> QED BY <2>1, <2>2 DEF IInv
<1> QED BY <1>1, <1>2, <1>3, <1>4, <1>5, <1>6, <1>7, <1>8 DEF Next

\* The promises hold for ever: what is queued on the port, on the wire and for
\* the engine's thread leads the surface, the parser and the driver to where
\* they should be, however messages are cut, reports and keys interleave and
\* many heads there are.
THEOREM Inductive == Spec => []IInv
<1>1. Init => IInv
  BY InitInv
<1>2. IInv /\ [Next]_vars => IInv'
  BY NextInv
<1> QED BY <1>1, <1>2, PTL DEF Spec

\* The variables keep their types and the program sends nothing but control
\* changes of seven bits and display messages.
THEOREM TypeCorrect == Spec => []TypeOK
<1>1. IInv => TypeOK
  BY DEF IInv
<1> QED BY <1>1, Inductive, PTL

\* When nothing is under way, the LED of a head's key blinks, is on or is off
\* as the head is selected, projects or does neither.
THEOREM LedsAlwaysSettle == Spec => []LedsSettle
<1>1. ASSUME IInv PROVE LedsSettle
  <2> SUFFICES ASSUME Quiet, ~Stray, NEW h \in Heads, h <= 3
               PROVE  device.led[LedOf(mm.controls[h])] =
                          IF mm.selected = h THEN "blink" ELSE IF h \in busy THEN "on" ELSE "off"
    BY DEF LedsSettle
  <2>1. mm.out = <<>> /\ queue = <<>>
    BY DEF Quiet
  <2>2. PICK e \in Devices : DeviceLeads(device, mm.out, e) /\ Shows(mm, e)
    BY <1>1 DEF IInv, WillShow
  <2>3. device = e
    BY <2>1, <2>2, LeadsNowhereElse DEF DeviceLeads
  <2>4. mm.active = busy
    BY <1>1, <2>1, LeadsNowhereElse DEF IInv, WillKnow
  <2>5. ~StrayIn(mm)
    BY DEF Stray, StrayIn
  <2>6. device.led[LedOf(mm.controls[h])] = Shown(mm.state[h])
    BY <2>2, <2>3, <2>5 DEF Shows, HeadsLit
  <2>7. mm.state[h] = HeadStatus(mm, h) \/ (mm.state[h] = -1 /\ HeadStatus(mm, h) = 0)
    BY <1>1 DEF IInv, SurfaceOK, Settled
  <2>8. Shown(mm.state[h]) = Shown(HeadStatus(mm, h))
    BY <2>7 DEF Shown
  <2>9. Shown(HeadStatus(mm, h)) = IF mm.selected = h THEN "blink" ELSE IF h \in mm.active THEN "on" ELSE "off"
    BY DEF Shown, HeadStatus
  <2> QED BY <2>4, <2>6, <2>8, <2>9
<1> QED BY <1>1, Inductive, PTL

\* When nothing is under way, the driver knows which keys are down and the
\* LEDs of the modifiers follow theirs.
THEOREM KeysAlwaysTracked == Spec => []KeysTracked
<1>1. ASSUME IInv PROVE KeysTracked
  <2> SUFFICES ASSUME Quiet
               PROVE  /\ \A k \in Keys \ {0, 1} : mm.values[k] = (IF k \in held THEN 1 ELSE 0)
                      /\ \A k \in {shiftControl, escControl} :
                            Stray \/ (device.led[LedOf(k)] = "on" <=> mm.values[k] = 1)
    BY DEF KeysTracked
  <2>1. mm.out = <<>> /\ wire = <<>>
    BY DEF Quiet
  <2>2. PICK p \in Parsers : Leads(Parsers, ParserStep, Parser(mm), wire, p) /\ KeysAt(p, held)
    BY <1>1 DEF IInv, WillHear
  <2>3. p = Parser(mm)
    BY <2>1, <2>2, LeadsNowhereElse
  <2>4. p.values = mm.values
    BY <2>3 DEF Parser
  <2>5. \A k \in Keys \ {0, 1} : mm.values[k] = (IF k \in held THEN 1 ELSE 0)
    BY <2>2, <2>4 DEF KeysAt
  <2>6. PICK e \in Devices : DeviceLeads(device, mm.out, e) /\ Shows(mm, e)
    BY <1>1 DEF IInv, WillShow
  <2>7. device = e
    BY <2>1, <2>6, LeadsNowhereElse DEF DeviceLeads
  <2>8. ASSUME NEW k \in {shiftControl, escControl}, ~Stray
        PROVE  device.led[LedOf(k)] = "on" <=> mm.values[k] = 1
    <3>1. device.led[LedOf(k)] = Shown(mm.values[k])
      BY <2>6, <2>7, <2>8 DEF Shows, KeysLit, Modifiers, Stray, StrayIn
    <3>2. mm.values[k] \in {0, 1}
      BY <1>1 DEF IInv, SurfaceOK, ModifiersOK, Modifiers
    <3> QED BY <3>1, <3>2 DEF Shown
  <2> QED BY <2>5, <2>8
<1> QED BY <1>1, Inductive, PTL

\* When the port has nothing to transmit, the display shows the message that
\* messageTimer was started for, and is blank when it does not run.
THEOREM DisplayAlwaysFollowsTimer == Spec => []DisplayFollowsTimer
<1>1. ASSUME IInv PROVE DisplayFollowsTimer
  <2> SUFFICES ASSUME mm.out = <<>> PROVE device.text = IF mm.timer = None THEN Blank ELSE mm.timer
    BY DEF DisplayFollowsTimer
  <2>1. PICK e \in Devices : DeviceLeads(device, mm.out, e) /\ Shows(mm, e)
    BY <1>1 DEF IInv, WillShow
  <2>2. device = e
    BY <2>1, LeadsNowhereElse DEF DeviceLeads
  <2> QED BY <2>1, <2>2 DEF Shows
<1> QED BY <1>1, Inductive, PTL
=============================================================================
