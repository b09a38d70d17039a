------------------------------ MODULE MotorMix ------------------------------
(***************************************************************************)
(* The MotorMix driver (motormix.cpp) on top of ControlSurface             *)
(* (controlsurface.cpp) and of MIDIParser and MIDIChannel (midi.cpp), as   *)
(* operators.  All of it runs in the engine's thread, so an object is a    *)
(* record and a call maps a record to a record; what the call transmits is *)
(* appended to its field out.  The unit of traffic is the MIDI message: a  *)
(* stream of bytes cut anywhere comes out of the parser as whole messages. *)
(***************************************************************************)
EXTENDS Integers, SequencesExt

CONSTANTS MAX_HEADS, Channel

ASSUME MotorMixAssumption == MAX_HEADS \in Nat \ {0} /\ Channel \in 0..15

Heads == 0..(MAX_HEADS - 1)
None == -1
-----------------------------------------------------------------------------
(***************************************************************************)
(* switches[]: the scan code (zone, key) and the LED (lzone, led) of every *)
(* control; None where it has no key or no LED.  A key sends 64 + key when *)
(* pressed and key when released; an LED is on at 64 + led, blinks at      *)
(* 80 + led and is off at led.                                             *)
(***************************************************************************)
Controls == 0..81

switches == [c \in Controls |->
    CASE c < 48 -> [zone |-> c % 8, key |-> c \div 8, lzone |-> c % 8,
                    led |-> IF c < 8 THEN None ELSE c \div 8]
      [] c \in 48..63 -> [zone |-> c \div 8 + 2, key |-> c % 8, lzone |-> c \div 8 + 2, led |-> c % 8]
      [] c \in 64..70 -> [zone |-> 10, key |-> c - 64, lzone |-> 10,
                          led |-> <<None, None, 0, 1, 2, 4, 6>>[c - 63]]
      [] c \in 71..77 -> [zone |-> None, key |-> None, lzone |-> IF c < 74 THEN 10 ELSE 11,
                          led |-> <<3, 5, 7, 1, 3, 5, 7>>[c - 70]]
      [] c >= 78 -> [zone |-> 11, key |-> c - 78, lzone |-> 11, led |-> 2 * (c - 78)]]

\* controlByName() of the names the driver uses.
shiftControl == 48
escControl == 56
NamedHeadControls == [h \in 0..3 |-> 78 + h]

Leds == {<<switches[c].lzone, switches[c].led>> : c \in {x \in Controls : switches[x].led # None}}
LedOf(c) == <<switches[c].lzone, switches[c].led>>

ASSUME CodesDistinct ==
    \A c, d \in Controls : c # d =>
        /\ switches[c].key # None => <<switches[c].zone, switches[c].key>> # <<switches[d].zone, switches[d].key>>
        /\ switches[c].led # None => LedOf(c) # LedOf(d)
-----------------------------------------------------------------------------
\* A control change on the channel of the program; MIDIChannel::send() puts
\* the channel in, MIDIParser splits what is sent and received into messages.
ControlChange(number, val) == [channel |-> Channel, number |-> number, value |-> val]

\* A display message is one system exclusive message.
SysEx == 240
DisplayMessage(text) == [channel |-> Channel, number |-> SysEx, value |-> text]

\* MIDIChannel::send() into the queue of the port.
Send(m, messages) == [m EXCEPT !.out = @ \o messages]

\* setControl(): an LED off (0), on (1) or blinking (2), as two control
\* changes.  A control without an LED sends zeros.
LedCode(c, val) == (CASE val = 0 -> 0 [] val = 1 -> 64 [] val = 2 -> 80) + switches[c].led

setControl(c, val) ==
    IF c \notin Controls THEN <<>>
    ELSE IF switches[c].led = None THEN <<ControlChange(0, 0), ControlChange(0, 0)>>
    ELSE <<ControlChange(12, switches[c].lzone), ControlChange(44, LedCode(c, val))>>

\* messageTimeout(): displayWrite() of blanks, and the timer is stopped.  The
\* field timer is the text whose duration the timer is counting, or None.
Blank == 32
messageTimeout(m) == [Send(m, <<DisplayMessage(Blank)>>) EXCEPT !.timer = None]

\* Mutation of message: a timer that is running is left to run.
messageKeepsTimer(m, text) ==
    [Send(messageTimeout(m), <<DisplayMessage(text)>>)
        EXCEPT !.timer = IF m.timer = None THEN text ELSE m.timer]

\* message(): the old text is blanked and its timer stopped, the new one is
\* written and the timer started for it.
message(m, text) == [Send(messageTimeout(m), <<DisplayMessage(text)>>) EXCEPT !.timer = text]

\* What the LED of a head's control should be: 2 selected, 1 projecting.
HeadStatus(m, h) == IF m.selected = h THEN 2 ELSE IF h \in m.active THEN 1 ELSE 0

\* Mutation of HeadUpdate: without the detour for the firmware.
HeadUpdateDirectly(m, h) ==
    IF HeadStatus(m, h) = m.state[h] THEN <<>> ELSE setControl(m.controls[h], HeadStatus(m, h))

\* What updateHeadStatus() sends for one head.  Firmware 1.08 does not go from
\* blinking to on: the LED is switched off in between.
HeadUpdate(m, h) ==
    IF HeadStatus(m, h) = m.state[h] THEN <<>>
    ELSE (IF HeadStatus(m, h) = 1 /\ m.state[h] = 2 THEN setControl(m.controls[h], 0) ELSE <<>>)
         \o setControl(m.controls[h], HeadStatus(m, h))

updateHeadStatus(m) ==
    [Send(m, FlattenSeq([i \in 1..MAX_HEADS |-> HeadUpdate(m, i - 1)]))
        EXCEPT !.state = [h \in Heads |-> HeadStatus(m, h)]]

headActive(m, h) ==
    IF h \in m.active THEN m ELSE updateHeadStatus([m EXCEPT !.active = @ \cup {h}])

headInactive(m, h) ==
    IF h \notin m.active THEN m ELSE updateHeadStatus([m EXCEPT !.active = @ \ {h}])

\* headSelected(), for which Engine::selectHead() emits its signal.
headSelected(m, h) == updateHeadStatus([m EXCEPT !.selected = h])

\* A modifier key is down.
Modified(m) == m.values[shiftControl] # 0 \/ m.values[escControl] # 0

\* controlChangedData(): the modifiers' LEDs follow their keys; without a
\* modifier the key of a head, pressed or released, selects it.
controlChangedData(m, c) ==
    LET lit == Send(m, setControl(shiftControl, m.values[shiftControl])
                       \o setControl(escControl, m.values[escControl]))
        chosen == {h \in Heads : m.controls[h] = c}
    IN  IF ~Modified(m) /\ chosen # {} THEN headSelected(lit, Min(chosen)) ELSE lit

\* ControlSurface::controlValueChanged()
controlValueChanged(m, c, val) == controlChangedData([m EXCEPT !.values[c] = val], c)

\* Mutation of History: the first message of a pair is not kept.
HistoryOfOne(m, number, val) ==
    [m EXCEPT !.numbers = <<number, number>>, !.values[0] = val, !.values[1] = val]

\* The last two control changes.  Their values are kept in controlvalues[0]
\* and [1], where the values of controls 0 and 1 are.
History(m, number, val) ==
    [m EXCEPT !.numbers = <<@[2], number>>, !.values[0] = m.values[1], !.values[1] = val]

\* The key scan code: two controller numbers with the value of the first and
\* the values of the second for pressed and released.  Zeros where there is
\* no key.
Scan(c) == IF switches[c].key = None
           THEN [numbers |-> <<0, 0>>, zone |-> 0, pressed |-> 0, released |-> 0]
           ELSE [numbers |-> <<15, 47>>, zone |-> switches[c].zone,
                 pressed |-> 64 + switches[c].key, released |-> switches[c].key]

\* midiControlValueChanged(): two messages make an event.
midiControlValueChanged(m, number, val) ==
    LET n == History(m, number, val)
        hit == {c \in Controls : /\ Scan(c).numbers = n.numbers /\ Scan(c).zone = n.values[0]
                                 /\ n.values[1] \in {Scan(c).pressed, Scan(c).released}}
    IN  IF hit = {} THEN n
        ELSE LET c == Min(hit) IN
             controlValueChanged(n, c, IF n.values[1] = Scan(c).pressed THEN 1 ELSE 0)

\* MIDIParser::parse() and MIDIChannel::message(): a control change on our
\* channel is ours.
Receive(m, msg) ==
    IF msg.channel = Channel /\ msg.number # SysEx
    THEN midiControlValueChanged(m, msg.number, msg.value) ELSE m

\* A MotorMix after its constructor and connectEngine(), when what that sends to
\* clear the surface has gone.
NewSurface(controls) ==
    [numbers |-> <<0, 0>>, values |-> [c \in Controls |-> 0],
     controls |-> controls, selected |-> None, active |-> {},
     state |-> [h \in Heads |-> -1], timer |-> None, out |-> <<>>]
=============================================================================
