--------------------------- MODULE ControlSurface ---------------------------
(***************************************************************************)
(* A MotorMix at work: the driver (MotorMix.tla), the MIDI port            *)
(* (alsamidi.cpp) with its transmit queue and write notifiers, the engine  *)
(* thread's event queue, through which the heads report and the user       *)
(* selects a head, and the surface itself, which is external.              *)
(*                                                                         *)
(* The port is not blocking: a write takes as much as the device has room  *)
(* for, and a read finds what has arrived, so the two messages of a key    *)
(* event or of an LED may be separated on their way in and out.            *)
(***************************************************************************)
EXTENDS MotorMix

CONSTANTS
    Keys,      \* the controls the user touches
    Reporting, \* the heads that project
    Garbage,   \* what headControls[4..] may hold: it is never initialised
    Noise,     \* what else may be on the wire
    Texts,     \* what messages may say
    MaxQueue, MaxWire, MaxTx  \* the user and the heads wait beyond these

ASSUME SurfaceAssumption ==
    /\ Keys \subseteq {c \in Controls : switches[c].key # None}
    /\ Reporting \subseteq Heads /\ Garbage \subseteq Int /\ Garbage # {}
    /\ Noise \subseteq [channel : 0..15, number : 0..127 \cup {SysEx}, value : 0..127]
    /\ \A msg \in Noise : msg.channel = Channel => msg.number \notin {15, 47}
    /\ Texts \subseteq 0..127 \ {Blank}
    /\ MaxQueue \in Nat /\ MaxWire \in Nat /\ MaxTx \in Nat

VARIABLES
    mm,       \* the MotorMix; mm.out is the port's txqueue
    enabled,  \* the port's write notifiers
    wire,     \* messages on their way to the program
    queue,    \* events queued to the engine's thread
    busy,     \* the heads that project
    held,     \* the keys that are down
    device    \* the surface: the last control change, its LEDs, its display

vars == <<mm, enabled, wire, queue, busy, held, device>>

\* AlsaMidi::open(): the notifiers are there, those for writing are off.
PortOpened == enabled = FALSE /\ wire = <<>>

Init ==
    /\ \E g \in [{h \in Heads : h > 3} -> Garbage] :
          mm = NewSurface([h \in Heads |-> IF h > 3 THEN g[h] ELSE NamedHeadControls[h]])
    /\ PortOpened /\ queue = <<>> /\ busy = {} /\ held = {}
    /\ device = [last |-> ControlChange(0, 0),
                 led |-> [l \in Leds |-> "off"], text |-> Blank]
-----------------------------------------------------------------------------
(***************************************************************************)
(* The surface.                                                            *)
(***************************************************************************)
\* An LED goes from blinking to on only by way of off.
Switched(d, zone, code) ==
    LET led == <<zone, code % 16>>
        new == IF code >= 80 THEN "blink" ELSE IF code >= 64 THEN "on" ELSE "off"
    IN  IF led \notin Leds \/ (new = "on" /\ d.led[led] = "blink") THEN d
        ELSE [d EXCEPT !.led[led] = new]

Received(d, msg) ==
    CASE msg.number = SysEx -> [d EXCEPT !.text = msg.value]
      [] msg.number = 44 /\ d.last.number = 12 -> [Switched(d, d.last.value, msg.value) EXCEPT !.last = msg]
      [] OTHER -> [d EXCEPT !.last = msg]

Room == Len(queue) < MaxQueue /\ Len(mm.out) <= MaxTx
Types(messages) == /\ Len(wire) + Len(messages) <= MaxWire
                   /\ Len(mm.out) <= MaxTx
                   /\ wire' = wire \o messages

\* What other devices put on the cable between two messages of the surface,
\* which is the only one that sends control changes on our channel.
Foreign == {msg \in Noise : msg.channel # Channel \/ msg.number = SysEx}
Between == {<<>>} \cup {<<msg>> : msg \in Foreign}

TypesKey(k, code) ==
    \E other \in Between :
        Types(<<ControlChange(15, switches[k].zone)>> \o other \o <<ControlChange(47, code)>>)

Press(k) ==
    /\ k \notin held /\ held' = held \cup {k}
    /\ TypesKey(k, 64 + switches[k].key)
    /\ UNCHANGED <<mm, enabled, queue, busy, device>>

Release(k) ==
    /\ k \in held /\ held' = held \ {k}
    /\ TypesKey(k, switches[k].key)
    /\ UNCHANGED <<mm, enabled, queue, busy, device>>

\* Something else on the same cable.
OtherTraffic ==
    /\ \E msg \in Noise : Types(<<msg>>)
    /\ UNCHANGED <<mm, enabled, queue, busy, held, device>>
-----------------------------------------------------------------------------
(***************************************************************************)
(* Events for the engine's thread.                                         *)
(***************************************************************************)
Queued(event) == Room /\ queue' = Append(queue, event)

\* loadFrameSource() ends with headActive() or headInactive().
HeadReports(h, on) ==
    /\ Queued(<<IF on THEN "active" ELSE "inactive", h>>)
    /\ busy' = IF on THEN busy \cup {h} ELSE busy \ {h}
    /\ UNCHANGED <<mm, enabled, wire, held, device>>

\* The head buttons of the window.
SelectHead(h) ==
    /\ Queued(<<"select", h>>)
    /\ UNCHANGED <<mm, enabled, wire, busy, held, device>>

\* The engine has something to say.
Say ==
    /\ \E text \in Texts : Queued(<<"message", text>>)
    /\ UNCHANGED <<mm, enabled, wire, busy, held, device>>
-----------------------------------------------------------------------------
(***************************************************************************)
(* The engine's thread.                                                    *)
(***************************************************************************)
\* A handler ran and called writeData() for what it sent, if anything.  The
\* device is taken to have no room at that moment: where it has some, the
\* steps of writeAvailable that follow come at once.
Handled(m) ==
    /\ mm' = m
    /\ enabled' = (enabled \/ m.out # mm.out)
    /\ UNCHANGED device

\* Mutation of writeAvailable: what is written stays in the queue.
writeAvailableAgain ==
    /\ enabled /\ mm.out # <<>>
    /\ device' = Received(device, Head(mm.out))
    /\ UNCHANGED <<mm, enabled, wire, queue, busy, held>>

\* A write notifier fires: the device takes a message, and the notifiers stay
\* on as long as there are more.  A write of several is several of these.
writeAvailable ==
    /\ enabled /\ mm.out # <<>>
    /\ device' = Received(device, Head(mm.out))
    /\ mm' = [mm EXCEPT !.out = Tail(@)]
    /\ enabled' = (mm'.out # <<>>)
    /\ UNCHANGED <<wire, queue, busy, held>>

\* readAvailable() and readData(): what has arrived is parsed, a message at a
\* time; a read of several is several of these steps.
readAvailable ==
    /\ wire # <<>> /\ wire' = Tail(wire)
    /\ Handled(Receive(mm, Head(wire)))
    /\ UNCHANGED <<queue, busy, held>>

\* The next event: headActive(), headInactive(), Engine::selectHead() with
\* headSelected(), or message().
EngineEvent ==
    /\ queue # <<>> /\ queue' = Tail(queue)
    /\ LET kind == Head(queue)[1] arg == Head(queue)[2] IN
       Handled(CASE kind = "active" -> headActive(mm, arg)
                 [] kind = "inactive" -> headInactive(mm, arg)
                 [] kind = "select" -> headSelected(mm, arg)
                 [] kind = "message" -> message(mm, arg))
    /\ UNCHANGED <<wire, busy, held>>

\* The message timer.
Timeout ==
    /\ mm.timer # None
    /\ Handled(messageTimeout(mm))
    /\ UNCHANGED <<wire, queue, busy, held>>
-----------------------------------------------------------------------------
Next == \/ readAvailable \/ EngineEvent \/ writeAvailable \/ Timeout
        \/ Say \/ OtherTraffic
        \/ \E k \in Keys : Press(k) \/ Release(k)
        \/ \E h \in Reporting : SelectHead(h) \/ \E on \in BOOLEAN : HeadReports(h, on)

Spec == Init /\ [][Next]_vars

\* The device makes room and the notifier fires.
FairSpec == Spec /\ WF_vars(writeAvailable)
-----------------------------------------------------------------------------
Byte == 0..127
ControlChanges == {ControlChange(number, val) : number, val \in Byte}
Messages == ControlChanges \cup {DisplayMessage(text) : text \in {Blank} \cup Texts}
Events == {"active", "inactive", "select"} \X Reporting \cup {"message"} \X Texts

Surfaces == [numbers : Byte \X Byte, values : [Controls -> Byte],
             controls : [Heads -> Int], selected : Heads \cup {None}, active : SUBSET Heads,
             state : [Heads -> -1..2], timer : Texts \cup {None}, out : Seq(Messages)]
Devices == [last : ControlChanges, led : [Leds -> {"off", "on", "blink"}], text : {Blank} \cup Texts]

\* Every variable keeps its type; only valid messages are sent.
TypeOK ==
    /\ mm \in Surfaces /\ enabled \in BOOLEAN
    /\ wire \in Seq(ControlChanges \cup Noise) /\ Len(wire) <= MaxWire
    /\ queue \in Seq(Events) /\ Len(queue) <= MaxQueue
    /\ busy \subseteq Reporting /\ held \subseteq Keys
    /\ device \in Devices

Quiet == wire = <<>> /\ queue = <<>> /\ mm.out = <<>>

\* An uninitialised headControls entry that happens to be a control.
Stray == \E h \in Heads : h > 3 /\ mm.controls[h] \in Controls

\* Once everything has arrived, the LEDs of the head keys show which head is
\* selected and which ones project, in spite of cut messages, of the order of
\* the reports and of the firmware: updateHeadStatus() sends changes only, so
\* one that is missed stays wrong.  (Not if headControls[4..7], which the
\* constructor does not set, alias a control.)
LedsSettle ==
    Quiet /\ ~Stray => \A h \in Heads : h <= 3 =>
        device.led[LedOf(mm.controls[h])] =
            IF mm.selected = h THEN "blink" ELSE IF h \in busy THEN "on" ELSE "off"

\* Once everything has arrived, the driver knows which keys are down, and the
\* modifiers are lit when they are.  (Not controls 0 and 1: their values are
\* overwritten by the history of midiControlValueChanged().)
KeysTracked ==
    Quiet => /\ \A k \in Keys \ {0, 1} : mm.values[k] = (IF k \in held THEN 1 ELSE 0)
             /\ \A k \in {shiftControl, escControl} :
                   Stray \/ (device.led[LedOf(k)] = "on" <=> mm.values[k] = 1)

\* The display shows the message whose duration the timer is counting, and
\* nothing when it is not running: none stays on it for ever, and none is wiped
\* when the time of an older one is up, however the messages, the time-outs and
\* the writes of the port follow each other.
DisplayFollowsTimer ==
    mm.out = <<>> => device.text = IF mm.timer = None THEN Blank ELSE mm.timer

\* The port transmits all it has been given, again and again: the notifiers
\* are never off while there is something to write.
TransmitsAll == []<>(mm.out = <<>>)
=============================================================================
