---------------------------- MODULE InputDrivers ----------------------------
(***************************************************************************)
(* The drivers that put events (samo-lib/grifo/src/button.c, CTP.c), with  *)
(* the state they keep for themselves, and the application that takes the  *)
(* events or throws them away.  The queue is the bounded FIFO that the     *)
(* ring is proved to implement (EventQueueProofs).                         *)
(*                                                                         *)
(* An interrupt may come whatever the keys do, so the keys themselves and  *)
(* the comparison register are left out: a run of the handler reads any    *)
(* combination of pressed keys.  No handler lets another one in, so a run  *)
(* is a single step.  CTP_interrupt is a step for each byte: one run that  *)
(* takes several bytes does what as many runs do.                          *)
(***************************************************************************)
EXTENDS Naturals, SequencesExt

CONSTANTS
  Keys,      \* number of keys with a state (3 in the code)
  Capacity   \* events the queue can hold (255 in the code)

ASSUME KeysAssumption == Keys \in Nat
ASSUME CapacityAssumption == Capacity \in Nat \ {0}

Key == 0 .. Keys - 1
Power == Keys         \* BUTTON_POWER follows the codes of the other keys
Touch == Keys + 1     \* the panel, as something the application hears of
Subject == Key \cup {Touch}   \* what the drivers keep a state of

(* Bytes of the panel by what the parser tells apart: 0xaa, 0xff, another  *)
(* one with the top bit set, 0x00, 0x01, and the rest.                     *)
Byte == {"aa", "ff", "bad", "00", "01", "data"}

(* A coordinate is a high and a low part of seven bits.  Known of it is if *)
(* both are of the packet under way, if the high part is and the low part  *)
(* is zero, or if there is something else in it.                           *)
Coordinate == {"new", "high", "old"}

ButtonEvent == [type : {"BUTTON_DOWN", "BUTTON_UP"}, code : Key \cup {Power}]
TouchEvent == [type : {"TOUCH_DOWN", "TOUCH_MOTION", "TOUCH_UP"}]
Event == ButtonEvent \cup TouchEvent

VARIABLES
  queue,        \* the waiting events, oldest first
  state,        \* keys that Button_KeyInterrupt has reported as pressed
  touch_state,  \* StateType of CTP.c
  x, y,         \* coordinates of CTP.c
  touch,        \* touch of CTP.c
  packet,       \* data bytes since an 0xaa, and if one was 0xff (history)
  told,         \* what the events taken so far told the application (history)
  behind,       \* subjects whose latest event was dropped (history)
  missed        \* subjects of which some event was dropped (history)

panelVars == <<touch_state, x, y, touch, packet>>
vars      == <<queue, state, panelVars, told, behind, missed>>

None == [n |-> 6, kept |-> FALSE]   \* no packet under way

Init ==
  /\ queue = <<>>
  /\ state = {}
  /\ touch_state = "WAITING" /\ x = "old" /\ y = "old" /\ touch = FALSE
  /\ packet = None
  /\ told = {} /\ behind = {} /\ missed = {}

Button(type, code) == [type |-> type, code |-> code]
About(e) == IF e.type \in {"BUTTON_DOWN", "BUTTON_UP"} THEN e.code ELSE Touch
Subjects(events) == {About(events[j]) : j \in DOMAIN events} \cap Subject

-----------------------------------------------------------------------------
(* Event_put without the test for room.                                    *)
PutAlways(events) ==
  /\ queue' = queue \o events
  /\ behind' = behind \ Subjects(events)
  /\ UNCHANGED missed

(* Event_put for one event after the other: those that find no room are    *)
(* lost.                                                                   *)
Put(events) ==
  LET room == Min({Capacity - Len(queue), Len(events)})
      kept == SubSeq(events, 1, room)
      lost == SubSeq(events, room + 1, Len(events))
  IN  /\ queue' = queue \o kept
      /\ behind' = (behind \ Subjects(kept)) \cup Subjects(lost)
      /\ missed' = missed \cup Subjects(lost)

(* The elements of a set of keys, in the loop's order.                     *)
InOrder(keys) ==
  {s \in BoundedSeq(keys, Keys) :
     Range(s) = keys /\ \A i, j \in DOMAIN s : i < j => s[i] < s[j]}

ChangedButLast(pressed) ==
  {k \in Key : (k \in pressed) # (k \in state) /\ k < Keys - 1}

(* The keys that are not as they were reported last.                       *)
Changed(pressed) == {k \in Key : (k \in pressed) # (k \in state)}

(* Button_KeyInterrupt reports them, and notes that it has before it knows *)
(* if there was room.                                                      *)
KeyInterrupt(pressed) ==
  LET event(k) == Button(IF k \in pressed THEN "BUTTON_DOWN" ELSE "BUTTON_UP", k)
  IN  /\ \E changed \in InOrder(Changed(pressed)) :
           Put([n \in DOMAIN changed |-> event(changed[n])])
      /\ state' = pressed
      /\ UNCHANGED <<panelVars, told>>

(* Button_PowerInterrupt: a press and a release.                           *)
PowerInterrupt ==
  /\ Put(<<Button("BUTTON_DOWN", Power), Button("BUTTON_UP", Power)>>)
  /\ UNCHANGED <<state, panelVars, told>>

-----------------------------------------------------------------------------
(* x = c << 7, and x |= c; 0xff leaves the coordinate as it is.            *)
SetHigh(c, byte) == IF byte = "ff" THEN c ELSE "high"
SetLow(c, byte) ==
  IF byte = "ff" THEN c ELSE IF c = "high" THEN "new" ELSE "old"

(* One byte of the panel moves the parser on.                              *)
After(s) ==
  CASE s = "X_HIGH" -> "X_LOW"  [] s = "X_LOW" -> "Y_HIGH"
    [] s = "Y_HIGH" -> "Y_LOW"  [] s = "Y_LOW" -> "TOUCH"
    [] OTHER -> "WAITING"

(* The bytes received since the last 0xaa, as long as they are data; a     *)
(* packet is whole with its fifth byte if that one says touched or not.    *)
Counted(byte) ==
  CASE byte = "aa" -> [n |-> 0, kept |-> FALSE]
    [] byte # "aa" /\ (byte = "bad" \/ packet.n >= 5) -> None
    [] packet.n = 4 /\ byte \notin {"aa", "00", "01"} -> None
    [] OTHER -> [n |-> packet.n + 1, kept |-> packet.kept \/ byte = "ff"]

StartsPacketWhenWaiting ==
  /\ touch_state' = IF touch_state = "WAITING" THEN "X_HIGH" ELSE touch_state
  /\ x' = "old" /\ y' = "old"   \* what they hold is of an earlier packet
  /\ UNCHANGED <<touch, queue, behind, missed>>

StartsPacket ==
  /\ touch_state' = "X_HIGH"
  /\ x' = "old" /\ y' = "old"   \* what they hold is of an earlier packet
  /\ UNCHANGED <<touch, queue, behind, missed>>

Resets ==
  /\ touch_state' = "WAITING"
  /\ UNCHANGED <<x, y, touch, queue, behind, missed>>

CoordinateByteKeepingX(byte) ==
  /\ touch_state' = After(touch_state)
  /\ x' = IF touch_state = "X_LOW" THEN SetLow(x, byte) ELSE x
  /\ y' = CASE touch_state = "Y_HIGH" -> SetHigh(y, byte)
            [] touch_state = "Y_LOW"  -> SetLow(y, byte)
            [] OTHER -> y
  /\ UNCHANGED <<touch, queue, behind, missed>>

CoordinateByte(byte) ==
  /\ touch_state' = After(touch_state)
  /\ x' = CASE touch_state = "X_HIGH" -> SetHigh(x, byte)
            [] touch_state = "X_LOW"  -> SetLow(x, byte)
            [] OTHER -> x
  /\ y' = CASE touch_state = "Y_HIGH" -> SetHigh(y, byte)
            [] touch_state = "Y_LOW"  -> SetLow(y, byte)
            [] OTHER -> y
  /\ UNCHANGED <<touch, queue, behind, missed>>

(* The event has the coordinates as they are, see TouchedWhereReported.    *)
Touched(type) == [type |-> type]

TouchByteHolding(byte) ==
  /\ touch_state' = "WAITING"
  /\ CASE byte = "01" -> /\ touch' = TRUE
                         /\ Put(<<Touched(IF touch THEN "TOUCH_MOTION" ELSE "TOUCH_DOWN")>>)
       [] byte = "00" -> /\ UNCHANGED touch
                         /\ Put(<<Touched("TOUCH_UP")>>)
       [] OTHER -> UNCHANGED <<touch, queue, behind, missed>>
  /\ UNCHANGED <<x, y>>

TouchByte(byte) ==
  /\ touch_state' = "WAITING"
  /\ CASE byte = "01" -> /\ touch' = TRUE
                         /\ Put(<<Touched(IF touch THEN "TOUCH_MOTION" ELSE "TOUCH_DOWN")>>)
       [] byte = "00" -> /\ touch' = FALSE
                         /\ Put(<<Touched("TOUCH_UP")>>)
       [] OTHER -> UNCHANGED <<touch, queue, behind, missed>>
  /\ UNCHANGED <<x, y>>

(* CTP_interrupt, one turn of its loop.  Bytes may get lost: the next one  *)
(* is any byte.                                                            *)
CTP_interrupt(byte) ==
  /\ packet' = Counted(byte)
  /\ CASE byte = "aa"  -> StartsPacket
       [] byte = "bad" -> Resets
       [] OTHER -> CASE touch_state = "WAITING" ->
                          UNCHANGED <<touch_state, x, y, touch, queue, behind, missed>>
                     [] touch_state = "TOUCH" -> TouchByte(byte)
                     [] OTHER -> CoordinateByte(byte)
  /\ UNCHANGED <<state, told>>

-----------------------------------------------------------------------------
(* The application takes the oldest event.                                 *)
Down(e) == e.type \in {"BUTTON_DOWN", "TOUCH_DOWN", "TOUCH_MOTION"}

Event_get ==
  /\ queue # <<>>
  /\ queue' = Tail(queue)
  /\ told' = IF Down(Head(queue)) THEN told \cup ({About(Head(queue))} \cap Subject)
                                  ELSE told \ {About(Head(queue))}
  /\ UNCHANGED <<state, panelVars, behind, missed>>

(* It throws all of them away.                                             *)
Event_flush ==
  LET gone == Subjects(queue)
  IN  /\ queue' = <<>>
      /\ behind' = behind \cup gone /\ missed' = missed \cup gone
      /\ UNCHANGED <<state, panelVars, told>>

Next ==
  \/ \E pressed \in SUBSET Key : KeyInterrupt(pressed)
  \/ PowerInterrupt
  \/ \E byte \in Byte : CTP_interrupt(byte)
  \/ Event_get \/ Event_flush

Spec == Init /\ [][Next]_vars
-----------------------------------------------------------------------------
(* Type invariant.                                                         *)
TypeOK ==
  /\ queue \in Seq(Event) /\ Len(queue) <= Capacity
  /\ state \subseteq Key
  /\ touch_state \in {"WAITING", "X_HIGH", "X_LOW", "Y_HIGH", "Y_LOW", "TOUCH"}
  /\ x \in Coordinate /\ y \in Coordinate /\ touch \in BOOLEAN
  /\ packet \in [n : 0 .. 6, kept : BOOLEAN]
  /\ told \subseteq Subject /\ behind \subseteq Subject /\ missed \subseteq Subject

(* What the application knows of s after the first n events of the queue.  *)
Known(s, n) ==
  LET of == {j \in 1 .. n : About(queue[j]) = s}
  IN  IF of = {} THEN s \in told
      ELSE Down(queue[CHOOSE j \in of : \A k \in of : k <= j])

(* What the drivers say of s.                                              *)
Reported(s) == IF s = Touch THEN touch ELSE s \in state

(* An application that takes all that waits knows what the drivers know of *)
(* each key and of the panel, unless the latest event about it found the   *)
(* queue full or was flushed: the drivers note a change before they know   *)
(* if it was queued (button.c 101-102, CTP.c 143-149).                     *)
ApplicationCatchesUp ==
  \A s \in Subject \ behind : Known(s, Len(queue)) = Reported(s)

(* The events make sense in the order the application gets them: a key     *)
(* goes down only when it is up and up only when it is down, a touch       *)
(* begins only when there is none and moves only while there is one; as    *)
(* long as no event about it was dropped (button.c 94-104, CTP.c 142-149). *)
EventsMakeSense ==
  \A n \in DOMAIN queue :
    LET e == queue[n] IN
    About(e) \in Subject \ missed =>
      CASE e.type \in {"BUTTON_DOWN", "TOUCH_DOWN"} -> ~Known(About(e), n - 1)
        [] e.type \in {"BUTTON_UP", "TOUCH_MOTION"} -> Known(About(e), n - 1)
        [] OTHER -> TRUE

(* A step that adds an event of the panel.                                 *)
TouchPut == Len(queue') > Len(queue) /\ About(Last(queue')) = Touch

(* The panel's events come from whole packets and every whole packet is    *)
(* reported if there is room, whatever was lost or garbled before: 0xaa,   *)
(* four bytes of coordinates and the touch byte, one after the other       *)
(* (CTP.c 101-157).                                                        *)
WholePacketsReported ==
  [][LET whole == packet.n = 4 /\ packet'.n = 5
     IN  TouchPut <=> whole /\ Len(queue) < Capacity]_vars

(* A touch is reported where it is: both coordinates are of one packet,    *)
(* unless the panel left a part out with 0xff (CTP.c 112-134, 140-141).    *)
TouchedWhereReported ==
  [][TouchPut /\ ~packet.kept => x = "new" /\ y = "new"]_vars
=============================================================================
