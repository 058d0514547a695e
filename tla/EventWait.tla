----------------------------- MODULE EventWait -----------------------------
(***************************************************************************)
(* The application waiting for events (samo-lib/grifo/src/event.c          *)
(* Event_wait, suspend.c) against the interrupt handlers that produce them *)
(* (button.c, CTP.c).  The main thread takes one step between two points   *)
(* at which an interrupt can be served; a handler runs to its end without  *)
(* being interrupted.                                                      *)
(*                                                                         *)
(* The queue is the bounded FIFO that the ring is proved to implement      *)
(* (EventQueueProofs).  A handler is known here by the bursts of events it *)
(* may put in one run; the drivers themselves are in modules of their own. *)
(***************************************************************************)
EXTENDS Naturals, Sequences

CONSTANTS
  Event,      \* events, opaque
  None,       \* EVENT_NONE
  Capacity,   \* events the queue can hold (255 in the code)
  Source,     \* interrupt sources whose handlers put events
  Bursts      \* Bursts[s]: the sequences of events a run of s's handler puts

ASSUME CapacityAssumption == Capacity \in Nat \ {0}
ASSUME NoneAssumption == None \notin Event
ASSUME BurstsAssumption == Bursts \in [Source -> SUBSET Seq(Event)]

VARIABLES
  queue,       \* the waiting events, oldest first
  event,       \* the caller's event_t, as the last Event_get left it
  pc,          \* where the main thread is
  ie,          \* the CPU's interrupt enable bit
  irq,         \* sources with an interrupt request pending
  timer,       \* 16 bit timer 2 is counting
  timer_flag,  \* its underflow flag in REG_INT_F16T23
  timeout,     \* Suspend's timeout_flag
  idle,        \* no touch packet is arriving, no serial output is under way
  card,        \* the SD card's power, "on" or "off"
  late,        \* timeouts reported while an event was waiting (history)
  elapsed,     \* the timer has expired during this suspend (history)
  overslept    \* an event was already waiting at the halt (history)

queueVars == <<queue, event, late>>
timerVars == <<timer, timer_flag, timeout, elapsed, overslept>>
portVars  == <<idle, card>>
vars == <<queueVars, pc, ie, irq, timerVars, portVars>>

(* The points at which the main thread may stand:                          *)
(*   app         in the application                                        *)
(*   get         Event_wait, before Event_get                              *)
(*   suspend     at the entry of Suspend                                   *)
(*   power_down  the port tests passed, before File_PowerDown              *)
(*   disable     before Interrupt_disable                                  *)
(*   code        in SuspendCode, before the halt                           *)
(*   halt        halted                                                    *)
(*   awake       in SuspendCode, after the halt                            *)
(*   decide      back in Suspend, interrupts enabled again                 *)
(*   callback    the timeout is reported to the application                *)
(*   shut_down   the application did not ask to go on                      *)
(*   off         after System_PowerOff                                     *)
Points == {"app", "get", "suspend", "power_down", "disable", "code", "halt",
           "awake", "decide", "callback", "shut_down", "off"}

InWait == pc \notin {"app", "shut_down", "off"}

Init ==
  /\ queue = <<>> /\ event = None /\ late = 0
  /\ pc = "app" /\ ie = TRUE /\ irq = {}
  /\ timer = FALSE /\ timer_flag = FALSE /\ timeout = FALSE
  /\ elapsed = FALSE /\ overslept = FALSE
  /\ idle = TRUE /\ card \in {"on", "off"}

-----------------------------------------------------------------------------
(* A request is latched until its handler runs, also while interrupts are  *)
(* disabled.                                                               *)
RequestInterrupt(s) ==
  /\ pc # "off" /\ s \notin irq
  /\ irq' = irq \cup {s}
  /\ UNCHANGED <<queueVars, pc, ie, timerVars, portVars>>

DepositUnbounded(q, burst) == q \o burst

(* What one Event_put after the other does to the queue: the part of the   *)
(* burst that finds room is appended, the rest dropped.                    *)
Deposit(q, burst) ==
  LET all == q \o burst
  IN  IF Len(all) <= Capacity THEN all ELSE SubSeq(all, 1, Capacity)

(* A handler clears its request and puts its events.                       *)
Handler(s) ==
  /\ pc # "off" /\ ie /\ s \in irq
  /\ irq' = irq \ {s}
  /\ \E burst \in Bursts[s] : queue' = Deposit(queue, burst)
  /\ UNCHANGED <<event, late, pc, ie, timerVars, portVars>>

(* A touch packet starts or ends, serial output starts or ends.            *)
LinesChange ==
  /\ pc # "off"
  /\ idle' = ~idle
  /\ UNCHANGED <<queueVars, pc, ie, irq, timerVars, card>>

(* Timer 2 underflows: its flag is set, which also ends a halt.            *)
TimerExpires ==
  /\ timer /\ ~timer_flag
  /\ timer_flag' = TRUE /\ elapsed' = TRUE
  /\ UNCHANGED <<queueVars, pc, ie, irq, timer, timeout, overslept, portVars>>

-----------------------------------------------------------------------------
(* The application uses files, which switches the card on if it answers,   *)
(* and polls for events or waits for them.                                 *)
UseFiles ==
  /\ pc = "app"
  /\ card' \in {card, "on"}
  /\ UNCHANGED <<queueVars, pc, ie, irq, timerVars, idle>>

Event_get ==
  /\ event' = IF queue = <<>> THEN None ELSE Head(queue)
  /\ queue' = IF queue = <<>> THEN queue ELSE Tail(queue)
  /\ late' = 0

Poll ==
  /\ pc = "app"
  /\ Event_get
  /\ UNCHANGED <<pc, ie, irq, timerVars, portVars>>

CallWait ==
  /\ pc = "app"
  /\ pc' = "get"
  /\ UNCHANGED <<queueVars, ie, irq, timerVars, portVars>>

-----------------------------------------------------------------------------
GetReturnsAtOnce ==
  /\ pc = "get"
  /\ Event_get
  /\ pc' = "app"
  /\ UNCHANGED <<ie, irq, timerVars, portVars>>

(* One turn of Event_wait's loop: Event_get, then return or suspend.       *)
Get ==
  /\ pc = "get"
  /\ Event_get
  /\ pc' = IF queue = <<>> THEN "suspend" ELSE "app"
  /\ UNCHANGED <<ie, irq, timerVars, portVars>>

(* Suspend gives up while a touch packet or serial output is under way.    *)
TestPorts ==
  /\ pc = "suspend"
  /\ pc' = IF idle THEN "power_down" ELSE "get"
  /\ UNCHANGED <<queueVars, ie, irq, timerVars, portVars>>

PowerDownKeepsCard ==
  /\ pc = "power_down"
  /\ pc' = "disable"
  /\ UNCHANGED <<queueVars, ie, irq, timerVars, portVars>>

(* File_PowerDown.                                                         *)
PowerDown ==
  /\ pc = "power_down"
  /\ card' = "off"
  /\ pc' = "disable"
  /\ UNCHANGED <<queueVars, ie, irq, timerVars, idle>>

DisableInterrupts ==
  /\ pc = "disable"
  /\ ie' = FALSE
  /\ pc' = "code"
  /\ UNCHANGED <<queueVars, irq, timerVars, portVars>>

HaltWithoutTimer ==
  /\ pc = "code"
  /\ timer_flag' = FALSE /\ elapsed' = FALSE /\ overslept' = (queue # <<>>)
  /\ pc' = "halt"
  /\ UNCHANGED <<queueVars, ie, irq, timer, timeout, portVars>>

(* SuspendCode: clear the underflow flag, start the timer and halt.        *)
StartTimer ==
  /\ pc = "code"
  /\ timer' = TRUE /\ timer_flag' = FALSE
  /\ elapsed' = FALSE /\ overslept' = (queue # <<>>)
  /\ pc' = "halt"
  /\ UNCHANGED <<queueVars, ie, irq, timeout, portVars>>

(* Any request ends the halt; the interrupt itself stays on hold.          *)
Wake ==
  /\ pc = "halt"
  /\ irq # {} \/ timer_flag
  /\ pc' = "awake"
  /\ UNCHANGED <<queueVars, ie, irq, timerVars, portVars>>

ResumeMasked ==
  /\ pc = "awake"
  /\ timer' = FALSE /\ timer_flag' = FALSE
  /\ timeout' = timer_flag
  /\ pc' = "decide"
  /\ UNCHANGED <<queueVars, ie, irq, elapsed, overslept, portVars>>

ResumeAccumulating ==
  /\ pc = "awake"
  /\ timer' = FALSE /\ timer_flag' = FALSE
  /\ timeout' = (timeout \/ timer_flag)
  /\ ie' = TRUE
  /\ pc' = "decide"
  /\ UNCHANGED <<queueVars, irq, elapsed, overslept, portVars>>

(* Stop the timer, read and clear its flag, enable interrupts again.       *)
Resume ==
  /\ pc = "awake"
  /\ timer' = FALSE /\ timer_flag' = FALSE
  /\ timeout' = timer_flag
  /\ ie' = TRUE
  /\ pc' = "decide"
  /\ UNCHANGED <<queueVars, irq, elapsed, overslept, portVars>>

(* Back to Event_wait's loop, or on to the timeout's callback.             *)
Decide ==
  /\ pc = "decide"
  /\ pc' = IF timeout THEN "callback" ELSE "get"
  /\ late' = IF timeout /\ queue # <<>> THEN late + 1 ELSE late
  /\ UNCHANGED <<queue, event, ie, irq, timerVars, portVars>>

CallbackSuspendsAgain ==
  /\ pc = "callback"
  /\ pc' \in {"suspend", "shut_down"}
  /\ UNCHANGED <<queueVars, ie, irq, timerVars, portVars>>

(* The callback's answer: go on, or shut down (also when there is none).   *)
Callback ==
  /\ pc = "callback"
  /\ pc' \in {"get", "shut_down"}
  /\ UNCHANGED <<queueVars, ie, irq, timerVars, portVars>>

(* File_CloseAll and System_PowerOff, which cuts the supply of the device, *)
(* the card's with it.                                                     *)
ShutDown ==
  /\ pc = "shut_down"
  /\ card' = "off"
  /\ pc' = "off"
  /\ UNCHANGED <<queueVars, ie, irq, timerVars, idle>>

Kernel ==
  \/ Get \/ TestPorts \/ PowerDown \/ DisableInterrupts \/ StartTimer
  \/ Wake \/ Resume \/ Decide \/ Callback \/ ShutDown

Application == UseFiles \/ Poll \/ CallWait

Hardware ==
  \/ \E s \in Source : RequestInterrupt(s) \/ Handler(s)
  \/ LinesChange \/ TimerExpires

Next == Kernel \/ Application \/ Hardware

(* The CPU keeps executing kernel code (a callback returns), a request     *)
(* that meets enabled interrupts again and again is taken (the hardware    *)
(* takes it at the first such instruction), and a running timer expires.   *)
(* Nothing obliges the user to press a key or the application to call the  *)
(* kernel.                                                                 *)
Fairness ==
  /\ WF_vars(Kernel)
  /\ \A s \in Source : SF_vars(Handler(s))
  /\ WF_vars(TimerExpires)

Spec == Init /\ [][Next]_vars /\ Fairness
-----------------------------------------------------------------------------
(* Type invariant; the queue never holds more than the ring can.           *)
TypeOK ==
  /\ queue \in Seq(Event) /\ Len(queue) <= Capacity
  /\ event \in Event \cup {None}
  /\ pc \in Points
  /\ ie \in BOOLEAN /\ irq \subseteq Source
  /\ timer \in BOOLEAN /\ timer_flag \in BOOLEAN
  /\ timeout \in BOOLEAN /\ elapsed \in BOOLEAN
  /\ overslept \in BOOLEAN
  /\ idle \in BOOLEAN /\ card \in {"on", "off"}
  /\ late \in Nat

(* Sleeping is safe: the CPU halts only with the card powered down, with   *)
(* interrupts on hold (the SDRAM is in self-refresh, no handler may run    *)
(* before Resume) and with the timer counting or already expired, so that  *)
(* the halt ends even if no key is ever pressed (suspend.c 94-103, 130ff). *)
SleepsSafely ==
  pc = "halt" => /\ card = "off"
                 /\ ~ie
                 /\ timer \/ timer_flag

(* A handler never finds interrupts masked outside the suspended window:   *)
(* the application always gets its interrupts back (suspend.c 107).        *)
InterruptsRestored == ie <=> pc \notin {"code", "halt", "awake"}

(* The callback runs, and the device switches itself off, only after the   *)
(* timer has expired during the suspend just ended: a key that ends one    *)
(* suspend cannot be taken for the timeout of another (suspend.c 109,      *)
(* SuspendCode's timed_out).                                               *)
TimeoutsAreReal == pc \in {"callback", "shut_down", "off"} => elapsed

(* The price of the unprotected gap between Event_get and the halt is      *)
(* bounded: an event that waits is reported as a timeout at most once      *)
(* before it is delivered (event.c 98-107).                                *)
AtMostOneLateTimeout == late <= 1

(* Event_wait only comes back with an event (event.h 83: "never returns    *)
(* EVENT_NONE").                                                           *)
WaitReturnsEvent ==
  [][InWait /\ pc' = "app" => event' \in Event /\ event' = Head(queue)]_vars

(* An event waiting while the application is in Event_wait is delivered,   *)
(* unless the application lets a timeout switch the device off.            *)
WaitDelivers ==
  (InWait /\ queue # <<>>) ~> (pc \in {"app", "off"})

(* No interrupt request is lost to a suspend: whatever is requested is     *)
(* handled, or the device is switched off.                                 *)
RequestsHandled ==
  \A s \in Source : (s \in irq) ~> (s \notin irq \/ pc = "off")

(* event.h 83-84: Event_wait "never returns EVENT_NONE", it "instead runs  *)
(* callback ater a 2 minute timeout": the callback stands for two minutes  *)
(* with no event to return, and is not run after a sleep over an event     *)
(* that was in the queue before the CPU halted.                            *)
CallbackInsteadOfNone ==
  [][pc' = "callback" /\ pc # pc' => ~overslept]_vars
=============================================================================
