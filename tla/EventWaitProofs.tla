-------------------------- MODULE EventWaitProofs --------------------------
(***************************************************************************)
(* The safety of Event_wait and Suspend for any set of events, any queue   *)
(* capacity and any interrupt sources and handlers.                        *)
(***************************************************************************)
EXTENDS EventWait, SequenceTheorems, TLAPS

(* A handler's puts keep the queue a sequence of events within capacity.   *)
LEMMA DepositType ==
  ASSUME NEW q \in Seq(Event), NEW burst \in Seq(Event)
  PROVE  Deposit(q, burst) \in Seq(Event) /\ Len(Deposit(q, burst)) <= Capacity
<1> DEFINE all == q \o burst
<1>1. all \in Seq(Event) /\ Len(all) \in Nat
  BY ConcatProperties, LenProperties
<1> HIDE DEF all
<1>2. CASE Len(all) <= Capacity
  BY <1>1, <1>2 DEF Deposit, all
<1>3. CASE ~(Len(all) <= Capacity)
  <2>1. \A i \in 1 .. Capacity : all[i] \in Event
    BY <1>1, <1>3, ElementOfSeq, CapacityAssumption
  <2>2. /\ SubSeq(all, 1, Capacity) \in Seq(Event)
        /\ Len(SubSeq(all, 1, Capacity)) = Capacity
    BY <1>1, <2>1, SubSeqProperties, CapacityAssumption
  <2>. QED
    BY <1>3, <2>2, CapacityAssumption DEF Deposit, all
<1>. QED
  BY <1>2, <1>3

(* The type invariant of the queue and of all other variables.             *)
THEOREM TypeCorrect == Spec => []TypeOK
<1>1. Init => TypeOK
  <2>1. <<>> \in Seq(Event) /\ Len(<<>>) <= Capacity
    BY CapacityAssumption
  <2>2. Init => queue \in Seq(Event) /\ Len(queue) <= Capacity
    BY <2>1 DEF Init
  <2>3. Init => /\ event \in Event \cup {None} /\ pc \in Points
                /\ irq \subseteq Source /\ card \in {"on", "off"} /\ late \in Nat
    BY DEF Init, Points
  <2>4. Init => /\ ie \in BOOLEAN /\ timer \in BOOLEAN /\ timer_flag \in BOOLEAN
                /\ timeout \in BOOLEAN /\ elapsed \in BOOLEAN /\ idle \in BOOLEAN
                /\ overslept \in BOOLEAN
    BY DEF Init
  <2>. QED
    BY <2>2, <2>3, <2>4 DEF TypeOK
<1>2. TypeOK /\ [Next]_vars => TypeOK'
  <2> SUFFICES ASSUME TypeOK, [Next]_vars
               PROVE  TypeOK'
    OBVIOUS
  <2> USE DEF TypeOK, Points, queueVars, timerVars, portVars
  <2>1. ASSUME NEW s \in Source, RequestInterrupt(s)
        PROVE  TypeOK'
    BY <2>1 DEF RequestInterrupt
  <2>2. ASSUME NEW s \in Source, Handler(s)
        PROVE  TypeOK'
    <3>1. PICK burst \in Bursts[s] : queue' = Deposit(queue, burst)
      BY <2>2 DEF Handler
    <3>2. burst \in Seq(Event)
      BY <3>1, BurstsAssumption
    <3>3. queue' \in Seq(Event) /\ Len(queue') <= Capacity
      BY <3>1, <3>2, DepositType
    <3>. QED
      BY <2>2, <3>3 DEF Handler
  <2>3. CASE LinesChange
    BY <2>3 DEF LinesChange
  <2>4. CASE TimerExpires
    BY <2>4 DEF TimerExpires
  <2>5. CASE UseFiles
    BY <2>5 DEF UseFiles
  <2>6. ASSUME Event_get
        PROVE  /\ queue' \in Seq(Event) /\ Len(queue') <= Capacity
               /\ event' \in Event \cup {None} /\ late' \in Nat
    BY <2>6, HeadTailProperties, LenProperties, CapacityAssumption DEF Event_get
  <2>7. CASE Poll
    BY <2>6, <2>7 DEF Poll
  <2>8. CASE CallWait
    BY <2>8 DEF CallWait
  <2>9. CASE Get
    BY <2>6, <2>9 DEF Get
  <2>10. CASE TestPorts
    BY <2>10 DEF TestPorts
  <2>11. CASE PowerDown
    BY <2>11 DEF PowerDown
  <2>12. CASE DisableInterrupts
    BY <2>12 DEF DisableInterrupts
  <2>13. CASE StartTimer
    BY <2>13 DEF StartTimer
  <2>14. CASE Wake
    BY <2>14 DEF Wake
  <2>15. CASE Resume
    BY <2>15 DEF Resume
  <2>16. CASE Decide
    BY <2>16 DEF Decide
  <2>17. CASE Callback
    BY <2>17 DEF Callback
  <2>18. CASE ShutDown
    BY <2>18 DEF ShutDown
  <2>19. CASE UNCHANGED vars
    BY <2>19 DEF vars
  <2>. QED
    BY <2>1, <2>2, <2>3, <2>4, <2>5, <2>7, <2>8, <2>9, <2>10, <2>11, <2>12,
       <2>13, <2>14, <2>15, <2>16, <2>17, <2>18, <2>19
       DEF Next, Kernel, Application, Hardware
<1>. QED
  BY <1>1, <1>2, PTL DEF Spec

-----------------------------------------------------------------------------
(* The inductive invariant.  The card is off from File_PowerDown to the    *)
(* end of the suspend; the timer counts exactly in the halted part, and    *)
(* its flag and Suspend's timeout_flag remember only an expiry of this     *)
(* suspend; and a late timeout is forgotten by the next Event_get.         *)
SuspendInv ==
  /\ pc \in {"disable", "code", "halt"} => card = "off"
  /\ timer <=> pc \in {"halt", "awake"}
  /\ timer_flag => timer /\ elapsed
  /\ pc = "decide" /\ timeout => elapsed
  /\ TimeoutsAreReal
  /\ InterruptsRestored
  /\ late \in {0, 1}
  /\ late = 1 => pc \in {"callback", "get", "shut_down", "off"}

LEMMA SuspendInvariant == Spec => []SuspendInv
<1> USE DEF SuspendInv, TimeoutsAreReal, InterruptsRestored
<1>1. Init => SuspendInv
  BY DEF Init
<1>2. TypeOK /\ SuspendInv /\ [Next]_vars => SuspendInv'
  <2> SUFFICES ASSUME TypeOK, SuspendInv, [Next]_vars
               PROVE  SuspendInv'
    OBVIOUS
  <2> USE DEF TypeOK, Points, queueVars, timerVars, portVars
  <2>1. ASSUME NEW s \in Source, RequestInterrupt(s) \/ Handler(s)
        PROVE  SuspendInv'
    BY <2>1 DEF RequestInterrupt, Handler
  <2>2. CASE LinesChange \/ TimerExpires
    BY <2>2 DEF LinesChange, TimerExpires
  <2>3. CASE UseFiles \/ Poll \/ CallWait
    BY <2>3 DEF UseFiles, Poll, Event_get, CallWait
  <2>4. CASE Get
    BY <2>4 DEF Get, Event_get
  <2>5. CASE TestPorts
    BY <2>5 DEF TestPorts
  <2>6. CASE PowerDown
    BY <2>6 DEF PowerDown
  <2>7. CASE DisableInterrupts
    BY <2>7 DEF DisableInterrupts
  <2>8. CASE StartTimer
    BY <2>8 DEF StartTimer
  <2>9. CASE Wake
    BY <2>9 DEF Wake
  <2>10. CASE Resume
    BY <2>10 DEF Resume
  <2>11. CASE Decide
    BY <2>11 DEF Decide
  <2>12. CASE Callback
    BY <2>12 DEF Callback
  <2>13. CASE ShutDown
    BY <2>13 DEF ShutDown
  <2>14. CASE UNCHANGED vars
    BY <2>14 DEF vars
  <2>. QED
    BY <2>1, <2>2, <2>3, <2>4, <2>5, <2>6, <2>7, <2>8, <2>9, <2>10, <2>11,
       <2>12, <2>13, <2>14 DEF Next, Kernel, Application, Hardware
<1>. QED
  BY <1>1, <1>2, TypeCorrect, PTL DEF Spec

(* The CPU never halts with the card powered, with interrupts enabled or   *)
(* without a running timeout.                                              *)
THEOREM SleepIsSafe == Spec => []SleepsSafely
<1>1. SuspendInv => SleepsSafely
  BY DEF SuspendInv, SleepsSafely, InterruptsRestored
<1>. QED
  BY <1>1, SuspendInvariant, PTL

(* Interrupts are off in the suspended window and nowhere else.            *)
THEOREM InterruptsComeBack == Spec => []InterruptsRestored
<1>1. SuspendInv => InterruptsRestored
  BY DEF SuspendInv
<1>. QED
  BY <1>1, SuspendInvariant, PTL

(* No callback and no power-off without a timeout of the same suspend.     *)
THEOREM TimeoutIsReal == Spec => []TimeoutsAreReal
<1>1. SuspendInv => TimeoutsAreReal
  BY DEF SuspendInv
<1>. QED
  BY <1>1, SuspendInvariant, PTL

(* A waiting event costs at most one unjustified timeout.                  *)
THEOREM LateAtMostOnce == Spec => []AtMostOneLateTimeout
<1>1. SuspendInv => AtMostOneLateTimeout
  BY DEF SuspendInv, AtMostOneLateTimeout
<1>. QED
  BY <1>1, SuspendInvariant, PTL

(* Event_wait returns the oldest waiting event and never EVENT_NONE.       *)
THEOREM WaitGivesAnEvent == Spec => WaitReturnsEvent
<1>1. TypeOK /\ [Next]_vars =>
        [InWait /\ pc' = "app" => event' \in Event /\ event' = Head(queue)]_vars
  <2> SUFFICES ASSUME TypeOK, Next, InWait, pc' = "app"
               PROVE  event' \in Event /\ event' = Head(queue)
    OBVIOUS
  <2>1. Get
    BY DEF Next, Kernel, Application, Hardware, InWait, RequestInterrupt,
       Handler, LinesChange, TimerExpires, UseFiles, Poll, CallWait, TestPorts,
       PowerDown, DisableInterrupts, StartTimer, Wake, Resume, Decide,
       Callback, ShutDown
  <2>2. queue # <<>> /\ event' = Head(queue)
    BY <2>1 DEF Get, Event_get
  <2>. QED
    BY <2>2, HeadTailProperties DEF TypeOK
<1>. QED
  BY <1>1, TypeCorrect, PTL DEF Spec, WaitReturnsEvent
=============================================================================
