---------------------------- MODULE SystemProofs ----------------------------
(***************************************************************************)
(* The life of the system for any programs, any images that end below the  *)
(* top of the address space, any page size and any depth of callbacks.     *)
(***************************************************************************)
EXTENDS System, TLAPS

(* An address rounded down is the start of the page it is in.              *)
LEMMA PageOf ==
  ASSUME NEW a \in Nat
  PROVE  /\ RoundDown(a) \in Nat /\ RoundDown(a) <= a
         /\ a < RoundDown(a) + PageSize
<1> DEFINE d == a \div PageSize
<1>1. d \in Nat /\ d * PageSize <= a /\ a < (d + 1) * PageSize
  BY WordAssumption
<1> HIDE DEF d
<1>2. (d + 1) * PageSize = d * PageSize + PageSize
  BY <1>1, WordAssumption
<1>3. d * PageSize \in Nat
  BY <1>1, WordAssumption
<1>. QED
  BY <1>1, <1>2, <1>3, WordAssumption DEF RoundDown, d

(* Rounded up it is the start of a page that does not begin before it.     *)
LEMMA NextPage ==
  ASSUME NEW a \in Nat
  PROVE  RoundUp(a) \in Nat /\ a <= RoundUp(a)
<1>1. a + PageSize - 1 \in Nat
  BY WordAssumption
<1>2. a + PageSize - 1 < RoundDown(a + PageSize - 1) + PageSize
  BY <1>1, PageOf
<1>. QED
  BY <1>1, <1>2, PageOf, WordAssumption DEF RoundUp

(* Up to a page boundary, rounding up does not go beyond it.               *)
LEMMA NextPageWithin ==
  ASSUME NEW a \in Nat, NEW b \in Nat, a <= RoundDown(b)
  PROVE  RoundUp(a) <= RoundDown(b)
<1> DEFINE u == (a + PageSize - 1) \div PageSize
           d == b \div PageSize
<1>1. u \in Nat /\ d \in Nat
  BY WordAssumption
<1>2. u * PageSize <= a + PageSize - 1
  BY WordAssumption
<1>3. RoundUp(a) = u * PageSize /\ RoundDown(b) = d * PageSize
  BY DEF RoundUp, RoundDown
<1> HIDE DEF u, d
<1>4. u * PageSize \in Nat /\ d * PageSize \in Nat
  BY <1>1, WordAssumption
<1>5. u * PageSize < d * PageSize + PageSize
  BY <1>2, <1>3, <1>4, WordAssumption
<1>6. d * PageSize + PageSize = (d + 1) * PageSize
  BY <1>1, WordAssumption
<1>7. u < d + 1
  <2>1. SUFFICES ASSUME d + 1 <= u PROVE FALSE
    BY <1>1
  <2>2. PICK k \in Nat : u = d + 1 + k
    BY <1>1, <2>1
  <2>3. u * PageSize = (d + 1) * PageSize + k * PageSize /\ k * PageSize \in Nat
    BY <1>1, <2>2, WordAssumption
  <2>. QED
    BY <1>4, <1>5, <1>6, <2>3, WordAssumption
<1>8. PICK k \in Nat : d = u + k
  BY <1>1, <1>7
<1>9. d * PageSize = u * PageSize + k * PageSize /\ k * PageSize \in Nat
  BY <1>1, <1>8, WordAssumption
<1>. QED
  BY <1>3, <1>4, <1>9

(* The bounds of a heap are numbers, whatever the image's end.             *)
LEMMA HeapType ==
  ASSUME NEW free \in Nat
  PROVE  SetHeap(free) \in [first : Nat, pages : Nat]
<1> DEFINE space == (RoundDown(Limit) - RoundUp(free)) % WordSize
<1>1. RoundDown(Limit) \in Nat /\ RoundUp(free) \in Nat
  BY PageOf, NextPage, WordAssumption
<1>2. space \in Nat
  BY <1>1, WordAssumption
<1> HIDE DEF space
<1>3. space \div PageSize \in Nat
  BY <1>2, WordAssumption
<1>. QED
  BY <1>1, <1>3 DEF SetHeap, space

(* The heap of an image that ends below the last page boundary under the   *)
(* stack begins behind it and ends below the stack.                        *)
LEMMA HeapBetween ==
  ASSUME NEW free \in Nat, free <= RoundDown(Limit)
  PROVE  /\ free <= SetHeap(free).first
         /\ SetHeap(free).first + SetHeap(free).pages * PageSize <= Limit
<1> DEFINE space == RoundDown(Limit) - RoundUp(free)
           d == space \div PageSize
<1>1. /\ RoundDown(Limit) \in Nat /\ RoundDown(Limit) <= Limit
      /\ RoundUp(free) \in Nat /\ free <= RoundUp(free)
      /\ RoundUp(free) <= RoundDown(Limit)
  BY PageOf, NextPage, NextPageWithin, WordAssumption
<1>2. space \in 0 .. WordSize - 1
  BY <1>1, WordAssumption
<1>3. space % WordSize = space
  BY <1>2, WordAssumption
<1>4. SetHeap(free) = [first |-> RoundUp(free), pages |-> d]
  BY <1>3 DEF SetHeap
<1>5. RoundUp(free) + space = RoundDown(Limit)
  BY <1>1
<1> HIDE DEF space
<1>6. d \in Nat /\ d * PageSize <= space
  BY <1>2, WordAssumption
<1> HIDE DEF d
<1>7. d * PageSize \in Nat
  BY <1>6, WordAssumption
<1>. QED
  BY <1>1, <1>2, <1>4, <1>5, <1>6, <1>7, WordAssumption
-----------------------------------------------------------------------------
(* While a system call or a callback runs, saved_r15 is the application's: *)
(* this is what a call returns with and a callback is entered with.        *)
CallInv ==
  mode = "kernel" \/ (mode = "user" /\ cpu.level > 0) => saved.r15 = "user"

DataInv == CallInv /\ EachHasItsData

(* An application that restores what it installs leaves the kernel's       *)
(* handler to the loader, and no other than its own is ever installed.     *)
HandlerInv ==
  /\ mode = "off" => cpu.interrupted = "no"
  /\ tidy => vector \in {"kernel", asked}
  /\ tidy /\ mode \in {"open", "load"} => vector = "kernel"

(* The loader has read the sections before the one it is at, and knows the *)
(* end of the highest.                                                     *)
LoadInv ==
  /\ mode = "open" => load.section = 1 /\ load.top = 0 /\ ~load.skipped
  /\ mode = "load" /\ ~load.skipped =>
       \A i \in 1 .. load.section - 1 :
         /\ memory[Sections[i]] = asked
         /\ End[asked][Sections[i]] <= load.top
  /\ mode = "load" =>
       load.top = 0 \/ \E s \in Section : load.top = End[asked][s]

IInv == TypeOK /\ DataInv /\ HandlerInv /\ LoadInv /\ CodeIsInMemory

-----------------------------------------------------------------------------
(* A section that cannot be read ends in System_PowerOff.                  *)
LEMMA Failure == ReadFails => Fail(TRUE)
BY Zenon DEF ReadFails

(* Every action keeps the types.                                           *)
LEMMA TypeStep == TypeOK /\ [Next]_vars => TypeOK'
<1> SUFFICES ASSUME TypeOK, [Next]_vars
             PROVE  TypeOK'
  OBVIOUS
<1> USE ProgramAssumption, BoundAssumption DEF TypeOK, InCall, Sections
<1> DEFINE Load == [section : 1 .. Len(Sections) + 1, top : Nat,
                    via : {"boot", "call", "exit"}, faulty : BOOLEAN,
                    skipped : BOOLEAN]
<1>f. ASSUME NEW io \in BOOLEAN, Fail(io)
      PROVE  load' \in Load
  <2>1. load.faulty \/ io \in BOOLEAN
    OBVIOUS
  <2>. QED
    BY <1>f, <2>1 DEF Fail
<1>1. CASE PowerOn
  BY <1>1 DEF PowerOn, Fresh
<1>2. CASE Interrupt
  BY <1>2 DEF Interrupt
<1>3. CASE InterruptReturn
  BY <1>3 DEF InterruptReturn
<1>4. CASE Work
  BY <1>4 DEF Work
<1>5. CASE SystemCall
  BY <1>5 DEF SystemCall
<1>6. CASE SystemCallReturn
  BY <1>6 DEF SystemCallReturn
<1>7. CASE Callback
  <2>1. cpu.level + 1 \in 0 .. MaxLevel
    BY <1>7 DEF Callback
  <2>2. cpu' = [level |-> cpu.level + 1, pc |-> cpu.level + 1, r15 |-> saved.r15,
                interrupted |-> cpu.interrupted]
    BY <1>7 DEF Callback
  <2>. QED
    BY <1>7, <2>1, <2>2 DEF Callback
<1>8. CASE CallbackReturns
  <2>1. cpu.level - 1 \in 0 .. MaxLevel
    BY <1>8 DEF CallbackReturns
  <2>2. cpu' = [level |-> cpu.level - 1, pc |-> cpu.pc, r15 |-> "kernel",
                interrupted |-> cpu.interrupted]
    BY <1>8 DEF CallbackReturns
  <2>. QED
    BY <1>8, <2>1, <2>2 DEF CallbackReturns
<1>9. CASE File_open
  BY <1>9 DEF File_open
<1>10. CASE Vector_set
  BY <1>10 DEF Vector_set
<1>11. CASE PowerOff
  BY <1>11 DEF PowerOff, Stop
<1>12. ASSUME NEW c \in Program \cup {NoName}, System_chain(c)
      PROVE  TypeOK'
  BY <1>12 DEF System_chain, Chain, Fresh
<1>13. ASSUME NEW r \in {"EXIT_RESTART_INIT", "EXIT_POWER_OFF"},
             System_exit(r)
      PROVE  TypeOK'
  <2>1. CASE r = "EXIT_RESTART_INIT"
    <3>1. cpu' = [level |-> cpu.level, pc |-> cpu.pc, r15 |-> "kernel",
                  interrupted |-> cpu.interrupted]
      BY <1>13, <2>1 DEF System_exit
    <3>2. Chain(InitApp, "exit") /\ slots' = 0
      BY <1>13, <2>1 DEF System_exit, File_CloseAll
    <3>3. mode' = "open" /\ asked' \in Program /\ load' \in Load
      BY <3>2 DEF Chain, Fresh
    <3>4. tidy' \in BOOLEAN
      BY <3>2 DEF Chain
    <3>. QED
      BY <1>13, <3>1, <3>2, <3>3, <3>4 DEF System_exit
  <2>2. CASE r # "EXIT_RESTART_INIT"
    BY <1>13, <2>2 DEF System_exit, File_CloseAll, Stop
  <2>. QED
    BY <2>1, <2>2
<1>14. CASE OpenFails
  <2>1. Fail(slots < MaxFiles) /\ (slots < MaxFiles) \in BOOLEAN
    BY <1>14 DEF OpenFails
  <2>2. load' \in Load
    BY <2>1, <1>f
  <2>. QED
    BY <1>14, <2>2 DEF OpenFails, Fail, Stop, File_CloseAll
<1>15. CASE OpenSucceeds
  BY <1>15 DEF OpenSucceeds
<1>16. CASE SkipSection
  <2>1. load.section + 1 \in 1 .. Len(Sections) + 1
    BY <1>16 DEF SkipSection
  <2>. QED
    BY <1>16, <2>1 DEF SkipSection
<1>17. CASE LoadSection
  <2>1. load.section \in 1 .. 3 /\ Sections[load.section] \in Section
    BY <1>17 DEF LoadSection, Runs, Section
  <2>2. End[asked][Sections[load.section]] \in Nat
    BY <2>1, EndAssumption
  <2>3. load' = [section |-> load.section + 1,
                 top |-> Larger(End[asked][Sections[load.section]], load.top),
                 via |-> load.via, faulty |-> load.faulty,
                 skipped |-> load.skipped]
    BY <1>17 DEF LoadSection
  <2>4. load' \in Load
    BY <2>1, <2>2, <2>3 DEF Larger
  <2>5. memory' \in [Section -> Program \cup {"junk"}]
    BY <1>17, <2>1 DEF LoadSection
  <2>. QED
    BY <1>17, <2>4, <2>5 DEF LoadSection
<1>18. CASE ReadFails
  <2>1. load' \in Load
    <3>1. Fail(TRUE)
      BY <1>18, Failure
    <3>2. TRUE \in BOOLEAN
      OBVIOUS
    <3>. QED
      BY <3>1, <3>2, <1>f
  <2>2. memory' \in [Section -> Program \cup {"junk"}]
    BY <1>18 DEF ReadFails
  <2>3. mode' = "off" /\ cpu' = InCall /\ slots' = 0
        /\ UNCHANGED <<saved, vector, asked, heap, tidy>>
    BY <1>18, Failure DEF Fail, Stop, File_CloseAll
  <2>. QED
    BY <2>1, <2>2, <2>3
<1>19. CASE Execute
  <2>1. SetHeap(load.top) \in [first : Nat, pages : Nat]
    BY HeapType
  <2>. QED
    BY <1>19, <2>1 DEF Execute, File_CloseAll
<1>20. CASE Astray
  BY <1>20 DEF Astray, Stop
<1>21. CASE UNCHANGED vars
  BY <1>21 DEF vars
<1>. QED
  BY <1>1, <1>2, <1>3, <1>4, <1>5, <1>6, <1>7, <1>8, <1>9, <1>10,
     <1>11, <1>12, <1>13, <1>14, <1>15, <1>16, <1>17, <1>18, <1>19,
     <1>20, <1>21 DEF Next, Loading

(* Every action leaves everybody with their own data.                      *)
LEMMA DataStep == TypeOK /\ DataInv /\ [Next]_vars => DataInv'
<1> SUFFICES ASSUME TypeOK, DataInv, [Next]_vars
             PROVE  DataInv'
  OBVIOUS
<1> USE DEF TypeOK, DataInv, CallInv, EachHasItsData, InCall, Runs
<1>1. CASE PowerOn
  BY <1>1 DEF PowerOn, Fresh
<1>2. CASE Interrupt
  BY <1>2 DEF Interrupt
<1>3. CASE InterruptReturn
  BY <1>3 DEF InterruptReturn
<1>4. CASE Work
  BY <1>4 DEF Work
<1>5. CASE SystemCall
  BY <1>5 DEF SystemCall
<1>6. CASE SystemCallReturn
  BY <1>6 DEF SystemCallReturn
<1>7. CASE Callback
  BY <1>7 DEF Callback
<1>8. CASE CallbackReturns
  BY <1>8 DEF CallbackReturns
<1>9. CASE File_open
  BY <1>9 DEF File_open
<1>10. CASE Vector_set
  BY <1>10 DEF Vector_set
<1>11. CASE PowerOff
  BY <1>11 DEF PowerOff, Stop
<1>12. ASSUME NEW c \in Program \cup {NoName}, System_chain(c)
      PROVE  DataInv'
  BY <1>12 DEF System_chain, Chain, Fresh
<1>13. ASSUME NEW r \in {"EXIT_RESTART_INIT", "EXIT_POWER_OFF"},
             System_exit(r)
      PROVE  DataInv'
  BY <1>13 DEF System_exit, File_CloseAll, Chain, Stop, Fresh
<1>14. CASE OpenFails
  BY <1>14 DEF OpenFails, Fail, Stop, File_CloseAll
<1>15. CASE OpenSucceeds
  BY <1>15 DEF OpenSucceeds
<1>16. CASE SkipSection
  BY <1>16 DEF SkipSection
<1>17. CASE LoadSection
  BY <1>17 DEF LoadSection
<1>18. CASE ReadFails
  BY <1>18 DEF ReadFails, Fail, Stop, File_CloseAll
<1>19. CASE Execute
  BY <1>19 DEF Execute, File_CloseAll
<1>20. CASE Astray
  BY <1>20 DEF Astray, Stop
<1>21. CASE UNCHANGED vars
  BY <1>21 DEF vars
<1>. QED
  BY <1>1, <1>2, <1>3, <1>4, <1>5, <1>6, <1>7, <1>8, <1>9, <1>10,
     <1>11, <1>12, <1>13, <1>14, <1>15, <1>16, <1>17, <1>18, <1>19,
     <1>20, <1>21 DEF Next, Loading

(* Every action keeps handlers, loaded sections and the code in order.     *)
LEMMA CodeStep ==
  TypeOK /\ HandlerInv /\ LoadInv /\ CodeIsInMemory /\ [Next]_vars
  => HandlerInv' /\ LoadInv' /\ CodeIsInMemory'
<1> SUFFICES ASSUME TypeOK, HandlerInv, LoadInv, CodeIsInMemory, [Next]_vars
             PROVE  (HandlerInv /\ LoadInv /\ CodeIsInMemory)'
  OBVIOUS
<1> USE ProgramAssumption DEF TypeOK, HandlerInv, LoadInv, CodeIsInMemory, InCall, Runs, Sections
<1>1. CASE PowerOn
  BY <1>1 DEF PowerOn, Fresh
<1>2. CASE Interrupt
  BY <1>2 DEF Interrupt
<1>3. CASE InterruptReturn
  BY <1>3 DEF InterruptReturn
<1>4. CASE Work
  <2>1. memory'["text"] = memory["text"] /\ mode = "user"
    BY <1>4 DEF Work, Section
  <2>2. UNCHANGED <<mode, cpu, saved, vector, asked, load, slots, heap, tidy>>
    BY <1>4 DEF Work
  <2>. QED
    BY <2>1, <2>2
<1>5. CASE SystemCall
  BY <1>5 DEF SystemCall
<1>6. CASE SystemCallReturn
  BY <1>6 DEF SystemCallReturn
<1>7. CASE Callback
  BY <1>7 DEF Callback
<1>8. CASE CallbackReturns
  BY <1>8 DEF CallbackReturns
<1>9. CASE File_open
  BY <1>9 DEF File_open
<1>10. CASE Vector_set
  BY <1>10 DEF Vector_set
<1>11. CASE PowerOff
  BY <1>11 DEF PowerOff, Stop
<1>12. ASSUME NEW c \in Program \cup {NoName}, System_chain(c)
      PROVE  (HandlerInv /\ LoadInv /\ CodeIsInMemory)'
  BY <1>12 DEF System_chain, Chain, Fresh
<1>13. ASSUME NEW r \in {"EXIT_RESTART_INIT", "EXIT_POWER_OFF"},
             System_exit(r)
      PROVE  (HandlerInv /\ LoadInv /\ CodeIsInMemory)'
  <2>1. CASE r = "EXIT_RESTART_INIT"
    <3>1. /\ mode' = "open" /\ load' = Fresh("exit")
          /\ tidy' = (tidy /\ vector = "kernel")
          /\ cpu'.interrupted = "no" /\ vector' = vector
      BY <1>13, <2>1 DEF System_exit, Chain
    <3>. QED
      BY <3>1 DEF Fresh
  <2>2. CASE r # "EXIT_RESTART_INIT"
    <3>1. /\ mode' = "off" /\ cpu' = InCall
          /\ UNCHANGED <<vector, asked, tidy>>
      BY <1>13, <2>2 DEF System_exit, Stop
    <3>. QED
      BY <3>1
  <2>. QED
    BY <2>1, <2>2
<1>14. CASE OpenFails
  BY <1>14 DEF OpenFails, Fail, Stop, File_CloseAll
<1>15. CASE OpenSucceeds
  BY <1>15 DEF OpenSucceeds
<1>16. CASE SkipSection
  BY <1>16 DEF SkipSection
<1>17. CASE LoadSection
  <2> DEFINE n == load.section
             s == Sections[n]
  <2>1. n \in 1 .. 3 /\ s \in Section /\ mode = "load"
    BY <1>17 DEF LoadSection, Section
  <2>2. /\ memory' = [memory EXCEPT ![s] = asked]
        /\ load'.section = n + 1 /\ load'.top = Larger(End[asked][s], load.top)
        /\ load'.skipped = load.skipped
        /\ UNCHANGED <<mode, cpu, vector, asked, tidy>>
    BY <1>17 DEF LoadSection
  <2>3. /\ load'.top \in Nat /\ load.top <= load'.top
        /\ End[asked][s] <= load'.top
        /\ load'.top \in {load.top, End[asked][s]}
    BY <2>1, <2>2, EndAssumption DEF Larger
  <2>4. ASSUME ~load.skipped, NEW i \in 1 .. n
        PROVE  memory'[Sections[i]] = asked /\ End[asked][Sections[i]] <= load'.top
    <3>1. CASE i = n
      BY <2>1, <2>2, <2>3, <3>1
    <3>2. CASE i # n
      <4>1. i \in 1 .. n - 1 /\ Sections[i] # s /\ Sections[i] \in Section
        BY <2>1, <3>2 DEF Section
      <4>2. memory[Sections[i]] = asked /\ End[asked][Sections[i]] <= load.top
        BY <2>1, <2>4, <4>1
      <4>3. End[asked][Sections[i]] \in Nat
        BY <4>1, EndAssumption
      <4>. QED
        BY <2>1, <2>2, <2>3, <4>1, <4>2, <4>3
    <3>. QED
      BY <3>1, <3>2
  <2>5. LoadInv'
    BY <2>1, <2>2, <2>3, <2>4
  <2>6. HandlerInv' /\ CodeIsInMemory'
    BY <2>1, <2>2
  <2>. QED
    BY <2>5, <2>6
<1>18. CASE ReadFails
  BY <1>18 DEF ReadFails, Fail, Stop, File_CloseAll
<1>19. CASE Execute
  BY <1>19 DEF Execute, File_CloseAll
<1>20. CASE Astray
  BY <1>20 DEF Astray, Stop
<1>21. CASE UNCHANGED vars
  BY <1>21 DEF vars
<1>. QED
  BY <1>1, <1>2, <1>3, <1>4, <1>5, <1>6, <1>7, <1>8, <1>9, <1>10,
     <1>11, <1>12, <1>13, <1>14, <1>15, <1>16, <1>17, <1>18, <1>19,
     <1>20, <1>21 DEF Next, Loading
-----------------------------------------------------------------------------
(* The invariant holds when the kernel starts.                             *)
LEMMA Start == Init => IInv
<1> SUFFICES ASSUME Init PROVE IInv
  OBVIOUS
<1> USE ProgramAssumption, BoundAssumption DEF Init, InCall, Fresh, Sections
<1>1. TypeOK
  BY DEF TypeOK
<1>2. DataInv
  BY DEF DataInv, CallInv, EachHasItsData
<1>3. HandlerInv /\ LoadInv /\ CodeIsInMemory
  BY DEF HandlerInv, LoadInv, CodeIsInMemory
<1>. QED
  BY <1>1, <1>2, <1>3 DEF IInv

(* The invariant from which the rest follows.                              *)
THEOREM Inductive == Spec => []IInv
<1>1. Init => IInv
  BY Start
<1>2. IInv /\ [Next]_vars => IInv'
  BY TypeStep, DataStep, CodeStep DEF IInv
<1>. QED
  BY <1>1, <1>2, PTL DEF Spec

(* Every variable has its type, the file control blocks and the callbacks  *)
(* on the stack within their limits, in every state that can be reached.   *)
THEOREM TypeCorrect == Spec => []TypeOK
<1>1. IInv => TypeOK
  BY DEF IInv
<1>. QED
  BY <1>1, Inductive, PTL

(* Everybody sees their own data: user code and callbacks the              *)
(* application's, system calls and the loader the kernel's, wherever       *)
(* interrupts come and however callbacks and calls are nested (syscall.c   *)
(* 65-110, interrupt.h 63-71).                                             *)
THEOREM EverybodysData == Spec => []EachHasItsData
<1>1. IInv => EachHasItsData
  BY DEF IInv, DataInv
<1>. QED
  BY <1>1, Inductive, PTL

(* Code runs only where its program is in memory: the loader never returns *)
(* to the application it overwrites, and a handler is there when its       *)
(* interrupt comes if applications restore the vectors they set (system.c  *)
(* 205-221, elf32.c 167-176).                                              *)
THEOREM CodeStaysInMemory == Spec => []CodeIsInMemory
<1>1. IInv => CodeIsInMemory
  BY DEF IInv
<1>. QED
  BY <1>1, Inductive, PTL

(* Only Execute leads from the loader to the application.                  *)
LEMMA EntersByExecute ==
  ASSUME TypeOK, [Next]_vars, mode = "load", mode' = "user"
  PROVE  Execute
BY DEF TypeOK, Next, Loading, vars, PowerOn, Interrupt, InterruptReturn, Runs,
   Work, SystemCall, SystemCallReturn, Callback, CallbackReturns, File_open,
   Vector_set, PowerOff, Stop, System_chain, Chain, System_exit, OpenFails,
   OpenSucceeds, SkipSection, LoadSection, ReadFails, Fail, Astray

(* An application starts with every section as it was linked and, if its   *)
(* image ends below the last whole page under the stack, with a heap that  *)
(* shares no byte with either (elf32.c 164-219, memory.c 102-114).         *)
THEOREM ApplicationStartsAsLinked == Spec => StartsAsLinked
<1> DEFINE Linked ==
      mode = "load" /\ mode' = "user" /\ ~load.skipped
      => /\ \A s \in Section : memory[s] = asked
         /\ (\A s \in Section : End[asked][s] <= RoundDown(Limit))
            => /\ \A s \in Section : End[asked][s] <= heap'.first
               /\ heap'.first + heap'.pages * PageSize <= Limit
<1>1. ASSUME IInv, [Next]_vars
      PROVE  Linked
  <2> SUFFICES ASSUME mode = "load", mode' = "user", ~load.skipped
               PROVE  /\ \A s \in Section : memory[s] = asked
                      /\ (\A s \in Section : End[asked][s] <= RoundDown(Limit))
                         => /\ \A s \in Section : End[asked][s] <= heap'.first
                            /\ heap'.first + heap'.pages * PageSize <= Limit
    OBVIOUS
  <2>1. load.section = 4 /\ heap' = SetHeap(load.top)
    <3>1. Execute
      BY <1>1, EntersByExecute DEF IInv
    <3>. QED
      BY <1>1, <3>1 DEF IInv, TypeOK, Execute, Sections
  <2>2. load.top \in Nat /\ asked \in Program
    BY <1>1 DEF IInv, TypeOK
  <2>3. \A i \in 1 .. 3 : /\ memory[Sections[i]] = asked
                          /\ End[asked][Sections[i]] <= load.top
    BY <1>1, <2>1 DEF IInv, LoadInv
  <2>4. ASSUME NEW s \in Section
        PROVE  \E i \in 1 .. 3 : s = Sections[i]
    BY DEF Section, Sections
  <2>5. \A s \in Section : memory[s] = asked /\ End[asked][s] <= load.top
    BY <2>3, <2>4
  <2>6. ASSUME \A s \in Section : End[asked][s] <= RoundDown(Limit)
        PROVE  /\ \A s \in Section : End[asked][s] <= heap'.first
               /\ heap'.first + heap'.pages * PageSize <= Limit
    <3>1. RoundDown(Limit) \in Nat
      BY PageOf, WordAssumption
    <3>2. load.top <= RoundDown(Limit)
      BY <1>1, <2>6, <3>1 DEF IInv, LoadInv
    <3>3. /\ load.top <= heap'.first
          /\ heap'.first + heap'.pages * PageSize <= Limit
      BY <2>1, <2>2, <3>2, HeapBetween
    <3>4. heap'.first \in Nat
      BY <2>1, <2>2, NextPage DEF SetHeap
    <3>5. \A s \in Section : End[asked][s] \in Nat
      BY <2>2, EndAssumption
    <3>. QED
      BY <2>2, <2>5, <3>3, <3>4, <3>5
  <2>. QED
    BY <2>5, <2>6
<1>2. IInv /\ [Next]_vars => [Linked]_vars
  BY <1>1
<1>. QED
  BY <1>2, Inductive, PTL DEF Spec, StartsAsLinked
=============================================================================
