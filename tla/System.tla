------------------------------- MODULE System -------------------------------
(***************************************************************************)
(* The life of the kernel and of the application it runs: boot, system     *)
(* calls through the software exception (samo-lib/grifo/src/syscall.c),    *)
(* user callbacks, interrupts, and the loading of the next application     *)
(* over the last (system.c, elf32.c, vector.c, memory.c).                  *)
(*                                                                         *)
(* Register r15 is the base of all static data: the kernel's and an        *)
(* application's differ.  The stack alternates user code and the kernel    *)
(* routines it called: level 0 is the application's main program, level n  *)
(* a callback that the routine called by level n - 1 runs.                 *)
(***************************************************************************)
EXTENDS Integers, Sequences, FiniteSets

CONSTANTS
  Program,   \* names of ELF files on the card
  InitApp,   \* "init.app"
  NoName,    \* an empty command, and ArgumentStrings[0] before the first
  End,       \* End[p][s]: where section s of program p ends, in bytes
  Limit,     \* __MAIN_STACK_LIMIT, below which the stack never gets
  PageSize,  \* of the heap (256)
  WordSize,  \* 2^32
  MaxFiles,  \* size of FileControlBlock
  MaxLevel   \* bound: callbacks on the stack at a time

(* The sections that occupy memory, in the order of the section headers.   *)
Sections == <<"text", "bss", "data">>
Section == {"text", "bss", "data"}

ASSUME ProgramAssumption ==
  /\ InitApp \in Program /\ NoName \notin Program
  /\ {"kernel", "junk"} \cap Program = {}
ASSUME EndAssumption == End \in [Program -> [Section -> Nat]]
ASSUME WordAssumption ==
  /\ PageSize \in Nat \ {0} /\ WordSize \in Nat \ {0} /\ Limit \in Nat
  /\ Limit < WordSize
  /\ \A p \in Program, s \in Section : End[p][s] + PageSize < WordSize
ASSUME BoundAssumption == MaxFiles \in Nat \ {0} /\ MaxLevel \in Nat

VARIABLES
  mode,    \* who has the processor: "user", "kernel" (a system call),
           \* "open" or "load" (System_chain), or it is "off"
  cpu,     \* level: callbacks on the stack; pc: the level whose user code
           \* runs; r15: whose data it points to; interrupted: the r15 that
           \* an interrupt handler in progress saved, or "no"
  saved,   \* saved_r15, and the level that saved_pc returns to
  vector,  \* who installed the handler of an interrupt
  asked,   \* ArgumentStrings[0]: the program run, or being loaded
  memory,  \* the program whose section, as linked, each place holds
  load,    \* ELF32_load's i and *highest_free_address; and (history) what
           \* led to this load, whether the card or a file was bad in it,
           \* and whether a section header could not be read
  slots,   \* file control blocks in use
  heap,    \* FirstPageAddress and TotalPages
  tidy     \* no program was left with its handler installed (history)

vars == <<mode, cpu, saved, vector, asked, memory, load, slots, heap, tidy>>

InCall == [level |-> 0, pc |-> 0, r15 |-> "kernel", interrupted |-> "no"]

Fresh(via) == [section |-> 1, top |-> 0, via |-> via, faulty |-> FALSE,
               skipped |-> FALSE]

(* process in main.c: the kernel's own vectors, no file open, no heap, and *)
(* then the chain to init.app.                                             *)
Init ==
  /\ mode = "open" /\ cpu = InCall
  /\ saved = [r15 |-> "kernel", pc |-> 0]
  /\ vector = "kernel" /\ asked = InitApp
  /\ memory = [s \in Section |-> "junk"] /\ load = Fresh("boot")
  /\ slots = 0 /\ heap = [first |-> 0, pages |-> 0] /\ tidy = TRUE

(* Power comes back, or the reset that System_reboot waits for.            *)
PowerOn ==
  /\ mode = "off" /\ mode' = "open" /\ cpu' = InCall
  /\ saved' = [r15 |-> "kernel", pc |-> 0]
  /\ vector' = "kernel" /\ asked' = InitApp
  /\ memory' = [s \in Section |-> "junk"] /\ load' = Fresh("boot")
  /\ slots' = 0 /\ heap' = [first |-> 0, pages |-> 0] /\ tidy' = TRUE

-----------------------------------------------------------------------------
(* Interrupts, possible whenever the machine runs and no handler does.     *)
(* The kernel's handlers switch to its data (Interrupt_SaveR15); one that  *)
(* an application has installed uses the application's.                    *)
Interrupt ==
  /\ mode # "off" /\ cpu.interrupted = "no"
  /\ cpu' = [cpu EXCEPT !.interrupted = cpu.r15,
               !.r15 = IF vector = "kernel" THEN "kernel" ELSE "user"]
  /\ UNCHANGED <<mode, saved, vector, asked, memory, load, slots, heap, tidy>>

InterruptReturn ==
  /\ cpu.interrupted # "no"
  /\ cpu' = [cpu EXCEPT !.r15 = cpu.interrupted, !.interrupted = "no"]
  /\ UNCHANGED <<mode, saved, vector, asked, memory, load, slots, heap, tidy>>

(* The main thread runs; its user code only where the stack says.          *)
Runs(m) ==
  /\ mode = m /\ cpu.interrupted = "no"
  /\ m = "user" => cpu.pc = cpu.level

-----------------------------------------------------------------------------
(* The application changes its data.                                       *)
Work ==
  /\ Runs("user")
  /\ memory' = [memory EXCEPT !["bss"] = "junk", !["data"] = "junk"]
  /\ UNCHANGED <<mode, cpu, saved, vector, asked, load, slots, heap, tidy>>

(* The software exception's handler, up to its reti.                       *)
SystemCall ==
  /\ Runs("user")
  /\ saved' = [r15 |-> cpu.r15, pc |-> cpu.pc]
  /\ cpu' = [cpu EXCEPT !.r15 = "kernel"]
  /\ mode' = "kernel"
  /\ UNCHANGED <<vector, asked, memory, load, slots, heap, tidy>>

(* restore_r15, where the routine returns to.                              *)
SystemCallReturn ==
  /\ Runs("kernel")
  /\ cpu' = [cpu EXCEPT !.r15 = saved.r15, !.pc = saved.pc]
  /\ mode' = "user"
  /\ UNCHANGED <<saved, vector, asked, memory, load, slots, heap, tidy>>

(* SystemCall_BoolUserCallback, on a timeout of Event_wait, and its end.   *)
Callback ==
  /\ Runs("kernel") /\ cpu.level < MaxLevel
  /\ cpu' = [cpu EXCEPT !.level = @ + 1, !.pc = cpu.level + 1,
                         !.r15 = saved.r15]
  /\ mode' = "user"
  /\ UNCHANGED <<saved, vector, asked, memory, load, slots, heap, tidy>>

CallbackEndsInUserData ==
  /\ Runs("user") /\ cpu.level > 0
  /\ cpu' = [cpu EXCEPT !.level = @ - 1]
  /\ mode' = "kernel"
  /\ UNCHANGED <<saved, vector, asked, memory, load, slots, heap, tidy>>

CallbackReturns ==
  /\ Runs("user") /\ cpu.level > 0
  /\ cpu' = [cpu EXCEPT !.level = @ - 1, !.r15 = "kernel"]
  /\ mode' = "kernel"
  /\ UNCHANGED <<saved, vector, asked, memory, load, slots, heap, tidy>>

-----------------------------------------------------------------------------
(* The system calls that matter here.  A file control block stays in use   *)
(* until File_CloseAll.                                                    *)
File_open ==
  /\ Runs("kernel") /\ slots < MaxFiles
  /\ slots' = slots + 1
  /\ UNCHANGED <<mode, cpu, saved, vector, asked, memory, load, heap, tidy>>

Vector_set ==
  /\ Runs("kernel")
  /\ vector' \in {"kernel", asked}
  /\ UNCHANGED <<mode, cpu, saved, asked, memory, load, slots, heap, tidy>>

Stop == mode' = "off" /\ cpu' = InCall

KeepFiles == UNCHANGED slots

File_CloseAll == slots' = 0

(* System_PowerOff and System_panic as system calls, and a user callback   *)
(* that does not want to wait on.                                          *)
PowerOff ==
  /\ Runs("kernel") /\ Stop
  /\ UNCHANGED <<saved, vector, asked, memory, load, slots, heap, tidy>>

ChainForgettingNames(command, cause) ==
  /\ mode' = "open" /\ asked' = command
  /\ load' = Fresh(cause)
  /\ tidy' = (tidy /\ vector = "kernel")

(* System_chain up to ELF32_load.  An empty command leaves the name of the *)
(* program before.                                                         *)
Chain(command, cause) ==
  /\ mode' = "open"
  /\ asked' = IF command = NoName THEN asked ELSE command
  /\ load' = Fresh(cause)
  /\ tidy' = (tidy /\ vector = "kernel")

System_chain(command) ==
  /\ Runs("kernel")
  /\ Chain(command, "call")
  /\ UNCHANGED <<cpu, saved, vector, memory, slots, heap>>

(* System_exit as a system call, or main returning to ExecuteUserCode.     *)
System_exit(result) ==
  /\ Runs("kernel") \/ (Runs("user") /\ cpu.level = 0)
  /\ File_CloseAll
  /\ IF result = "EXIT_RESTART_INIT"
     THEN Chain(InitApp, "exit") /\ cpu' = [cpu EXCEPT !.r15 = "kernel"]
     ELSE Stop /\ UNCHANGED <<asked, load, tidy>>
  /\ UNCHANGED <<saved, vector, memory, heap>>

-----------------------------------------------------------------------------
(* A load that fails ends in File_CloseAll and System_PowerOff.            *)
FailKeepsRunning(io) ==
  /\ mode' = "kernel" /\ File_CloseAll
  /\ load' = [load EXCEPT !.faulty = @ \/ io]
  /\ UNCHANGED <<cpu, saved, vector, asked, heap, tidy>>

Fail(io) ==
  /\ Stop /\ File_CloseAll
  /\ load' = [load EXCEPT !.faulty = @ \/ io]
  /\ UNCHANGED <<saved, vector, asked, heap, tidy>>

(* File_open and the checks of the header in ELF32_load.                   *)
OpenFails ==
  /\ Runs("open")
  /\ Fail(slots < MaxFiles)
  /\ UNCHANGED memory

OpenSucceeds ==
  /\ Runs("open") /\ slots < MaxFiles
  /\ mode' = "load" /\ slots' = slots + 1
  /\ UNCHANGED <<cpu, saved, vector, asked, memory, load, heap, tidy>>

LastEnd(a, b) == a

Larger(a, b) == IF a > b THEN a ELSE b

(* One turn of the loop over the sections: the header cannot be read and   *)
(* the section is passed over, it is read or zeroed, or the read fails.    *)
SkipSection ==
  /\ Runs("load") /\ load.section <= Len(Sections)
  /\ load' = [load EXCEPT !.section = @ + 1, !.faulty = TRUE, !.skipped = TRUE]
  /\ UNCHANGED <<mode, cpu, saved, vector, asked, memory, slots, heap, tidy>>

LoadSection ==
  /\ Runs("load") /\ load.section <= Len(Sections)
  /\ LET s == Sections[load.section] IN
     /\ memory' = [memory EXCEPT ![s] = asked]
     /\ load' = [load EXCEPT !.section = @ + 1,
                             !.top = Larger(End[asked][s], @)]
  /\ UNCHANGED <<mode, cpu, saved, vector, asked, slots, heap, tidy>>

ReadFails ==
  /\ Runs("load") /\ load.section <= Len(Sections)
  /\ Sections[load.section] # "bss"
  /\ memory' = [memory EXCEPT ![Sections[load.section]] = "junk"]
  /\ Fail(TRUE)

RoundDown(a) == (a \div PageSize) * PageSize
RoundUp(a)   == RoundDown(a + PageSize - 1)

(* Memory_SetHeap, in unsigned arithmetic.                                 *)
SetHeap(free) ==
  [first |-> RoundUp(free),
   pages |-> ((RoundDown(Limit) - RoundUp(free)) % WordSize) \div PageSize]

(* File_CloseAll, Memory_SetHeap and ExecuteUserCode.                      *)
Execute ==
  /\ Runs("load") /\ load.section > Len(Sections)
  /\ File_CloseAll /\ heap' = SetHeap(load.top)
  /\ mode' = "user" /\ cpu' = [InCall EXCEPT !.r15 = "user"]
  /\ UNCHANGED <<saved, vector, asked, memory, load, tidy>>

Loading == OpenFails \/ OpenSucceeds \/ SkipSection \/ LoadSection \/ ReadFails
           \/ Execute

(* A return that went astray: what runs then is not modelled, and in the   *)
(* end the watchdog or the user stops it.                                  *)
Astray ==
  /\ mode = "user" /\ cpu.interrupted = "no" /\ cpu.pc # cpu.level /\ Stop
  /\ UNCHANGED <<saved, vector, asked, memory, load, slots, heap, tidy>>

Next ==
  \/ PowerOn \/ Interrupt \/ InterruptReturn
  \/ Work \/ SystemCall \/ SystemCallReturn \/ Callback \/ CallbackReturns
  \/ File_open \/ Vector_set \/ PowerOff
  \/ \E c \in Program \cup {NoName} : System_chain(c)
  \/ \E r \in {"EXIT_RESTART_INIT", "EXIT_POWER_OFF"} : System_exit(r)
  \/ Loading \/ Astray

(* Interrupt handlers return, and leave the program interrupted some of    *)
(* the processor's time.                                                   *)
Fairness == WF_vars(InterruptReturn) /\ SF_vars(Loading)

Spec == Init /\ [][Next]_vars /\ Fairness
-----------------------------------------------------------------------------
(* Type invariant.  The sections loaded so far hold what was asked for,    *)
(* and r15 is saved from user code only.                                   *)
TypeOK ==
  /\ mode \in {"user", "kernel", "open", "load", "off"}
  /\ cpu \in [level : 0 .. MaxLevel, pc : 0 .. MaxLevel,
              r15 : {"user", "kernel"}, interrupted : {"user", "kernel", "no"}]
  /\ saved \in [r15 : {"user", "kernel"}, pc : 0 .. MaxLevel]
  /\ vector \in Program \cup {"kernel"} /\ asked \in Program
  /\ memory \in [Section -> Program \cup {"junk"}]
  /\ load \in [section : 1 .. Len(Sections) + 1, top : Nat,
               via : {"boot", "call", "exit"}, faulty : BOOLEAN,
               skipped : BOOLEAN]
  /\ slots \in 0 .. MaxFiles /\ heap \in [first : Nat, pages : Nat]
  /\ tidy \in BOOLEAN

(* Code runs only where its program is in memory.  The loader overwrites   *)
(* the application that called System_chain, so it may not return to it    *)
(* whatever fails (system.c 205-221); and an interrupt finds the code of   *)
(* its handler as long as applications restore the vectors they set.  An   *)
(* unreadable section header is passed over (elf32.c 167-176).             *)
CodeIsInMemory ==
  /\ mode \in {"user", "kernel"} /\ ~load.skipped => memory["text"] = asked
  /\ cpu.interrupted # "no" /\ vector # "kernel" /\ tidy /\ ~load.skipped
     => memory["text"] = vector

(* Everybody sees their own data: user code, callbacks included, runs with *)
(* the application's r15, system calls and the loader with the kernel's,   *)
(* wherever interrupts came and however callbacks and calls are nested     *)
(* (syscall.c 65-110, interrupt.h 63-71).                                  *)
EachHasItsData ==
  /\ cpu.interrupted # "no" /\ vector = "kernel" => cpu.r15 = "kernel"
  /\ LET own == IF cpu.interrupted = "no" THEN cpu.r15 ELSE cpu.interrupted IN
     /\ mode = "user" => own = "user"
     /\ mode \in {"kernel", "open", "load"} => own = "kernel"

(* An application starts with every section as it was linked, the same     *)
(* program run again too, and with a heap that shares no byte with them or *)
(* with the stack, if its image ends below the last whole page under the   *)
(* stack (elf32.c 164-219, memory.c 102-114).                              *)
StartsAsLinked ==
  [][ mode = "load" /\ mode' = "user" /\ ~load.skipped
      => /\ \A s \in Section : memory[s] = asked
         /\ (\A s \in Section : End[asked][s] <= RoundDown(Limit))
            => /\ \A s \in Section : End[asked][s] <= heap'.first
               /\ heap'.first + heap'.pages * PageSize <= Limit ]_vars

(* EXIT_RESTART_INIT runs init.app unless the card or the file is bad: the *)
(* files of the application that exits never stand in the way (system.c    *)
(* 123-144; a chain by system call can fail for want of a file slot).      *)
RestartRunsInit ==
  mode = "open" /\ load.via = "exit"
  ~> (mode = "user" /\ asked = InitApp) \/ load.faulty

(* event.h 85: a callback "returns true to wait another timeout period",   *)
(* after which the wait returns to its caller; and the examples' callback  *)
(* makes system calls of its own (events.c 101-107).  The code keeps one   *)
(* return address for all calls.                                           *)
ReturnsToCaller == mode = "user" => cpu.pc = cpu.level
=============================================================================
