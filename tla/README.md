# A verification project for the grifo kernel and its neighbours

The repository holds the firmware of the OpenMoko WikiReader (an S1C33 system
on a chip with a touch panel, three keys, an LCD and an SD card), the `grifo`
kernel that replaced the older `mahatma`, the `wiki-app` that runs on it, and
`wrdk`, a development kit with a serial boot loader. The specifications in this
directory are about the code of the repository itself, chiefly
`samo-lib/grifo/src`; what is vendored (FatFs, lzma, the tool chain, most of
the renderer) is either left out or present only through how it is called.

## Inventory

| Component | State it keeps | Operations | Talks to |
|---|---|---|---|
| event queue (`grifo/src/event.c`) | array of 256 slots, head, tail | `Event_put` (handlers), `Event_get`, `Event_flush` | every driver, every application |
| waiting and suspend (`event.c`, `suspend.c`) | interrupt enable, timer 2, clocks, SDRAM refresh | `Event_wait`, `Suspend`, `SuspendCode` | queue, files (card power), user callback, power off |
| input drivers (`button.c`, `CTP.c`) | reported key states; touch parser, x, y, touch flag | three interrupt handlers | queue |
| files (`file.c`) | 512 file and 64 directory control blocks, mount, card power | 17 calls, `File_PowerDown`, `File_CloseAll` | FatFs, `drivers/src/mmc.c`, suspend |
| memory (`memory.c`) | linked list of headers in the heap's pages | `Memory_SetHeap`, `Memory_allocate`, `Memory_free` | system (a new heap per application) |
| life cycle (`system.c`, `main.c`, `elf32.c`) | command line of the next application | exit, chain, panic, reboot, loading of sections | files, memory, suspend |
| system calls (`syscall.c`, `interrupt.h`, `vector.c`) | one `saved_pc`, one `saved_r15`, the vector table | the exception handler, user callbacks, `Vector_set` | everything |
| timer, watchdog, vectors, LCD, serial, analog | registers | mostly straight-line register programs | - |
| boot loader (`wrdk/loader`, `wrdk/python`) | input buffer; host's view | frames of commands and replies; reset, load, go | a serial line that delays and loses |
| history (`wiki-app/history.c`) | history and viewing lists, what is unsaved, `wiki.hst` | add, previous, log and set position, clear, init, save | the screens in `lcd_buf_draw.c`, the main loop in `wikilib.c`, files |
| rest of wiki-app | article caches, keyboard, search | event loop over grifo's calls | files, memory, events |
| mahatma, drivers, mbr, flash, forth, host-tools, testudo | - | - | - |

What is hard in it:

* **Interrupts.** Handlers put events at any instruction of the main thread
  at which interrupts are enabled; in particular between `Event_get` finding
  nothing and the `halt` in `SuspendCode`.
* **Power.** A suspend switches the SD card off under files that applications
  hold open; each file call restores it, and what a card that does not answer
  leaves behind has to be lived with.
* **Fixed tables.** Ring, handles and heap are fixed in size; behaviour at the
  limit, at wrap-around and after long sequences of legal calls is what no
  test of the repository covers (the examples under `grifo/examples` are
  demonstrations).
* **Hand-over between applications.** The kernel keeps running: whatever one
  application leaves open must be gone when the next begins, and the loader
  overwrites the very program that asked it to load another.
* **Two bases of data.** Kernel and application each have their own value of
  r15, which interrupts, system calls and callbacks switch back and forth.
* **Two programs on one line.** The host that loads a program may be stopped
  at any time and run again, on a device that is still in the last command.
* **State kept twice.** The reader's history is two lists and a file, written
  some seconds after the change.

For each component, what makes it correct: the queue is a FIFO that loses
events only when full; waiting delivers what arrives and sleeps safely; a file
handle means the file it was opened on for as long as it is held, over any
number of suspends; allocated blocks never overlap, hold what was asked for,
and are refused only for want of room; code runs only where its program is in
memory, with its own data, and starts as linked; a program that is loaded over
the line is started only when it was verified; the history names each article
once and remembers where it was left. `PROJECT.json` lists every component
with its status, and under `hazards` the lines where each of these could go
wrong.

## Modules

| Module | Models | Instantiated by |
|---|---|---|
| `EventRing` | the ring of `event.c` as operators on a ring value | - |
| `EventQueue` | the three operations as atomic actions (each runs with interrupts off) | `MCEventQueue` |
| `BoundedFifo` | abstract: a bounded first-in first-out queue | refined by `EventQueue` |
| `EventWait` | `Event_wait` and `Suspend` step by step, interrupt sources, timer 2 | `MCEventWait` |
| `InputDrivers` | the handlers of `button.c` and `CTP.c` with their own state, the queue, the application | `MCInputDrivers` |
| `FileTable` | every call of `file.c` | `MCFileTable` |
| `Memory` | `memory.c`, one action per turn of its loops | `MCMemory` |
| `PageHeap` | abstract: blocks of pages without overlap, refusals only when full | refined by `Memory` |
| `System` | boot, system calls and callbacks, interrupts, the loading of the next application | `MCSystem` |
| `Loader` | the device's loader and the host's program on a serial line | `MCLoader` |
| `History` | `history.c` as its callers drive it, and its file | `MCHistory` |
| `EventQueueProofs`, `EventWaitProofs`, `InputDriversProofs`, `FileTableProofs`, `MemoryProofs`, `SystemProofs`, `LoaderProofs`, `HistoryProofs` | theorems about the modules they name | - |

### The event queue

`EventRing` has the slots, `head` and `tail` as numbers instead of pointers and
one operator per operation of `event.c`. `EventQueue` makes them actions. An
event's contents and time stamp are a member of `Event`. The refinement maps
the ring to the sequence of slots from head to tail.

### Waiting

`EventWait` gives the main thread a step between any two points at which an
interrupt can be served: `Get`, `TestPorts`, `PowerDown`, `DisableInterrupts`,
`StartTimer`, `Wake`, `Resume`, `Decide`, `Callback`, `ShutDown` follow
`Event_wait` (event.c 98-107), `Suspend` (suspend.c 79-122) and `SuspendCode`
(130-374) in order. A handler runs to its end once its request is pending and
interrupts are enabled, and deposits one of the bursts of events its source can
put. The queue is the FIFO the ring is proved to implement; `Deposit` is one
`Event_put` after the other. The state of the lines that `Suspend` tests is
`idle`. Clock, SDRAM and pin registers are only in what must be true while they
are switched: interrupts on hold, card off (`SleepsSafely`). `overslept` is
history: an event was already in the queue when the CPU halted. It tells the
gap before the halt from an event that arrives after the timeout.

### Input drivers

`InputDrivers` has the same FIFO, and beside it what the drivers remember: the
keys reported as pressed (`state`), and the parser of `CTP.c` with its
coordinates and its flag (`touch_state`, `x`, `y`, `touch`). A run of
`Button_KeyInterrupt` reads any combination of keys, so the keys themselves,
the comparison register and the interrupt controller are left out; a run of
`CTP_interrupt` is one step for each byte, and the next byte is any byte, which
covers lost and garbled ones. The keys that changed are reported in increasing
order (`InOrder`). A byte is one of the six classes the parser
tells apart; a coordinate is known by whether both its parts are from the
packet under way. `packet`, `told`, `behind` and `missed` are history: the
packet received so far, what the events taken told the application, and what
was dropped by a full queue or by `Event_flush`. The power button has no state
and its events are in the queue only to fill it.

### Files

`FileTable` keeps the two tables as the sets of slots with `IsOpen` set, the
FIL and DIR objects as the file they refer to or nothing, and the card as on or
off. FatFs is there as `file.c` meets it: a call by name goes through
`auto_mount` (tff.c 650-754), which keeps everything if the drive is ready and
mounted and otherwise initialises and mounts it anew, invalidating every
object; a call by handle goes through `validate` (763-775). Whether the card
answers is chosen anew in each call. `FA__WRITTEN` is `dirty`, cleared before
the last write of `f_sync` can fail. The handles an application passes are all
integers as far as the code tells them apart: -1, every slot, one past the end.

### Memory

`Memory` takes one step per turn of the loop of `Memory_allocate` and of
`ConsolidateHeap`, on an array of what each page holds as a header. Headers of
joined blocks stay in memory as they do in the code, so that a wrong release
finds them; `Use` is the application overwriting the pages behind a block's
first. A release may be of any page, also of one inside a block in use.
`RequiredPages` has its arithmetic modulo `WordSize`. The `previous`
pointers, the names in the headers and the display of the heap are left out.
The history variables `heads`, `live` and `reply` record the list's pages, the
blocks out and the last result.

### The system's life

`System` is about who runs, on whose data, and what is in memory. `mode` says
whether user code, a system call or the loader has the processor; `cpu` has
r15 as the owner of the data it points to, the callbacks on the stack
(`level`) and the level whose user code runs (`pc`); `saved` is the pair of
variables that the exception handler fills. An interrupt may come after any
step and saves r15 on its own stack. System calls that matter elsewhere are an
action each (`File_open`, `Vector_set`, `PowerOff`, `System_chain`,
`System_exit`); any other call is `SystemCall` followed by `SystemCallReturn`.

`Chain` (system.c 148-205) is followed by `OpenFails` or `OpenSucceeds`, one
`LoadSection`, `SkipSection` or `ReadFails` for each section (elf32.c
168-224), and `Execute`. `memory` has, for each place that sections are linked
to, the program whose section it holds; `Work` is the application spoiling its
data. The image's ends are constants (`End`) and `SetHeap` has the arithmetic
of `Memory_SetHeap` modulo `WordSize`. What `FileTable` and `Memory` have in
detail is here a number of slots in use and the two bounds of the heap.
Panic, reboot and power off all stop the machine.

A return to the wrong place is followed no further (`Astray`). `load.skipped`
and `tidy` are history: a section header that could not be read, after which
the code goes on without the section, and an application that left a handler
of its own installed. The properties say nothing of programs loaded or left in
these two ways; the code has no answer to them.

### The boot loader

`Loader` has the device as the state of `receive()` and one action for each
command that a load uses, each a whole turn of `loader()`; and the host as one
action for each thing it waits for: the `!` after a reset, an answer to each
write, to the checksum and to go. A token of the line is a byte of data, or the
header of a frame, which is its letter with its arguments; answers are their
text, with one token for the end of a line. The line to the device may lose any
byte: of a header all, the letter (what then comes first is the 1 of the
address, which is no command), or a part of the arguments (`Damaged`). The
loader checks nothing, so a frame whose header was lost is obeyed by the first
byte of its data: `Command` looks at what is first in the buffer. A command
whose arguments nobody sent may write anywhere (`WriteAstray`), say something
(`AnswerAstray`) or not come back (`LeaveAstray`: a jump, a copy over the
loader, another speed); that is also how M, m, B and ?, which a load does not use, come
in. `torn` is history: a header was lost or damaged. From then on the
loader may run anything, and the properties about what it runs are silent;
whatever else the line loses is caught by the checksum
(`StartsWhatWasVerified`). `Stopped` leaves
any part of what was being written on the line. `Deliver` and `Lose` are the
line. Two things are taken from outside the code: everything that was on its
way has arrived, both ways, when the half second of `reset` is over (at 115200
baud the longest frame takes a tenth of that), and a device that DTR resets loses
what was on its way to it. The reset line need not be wired, and memory may or
may not survive it.

### The reader's history

`History` has the two lists as sequences, the first `history_count` and
`viewing_count` entries of the arrays, and one action for each way the
interface reaches `history.c`: an article from the search, a link or the random
key (`OpenFound`), from the history screen, from the corner for the previous
article, scrolling, clearing. An article that cannot be read shows an error
page instead, after `saved_idx_article` and the viewing list were changed.
`FirstSearched` is the variable that `history_add` uses in two loops.

An article is drawn bit by bit in the main loop. `ShowFirstPage` is the moment
at which its text fills a page (lcd_buf_draw.c 655-671): its top is shown, and
then the position at which it is to open (`init_y`) is asked for, with
`display_article_with_pcf`, as scrolling does. What is already drawn is shown
and logged; what is not becomes `request`, which `ShowRequested` shows later
without logging it. `EndRender` is the end of the text, which shows an
article of less than a page. Positions are counted from the start of the text;
`Start` is its height on the screen below links to other languages and the
mark of a restricted article, or more than any position where the text fits on
one page. The code compares one with the other (`Reopens`), so that a position
up to the start's height is dropped and the article opens at its top. A request
outlives its article when the reader leaves it with a key, and touches are
refused while there is one (`Touchable`). How much is drawn is not
counted: whether a position is there already is a choice of each step.

Saving is
in two steps, with the file emptied in between, and may fail; what `wl_write`
returns is not looked at, so any prefix may be in the file. The three degrees
of `history_changed` and of the pause are kept. A restart comes at any time.

`left`, `due`, `exact` and `broken` are history. `left` is where each article
was last logged, which after a `ShowRequested` is not where it was last shown; `due`
is where an article chosen on the history screen has to appear, until the reader
scrolls it or goes elsewhere. `exact` becomes false when the
reused index first misses an entry and when an error page is scrolled (which
logs a position for another article); `NoDuplicates` and `ResumesWhereLeft` say
nothing after that. `LogsTheShown` and `NothingUnsaved` hold throughout.

## Runs

| Run | Expect | Shows |
|---|---|---|
| `event_queue` | pass | the ring implements the FIFO |
| `event_wait` | pass | safe sleep, interrupts restored, timeouts real, events delivered, requests handled |
| `event_wait_callback` | violation | the timeout is reported over an event that waited before the halt |
| `input_drivers` | pass | application and drivers agree on keys and touch; packets found again after lost bytes |
| `file_table` | pass | handles over suspends, remounts, failures, hand-over |
| `file_open_limit` | violation | a closed file keeps its slot |
| `file_close_all` | violation | handle 0 is never closed by `File_CloseAll` |
| `memory` | pass | tiling, no leak, sizes, refinement of `PageHeap`, termination |
| `system` | pass | code and data in their places; programs start as linked with a heap of their own; a restart reaches `init.app` |
| `system_callback` | violation | a callback that makes a system call spoils the return address of the call that runs it |
| `loader` | pass | what is acknowledged is stored; only whole frames are obeyed; only what was verified is started, as long as no header is lost |
| `history` | pass | each article once, logged positions found again, nothing unsaved |

Bounds. The ring has five slots and two events: both positions wrap
independently and every distance between them occurs. `event_wait` has two
sources, a key and the panel, and a queue of two, so that a burst meets an
empty, a partly filled and a full queue; nothing else in the model counts
upwards (`late` is bounded by what the run shows). `input_drivers` has two keys
and a queue of two: runs of the handler that report none, one or two keys, with
room for all, for the first only or for none, and every sequence of bytes
(nothing bounds it; packets are counted to five). `file_table` has two files,
two slots and two directory slots: one file open twice, one slot reused beside
a held one, full tables; the names of files are a symmetry set. `memory` has
heaps of 0 to 4 pages of 4 bytes and five-bit words, with requests of 1, 2 and
3 pages and one whose arithmetic wraps: enough for a free block between two
taken ones, joins of two and three blocks, splits and exact fits. All of
these sizes are parameters in the proofs.

`system` has three programs of three sections in pages of four bytes: one that
leaves a heap, one that ends at the last page boundary below the stack, one
beyond it; two file slots, so that a chain can meet a full table; and two
callbacks on the stack. Neither the sections' order of ends nor their number
matters beyond a last section that is not the highest. `loader` has an image of
three bytes in two chunks: in the first one that must be escaped, before one
that must not, in the second the letter c, so that without its header it is a
command; three runs of
the host (one to be cut off, one whose late answers meet the third), three polls
in a reset instead of some hundreds, two losses, and one byte that a misled
command may write. `history` has three articles and two lists of two entries,
so that both overflow, an article can be found, missed or dropped in either,
and a search that begins late still finds its entry or misses it; two
positions, the top and another; one article with links above its text, in
which the other position is dropped on reopening, and two without, which are a
symmetry set.

Deadlock is checked except for `EventWait`, where the device switches off, and
`Loader`, where the runs of the host are bounded.

Fairness. `EventWait`: the kernel's code keeps running (weak fairness of
`Kernel`; the callback is assumed to return), a running timer expires, and a
request that meets enabled interrupts again and again is taken. The last is
strong fairness because `Suspend` masks interrupts periodically; the hardware
takes a pending request at the first instruction with interrupts enabled.
Nothing obliges users or applications. `Memory`: inside a call the kernel runs
until it returns (weak fairness of `Search`). `System`: interrupt handlers
return (none of them waits), and the loader gets on in spite of interrupts,
which is strong fairness because an interrupt disables its next step; the
devices' rates leave it most of the time. Nothing obliges an application to
return or to exit. The other modules state no fairness and no liveness:
in `Loader` and `History` everything waits for a person.

Every property of a passing run has a mutant in `PROJECT.json`: a variant of
one operator, defined just above it (`PutWithoutFullTest`, `ResumeMasked`,
`JoinNothing`, ...), with which the property fails. These variants model no
code.

## What disagrees with the repository's own words

1. `event.h` 83-84 has the callback run instead of returning "no event".
   `Event_wait` tests the queue with interrupts enabled before it suspends, and
   `Suspend` does not test it again: an event that arrives in between waits for
   the next key or for the two minute timeout, after which the callback runs,
   or the device switches off, with the event undelivered. The property
   (`CallbackInsteadOfNone`) forbids a callback only over events queued before
   the halt, so it would hold if the queue were tested again with interrupts
   off. What does hold:
   this happens to a waiting event at most once (`AtMostOneLateTimeout`) and it
   is delivered unless the device is switched off (`WaitDelivers`).
2. `file.c` 35 calls the table's size the number of files open
   "simultaneously". `File_close` never clears `IsOpen`, so 512 is the number
   of files an application can open in its life. Directories are right
   (`DirectoriesReusable`).
3. `event.h` 85 lets the callback of a wait answer true "to wait another
   timeout period". The kernel has one place for the return address of a system
   call (`syscall.c` 44 says so): if the callback has made a call of its own,
   as the callback of `examples/events/events.c` does, the wait returns into
   the callback instead of to its caller (`ReturnsToCaller`). What does hold,
   however calls and callbacks are nested: everybody sees their own data
   (`EachHasItsData`).
4. `suspend.h` 31 promises to close all files before the power goes.
   `File_CloseAll` closes handles 1 to 512, of 0 to 511.

## Proofs

All theorems hold for every value of the constants under the assumptions named
in the modules (`QueueSizeAssumption`, `NoneAssumption`, `CapacityAssumption`,
`BurstsAssumption`, `MaxFilesAssumption`, `MaxDirectoriesAssumption`,
`NoFileAssumption`, `MaxPagesAssumption`, `PageAssumption`, `SizeAssumption`,
`KeysAssumption`, `ProgramAssumption`, `EndAssumption`, `WordAssumption`,
`BoundAssumption`, `ArticleAssumption`, `PositionAssumption`,
`StartAssumption`, `ImageAssumption`, `ChunkAssumption`, `BlankAssumption`,
`GarbageAssumption`). They say no more
than that sizes are positive numbers and that a special value is none of the
ordinary ones, with two exceptions that the code's constants satisfy: the
viewing list has at least two entries (`MAX_VIEWING_LIST` is 30), and no image
ends within a page of the last address (`WordAssumption`; the SDRAM and its
limit are at the start of the address space).

* **EventQueue.** First the arithmetic of a ring: what `Put`, `Rest` and
  `Flushed` do to `Contents`, by cases on wrap-around (`PutContents`,
  `RestContents`, `FlushedContents`); then `TypeCorrect`, `NothingInvented` and
  the refinement `RingIsFifo`. The inductive invariant is the type together with
  `NoGarbage`; the slots outside head to tail may hold anything.
* **EventWait.** `SuspendInvariant` ties the program counter to the interrupt
  enable bit, the timer, the card and the two history variables at each point;
  `SleepIsSafe`, `InterruptsComeBack`, `TimeoutIsReal` and `LateAtMostOnce` are
  read off from it. That a timeout is reported over a waiting event at most
  once needs that the next step after it is `Get`. `WaitGivesAnEvent` is an
  action property from the type invariant.
* **FileTable.** `OwnershipHolds` is the strengthening: held handles are open
  slots, held directories are exactly the open ones, and as long as the card
  has always answered every held object is valid and a card is mounted if
  anything is held, which is why a later call by name does not mount anew
  (`MountKeeps`). `SuspendIsTransparent`, `DirectorySlotsReused` and the
  action properties `HandlesKeepTheirFiles` and `HandlesRefusedExactly` follow.
* **Memory.** `IInv` has the list's shape during a search (`Shape`: while
  `ConsolidateHeap` runs, the block it extends is followed by `q`, not by its
  own `next`), `NothingLeaks`, that a taken block has the pages its size
  requires (`Sized`), where the search stands (`Cursor`), and that no long
  enough free run begins before it (`Searched`). The last is what makes a
  refusal right and therefore what `HeapImplemented` needs; it holds because
  after joining a block is followed by a taken one, so a run that begins in a
  block too short cannot extend beyond it. `TypeCorrect`, `ListIsTiling`,
  `NoLeak` and `RequestsFit` follow from the same invariant.
* **InputDrivers.** The last event about a key or the panel in the queue decides
  what the application will know of it (`LastAbout`, `KnowsLast`), so an event
  that is put sets it and one that is taken changes nothing. `OrderInv` has
  `ApplicationCatchesUp` and `EventsMakeSense`, each of which needs the other's
  state: a new event makes sense because the application will have heard what
  the driver notes. It also needs `behind \subseteq missed`. `ParserInv` says
  that the parser is where the bytes since the last 0xaa put it, and what they
  left in the coordinates. `PutFacts` and `PutStep` tell the events of one
  handler that found room from the rest.
  `WholePacketsAlwaysReported` and `TouchedAlwaysWhereReported` are read off
  `ParserInv`, step by step.
* **System.** `DataInv` is `EachHasItsData` with what makes it inductive: while
  a system call or a callback runs, `saved.r15` is the application's
  (`CallInv`), which is what a call returns with and a callback is entered
  with. `HandlerInv` says that an application that restores what it installs
  leaves the kernel's handler to the loader, and `LoadInv` that the sections
  before the one the loader is at hold what was asked for and end below
  `load.top`; `CodeStaysInMemory` and `ApplicationStartsAsLinked` follow, the
  latter with the lemma `HeapBetween` on the arithmetic of `Memory_SetHeap`,
  which does not wrap around for an image that ends below the stack.
* **History.** `Acts` and `Open` gather what the ways to an article have in
  common, so that lists change by three operations only: an entry put in front
  (`PushedFacts`, `AddStep`), one moved (`MovedFacts`), all dropped. `ListInv`
  has `NoDuplicates` of the list and of the file and that every position in the
  list is the one the article was left at, both while `exact`; `ShownInv` is
  `LogsTheShown` and that only the article screen shows an article;
  `SavedInv` is `NothingUnsaved` and that the application sleeps only on what
  it takes for saved. `DueInv` is about an article that was chosen on the
  history screen and not yet scrolled: if its first page is still to come,
  `init_y` is where it was last logged (`AimedAtLast`); after that what is
  shown, or what is requested, is `due`. Its steps are those of the display
  (`DisplayStep`, `DrawStep`, `FirstPageStep`, `RequestedStep`,
  `EndRenderStep`). `ResumesWhereLeft` is read off it.
* **Loader.** For any image, any chunk size, any number of runs of the host,
  stopped anywhere, and a line that loses any number of tokens. The invariant
  has two halves. The device's: `BufferInv`, what is stored and what the line
  still brings finds a place each in the buffer (`Fits`, kept by
  `JoinedFits`, `RestFits` and `FirstFits`), and Ctrl-C's come before a frame
  and its end comes last (`Ordered`); `WholeInv`, an end on a line that lost
  nothing is that of a frame still as it was sent, or stored up to some byte,
  or with this byte's escape taken (`InTransit`); `VerifiedInv`, a go that is
  on its way or in the buffer finds verified memory. The host's: `SyncInv`,
  while the host makes itself heard only Ctrl-C's are on the line, and the end
  of a line can only come from a device that listens with an empty buffer,
  later than any k (`InTurn`), so that from then on no answer of an earlier
  run can be mistaken for one of this; `ReplyInv`, a host that waits has its
  own frame on the way or else the one answer to it, which is true of the
  memory (`Good`); `StoredInv`, the image is in memory up to the chunk that is
  waited for. `AnswerIs` is the heart of it: what the host takes for an answer
  is the device's last word and leaves both directions of the line empty.
  `TypeCorrect`, `AcknowledgedAlwaysStored`, `OnlyWholeFramesObeyed` and
  `StartsOnlyVerified` follow. The first holds whatever is lost, of headers
  too. The checksum of the last holds as long as no header is lost or damaged:
  `LedInv` says that what is in the buffer then begins with a header as it was
  sent, or that one will come before anything that is stored.
  The others need `lost = 0`, and say so. `Checksum` is
  never unfolded: that memory with the checksum of the image is the image is
  not claimed, and after a loss it need not be. `Encode` is a recursive
  function over the places of the bytes, which `FromFirst` shows to exist for
  every chunk.

TLC has checked each of the last four invariants on the instance of its run
(with finite ranges for the numbers of `Loader`'s).
The proof about `InputDrivers` found that two guards of a `CASE` of the model
overlapped; they were made disjoint.

Every safety property of the passing runs is a theorem. Only model-checked:
`WaitDelivers`, `RequestsHandled`, `AllocateReturns` and `RestartRunsInit`
(liveness, which the prover does not handle), and the four violations.

## Not modelled, and why

* The contents of files and the card's file system: `FileTable` says which file
  a handle refers to, not what is in it; FatFs is vendored.
* Drawing, printing, analog readings, register set-up: no state shared between
  actors. A watchdog reset during a long file operation is out for the same
  reason: its time is not modelled.
* `Timer_get` (timer.c 146-159): the two halves are two counters, the carry of
  the one reaching the other through two pins. Whether two equal readings of
  the high half vouch for the low half depends on the delay on that way, which
  is in no file of the repository.
* In the boot loader, the commands that a load does not use except as a frame
  without its header may be taken for them, the speed of the line and the
  progress dots; loss on the way to the host, whose runs may time out or be
  stopped at any point anyhow; a command longer than the buffer, which the host
  never sends.
* In the wiki application, titles, what is drawn, search and the password
  screens before restricted articles; a history file that cannot be read or that this
  program did not write.
* `mahatma` (the older kernel, replaced by grifo), the flash and boot tools,
  the drivers that serve only these, the batch tools that run on a PC, the
  production test, `malloc-simple` (an allocator for `mahatma`; `Memory` has
  grifo's).
* `toolchain` (gcc, binutils and their libraries, well over nine tenths of the
  repository's lines), FatFs, lzma, mini-libc and the renderer's PHP are
  vendored. The share of the whole repository that the modules stand for is
  therefore far below one per cent, although nearly all of the stateful code of
  grifo is in them, and no modelling of the repository's own code could make it
  otherwise.

## Plan

1. *(done)* `EventRing`, `EventQueue`, `BoundedFifo`; `EventWait`; `FileTable`;
   `Memory`, `PageHeap`; their proofs.
2. *(done)* `InputDrivers`, `System`, `Loader`, `History`, with their runs.
3. *(done)* Proofs about `System`, `InputDrivers` and `History`.
4. *(done)* Proofs about `Loader`. What is left to TLC is liveness, for which
   the prover has no rules.
