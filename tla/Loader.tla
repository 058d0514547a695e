------------------------------- MODULE Loader -------------------------------
(***************************************************************************)
(* Loading a program over the serial line: the loader on the device        *)
(* (wrdk/loader/loader.c, main.c) and the host that drives it              *)
(* (wrdk/python/wrdk/loader.py), which may be stopped at any time and run  *)
(* again, and gives up by itself when an answer is late or is not the one  *)
(* it expects.                                                             *)
(*                                                                         *)
(* Bytes of data are integers; the command letter and the arguments after  *)
(* it are one token, the header of a frame.  The line to the device loses  *)
(* bytes: of a header it loses the letter, a part of the arguments or all. *)
(* The loader checks nothing (loader.c 42-48): it then obeys whatever is   *)
(* first in its buffer, so that of the commands that a load does not use   *)
(* those are modelled that may be obeyed by accident.                      *)
(***************************************************************************)
EXTENDS Integers, Sequences, SequencesExt

CONSTANTS
  Image,        \* the bytes of the program
  ChunkSize,    \* bytes per write (256)
  Blank,        \* what memory holds before anything is loaded
  MaxSessions,  \* bound: runs of the host's program
  MaxPolls,     \* bound: Ctrl-C's sent by one reset (some 600 fit in 6 s)
  MaxLost,      \* bound: losses of the line
  Garbage       \* bytes that a command with wrong arguments may write

ASSUME ImageAssumption == Image \in Seq(0 .. 255) /\ Image # <<>>
ASSUME ChunkAssumption == ChunkSize \in Nat \ {0}
ASSUME BlankAssumption == Blank \in 0 .. 255
ASSUME BoundAssumption ==
  MaxSessions \in Nat /\ MaxPolls \in Nat \ {0} /\ MaxLost \in Nat
ASSUME GarbageAssumption == Garbage \subseteq 0 .. 255 /\ Garbage # {}

Address == 0 .. Len(Image) - 1
Offset == {o \in Address : o % ChunkSize = 0}

VARIABLES
  host,      \* pc: where Loader.reset or load is; await: the command that
             \* get() follows; at: the chunk; msg: get()'s; polls: of reset
  device,    \* mode: booting, in loader() or in the program; command: the
             \* buffer up to pat; escaped: of receive()
  memory,    \* the device's, where the program goes
  toDevice,  \* what the host has written and the device not yet seen
  toHost,    \* what the device has sent and is not yet in the host's buffer
  input,     \* what a read of the host would return
  sessions,  \* runs of the host's program so far
  acked,     \* chunks for which this run has accepted a k (history)
  lost,      \* losses so far (history)
  torn       \* a header has been lost or damaged (history)

line == <<toDevice, toHost, input>>
vars == <<host, device, memory, line, sessions, acked, lost, torn>>

Char(c)  == <<"char", c>>
CtrlC    == Char(3)
CR       == Char(13)
Esc      == Char(125)
Mark(m)  == <<m, 0>>       \* a byte of a reply: "!", "k", "?", end of line
EndOfLine == Mark("eol")
Damaged  == -1             \* arguments that the line has not left as they were

Init ==
  /\ host = [pc |-> "idle", await |-> "!", at |-> 0, msg |-> <<>>, polls |-> 0]
  /\ device \in [mode : {"loader", "program"}, command : {<<>>},
                 escaped : {FALSE}]
  /\ memory = [a \in Address |-> Blank]
  /\ toDevice = <<>> /\ toHost = <<>> /\ input = <<>>
  /\ sessions = 0 /\ acked = {} /\ lost = 0 /\ torn = FALSE

-----------------------------------------------------------------------------
(* The line.                                                               *)
Deliver ==
  /\ toHost # <<>>
  /\ input' = Append(input, Head(toHost)) /\ toHost' = Tail(toHost)
  /\ UNCHANGED <<host, device, memory, toDevice, sessions, acked, lost, torn>>

(* A byte is lost.  Without its letter a header begins with the 1 of the   *)
(* address, which is no command.                                           *)
IsHeader(t) == t[1] # "char"

LoseByte ==
  /\ toDevice' = Tail(toDevice)
  /\ torn' = (torn \/ IsHeader(Head(toDevice)))

LosePartOfHeader ==
  /\ IsHeader(Head(toDevice)) /\ torn' = TRUE
  /\ \E t \in {<<Head(toDevice)[1], Damaged>>, Char(49)} :
       toDevice' = [toDevice EXCEPT ![1] = t]

Lose ==
  /\ toDevice # <<>> /\ lost < MaxLost
  /\ LoseByte \/ LosePartOfHeader
  /\ lost' = lost + 1
  /\ UNCHANGED <<host, device, memory, toHost, input, sessions, acked>>

-----------------------------------------------------------------------------
(* The device.  c XOR 0x20:                                                *)
Flip(c) == IF (c \div 32) % 2 = 1 THEN c - 32 ELSE c + 32

Reply(tokens) == toHost' = toHost \o tokens \o <<EndOfLine>>

(* A device that boots, or runs the program, does not listen.              *)
Ignore ==
  /\ device.mode # "loader" /\ toDevice # <<>>
  /\ toDevice' = Tail(toDevice)
  /\ UNCHANGED <<host, device, memory, toHost, input, sessions, acked,
                 lost, torn>>

Boot ==
  /\ device.mode = "boot"
  /\ device' = [device EXCEPT !.mode = "loader"]
  /\ toHost' = Append(toHost, Mark("!"))
  /\ UNCHANGED <<host, memory, toDevice, input, sessions, acked, lost, torn>>

(* The program returns to the loader, or goes on for ever.                 *)
ProgramReturns ==
  /\ device.mode = "program"
  /\ device' = [device EXCEPT !.mode = "loader"]
  /\ memory' \in {memory, [a \in Address |-> Blank]}
  /\ Reply(<<Mark("k")>>)
  /\ UNCHANGED <<host, toDevice, input, sessions, acked, lost, torn>>

Receives(tokens) ==
  /\ device.mode = "loader" /\ toDevice # <<>> /\ Head(toDevice) \in tokens
  /\ toDevice' = Tail(toDevice)

Restart(command) ==
  device' = [device EXCEPT !.command = command, !.escaped = FALSE]

CtrlCKeepsBuffer ==
  /\ Receives({CtrlC})
  /\ Reply(<<Mark("!")>>)
  /\ UNCHANGED <<host, device, memory, input, sessions, acked, lost, torn>>

(* receive() returns at once and dispatch() answers.                       *)
ReceiveCtrlC ==
  /\ Receives({CtrlC})
  /\ Restart(<<>>)
  /\ Reply(<<Mark("!")>>)
  /\ UNCHANGED <<host, memory, input, sessions, acked, lost, torn>>

ReceiveEsc ==
  /\ Receives({Esc})
  /\ device' = [device EXCEPT !.escaped = TRUE]
  /\ UNCHANGED <<host, memory, toHost, input, sessions, acked, lost, torn>>

StoreLeavingEscaped(t) ==
  device' = [device EXCEPT !.command = Append(@, IF device.escaped
                             THEN <<t[1], Flip(t[2])>> ELSE t)]

Store(t) ==
  device' = [device EXCEPT
    !.command = Append(@, IF device.escaped THEN <<t[1], Flip(t[2])>> ELSE t),
    !.escaped = FALSE]

ReceiveByte ==
  /\ toDevice # <<>> /\ Receives({Head(toDevice)} \ {CtrlC, Esc, CR})
  /\ Store(Head(toDevice))
  /\ UNCHANGED <<host, memory, toHost, input, sessions, acked, lost, torn>>

Checksum(bytes) == FoldFunction(LAMBDA a, b : a + b, 0, bytes) % 65536

Written(o, data) ==
  [a \in Address |-> IF a - o + 1 \in DOMAIN data THEN data[a - o + 1][2]
                     ELSE memory[a]]

(* The end of a frame: the command is what is first in the buffer, if the  *)
(* header is lost a byte of data.                                          *)
First == Head(device.command)
Named(b) == CASE b = 88 -> "X" [] b = 117 -> "u" [] b = 99 -> "c"
              [] b = 77 -> "M" [] b = 66 -> "B" [] b = 109 -> "m"
              [] b = 63 -> "?" [] b = 3 -> "!" [] OTHER -> "none"
Command == IF device.command = <<>> THEN "none"
           ELSE IF IsHeader(First) THEN First[1] ELSE Named(First[2])

AsSent == device.command # <<>> /\ IsHeader(First) /\ First[2] # Damaged

Dispatch(command) ==
  /\ Receives({CR}) /\ Command = command
  /\ UNCHANGED <<host, input, sessions, acked, lost, torn>>

WriteBinary ==
  /\ AsSent /\ Dispatch("X")
  /\ memory' = Written(First[2], Tail(device.command))
  /\ Reply(<<Mark("k")>>) /\ Restart(<<>>)

GiveChecksum ==
  /\ AsSent /\ Dispatch("u")
  /\ Reply(<< <<"sum", Checksum(memory)>> >>) /\ Restart(<<>>)
  /\ UNCHANGED memory

(* What runs is not the loader any more, and does not listen.              *)
Leave == device' = [mode |-> "program", command |-> <<>>, escaped |-> FALSE]

ChangeExecution ==
  /\ AsSent /\ Dispatch("c")
  /\ Leave
  /\ UNCHANGED <<memory, toHost>>

Unrecognised ==
  /\ Dispatch("none")
  /\ Reply(<<Mark("?")>>) /\ Restart(<<>>)
  /\ UNCHANGED memory

(* Commands whose arguments nobody sent.  One may write anywhere;          *)
Spoilt ==
  { [a \in Address |-> IF a \in S THEN g[a] ELSE memory[a]] :
      S \in SUBSET Address, g \in [Address -> Garbage] }

Astray(commands) == ~AsSent /\ \E command \in commands : Dispatch(command)

WriteAstray ==
  /\ Astray({"X", "M", "B"})
  /\ memory' \in Spoilt
  /\ Reply(<<Mark("k")>>) /\ Restart(<<>>)

(* or say something: ! for a Ctrl-C as data, a text (? for any), a sum that *)
(* may be the right one;                                                   *)
AnswerAstray ==
  /\ Astray({"u", "m", "?", "!"})
  /\ \E t \in {Mark("!"), Mark("?"), <<"sum", Checksum(Image)>>} : Reply(<<t>>)
  /\ Restart(<<>>)
  /\ UNCHANGED memory

(* or not come back: a jump anywhere, a copy over the loader itself or past *)
(* the end of the frame, a baud rate that nobody else uses.                *)
LeaveAstray ==
  /\ Astray({"c", "X", "M", "B"})
  /\ Leave
  /\ memory' \in Spoilt
  /\ UNCHANGED toHost

Device == Ignore \/ Boot \/ ProgramReturns \/ ReceiveCtrlC \/ ReceiveEsc
          \/ ReceiveByte \/ WriteBinary \/ GiveChecksum \/ ChangeExecution
          \/ Unrecognised \/ WriteAstray \/ AnswerAstray \/ LeaveAstray

-----------------------------------------------------------------------------
(* The host.                                                               *)
At(pc) == host.pc = pc
GoTo(pc) == host' = [host EXCEPT !.pc = pc]
Send(tokens) == toDevice' = toDevice \o tokens

(* write_bin's payload.                                                    *)
Special == {13, 10, 3, 125}

Escaped(b) == IF b \in Special THEN <<Esc, Char(Flip(b))>> ELSE <<Char(b)>>

(* What is written for the bytes from the n-th on, for each n.             *)
EncodedFrom(data) ==
  LET from[n \in 1 .. Len(data) + 1] ==
        IF n > Len(data) THEN <<>> ELSE Escaped(data[n]) \o from[n + 1]
  IN  from

Encode(data) == EncodedFrom(data)[1]

Chunk(o) == SubSeq(Image, o + 1, IF o + ChunkSize > Len(Image) THEN Len(Image)
                                 ELSE o + ChunkSize)

(* setDTR(False), which resets the device if the line is wired; and the    *)
(* half second of sleep, longer than anything stays on the line.           *)
Reset ==
  /\ At("idle") /\ sessions < MaxSessions
  /\ sessions' = sessions + 1 /\ acked' = {}
  /\ host' = [pc |-> "sleep", await |-> "!", at |-> 0, msg |-> <<>>,
              polls |-> 0]
  /\ \/ UNCHANGED <<device, memory, toDevice>>
     \/ /\ device' = [mode |-> "boot", command |-> <<>>, escaped |-> FALSE]
        /\ memory' \in {memory, [a \in Address |-> Blank]}
        /\ toDevice' = <<>>
  /\ UNCHANGED <<toHost, input, lost, torn>>

WakeAtOnce ==
  /\ At("sleep")
  /\ GoTo("poll")
  /\ UNCHANGED <<device, memory, line, sessions, acked, lost, torn>>

Awake ==
  /\ At("sleep") /\ toDevice = <<>> /\ toHost = <<>>
  /\ GoTo("poll")
  /\ UNCHANGED <<device, memory, line, sessions, acked, lost, torn>>

Poll ==
  /\ At("poll") /\ host.polls < MaxPolls
  /\ Send(<<CtrlC>>)
  /\ host' = [host EXCEPT !.pc = "look", !.polls = @ + 1]
  /\ UNCHANGED <<device, memory, toHost, input, sessions, acked, lost, torn>>

(* read() of one character, or of none in time.                            *)
Look ==
  /\ At("look")
  /\ GoTo(IF input # <<>> /\ Head(input) = Mark("!") THEN "drain" ELSE "poll")
  /\ input' = IF input = <<>> THEN input ELSE Tail(input)
  /\ UNCHANGED <<device, memory, toDevice, toHost, sessions, acked,
                 lost, torn>>

Await(command, o) ==
  host' = [host EXCEPT !.pc = "get", !.await = command, !.at = o, !.msg = <<>>]

(* read(4096), and once more Ctrl-C.                                       *)
Drain ==
  /\ At("drain")
  /\ input' = <<>> /\ Send(<<CtrlC>>) /\ Await("!", 0)
  /\ UNCHANGED <<device, memory, toHost, sessions, acked, lost, torn>>

(* One turn of get(): all of the input, what is after a line's end lost.   *)
FirstLine == SelectInSeq(input, LAMBDA t : t = EndOfLine)

GetMore ==
  /\ At("get") /\ input # <<>> /\ FirstLine = 0
  /\ host' = [host EXCEPT !.msg = @ \o input] /\ input' = <<>>
  /\ UNCHANGED <<device, memory, toDevice, toHost, sessions, acked,
                 lost, torn>>

Gets(command) ==
  /\ At("get") /\ host.await = command /\ FirstLine > 0 /\ input' = <<>>
  /\ UNCHANGED <<device, memory, toHost, sessions, lost, torn>>

Answer == host.msg \o SubSeq(input, 1, FirstLine - 1)

(* The next turn of load()'s loop, or its end.                             *)
Continue(o) ==
  IF o < Len(Image)
  THEN Send(<< <<"X", o>> >> \o Encode(Chunk(o)) \o <<CR>>) /\ Await("X", o)
  ELSE Send(<< <<"u", 0>>, CR >>) /\ Await("u", o)

InSync == Gets("!") /\ Continue(0) /\ UNCHANGED acked

GiveUp == GoTo("idle") /\ UNCHANGED <<toDevice, acked>>

ChunkWritten ==
  /\ Gets("X")
  /\ IF Answer = <<Mark("k")>>
     THEN Continue(host.at + ChunkSize) /\ acked' = acked \cup {host.at}
     ELSE GiveUp

GoUnverified ==
  /\ Gets("u")
  /\ Send(<< <<"c", 0>>, CR >>) /\ Await("c", host.at) /\ UNCHANGED acked

Verified ==
  /\ Gets("u")
  /\ IF Answer = << <<"sum", Checksum(Image)>> >>
     THEN Send(<< <<"c", 0>>, CR >>) /\ Await("c", host.at) /\ UNCHANGED acked
     ELSE GiveUp

(* Any answer will do after go.                                            *)
Started == Gets("c") /\ GiveUp

(* No answer for a second, or none at all to reset.                        *)
TimeOut ==
  /\ At("get") \/ (At("poll") /\ host.polls = MaxPolls)
  /\ GiveUp
  /\ UNCHANGED <<device, memory, toHost, input, sessions, lost, torn>>

(* The host's program is stopped, perhaps in the middle of a write.        *)
Stopped ==
  /\ host.pc # "idle" /\ GoTo("idle")
  /\ toDevice' \in Prefixes(toDevice)
  /\ UNCHANGED <<device, memory, toHost, input, sessions, acked, lost, torn>>

Host == Reset \/ Awake \/ Poll \/ Look \/ Drain \/ GetMore \/ InSync
        \/ ChunkWritten \/ Verified \/ Started \/ TimeOut \/ Stopped

Next == Deliver \/ Lose \/ Device \/ Host

Spec == Init /\ [][Next]_vars
-----------------------------------------------------------------------------
(* Type invariant; the buffer holds no unescaped control characters.       *)
TypeOK ==
  /\ host.pc \in {"idle", "sleep", "poll", "look", "drain", "get"}
  /\ host.await \in {"!", "X", "u", "c"} /\ host.polls \in 0 .. MaxPolls
  /\ device.mode \in {"boot", "loader", "program"}
  /\ Len(device.command) <= ChunkSize + 1
  /\ memory \in [Address -> 0 .. 255]
  /\ sessions \in 0 .. MaxSessions /\ lost \in 0 .. MaxLost
  /\ torn \in BOOLEAN
  /\ acked \subseteq Offset

(* A k that the host accepts is the answer to the write it waits for, and  *)
(* not a late one to a write of an earlier run: the chunk is in memory,    *)
(* byte for byte, if the line lost nothing (loader.py 67-72 and 121-137,   *)
(* loader.c 248-265).                                                      *)
AcknowledgedIsStored ==
  host.pc = "get" /\ host.await \in {"X", "u"} /\ lost = 0 =>
    \A o \in acked : \A i \in DOMAIN Chunk(o) : memory[o + i - 1] = Chunk(o)[i]

(* Whatever a host that was stopped left in the device's buffer or on the  *)
(* line is discarded by the next (loader.c 17-18, 162-166): no frame is    *)
(* ever dispatched that no host has sent as a whole.                       *)
OnlyWholeFrames ==
  [][ lost = 0 /\ device.mode = "loader" /\ toDevice # <<>>
      /\ Head(toDevice) = CR /\ toDevice' = Tail(toDevice)
      => \/ device.command \in {<< <<"u", 0>> >>, << <<"c", 0>> >>}
         \/ \E o \in Offset :
              device.command = << <<"X", o>> >>
                \o [i \in DOMAIN Chunk(o) |-> Char(Chunk(o)[i])] ]_vars

(* The program is started only in memory that is the image, and whatever   *)
(* else the line lost, as long as it left the headers of the frames alone, *)
(* only in memory that has the image's checksum (loader.py 81-115): an     *)
(* answer to another command is not mistaken for the checksum's, and no go *)
(* survives the run that sent it.  With a header lost the loader may obey  *)
(* data (loader.c 175-203), and nothing is promised.                       *)
StartsWhatWasVerified ==
  [][ device.mode = "loader" /\ device'.mode = "program"
      => /\ ~torn => Checksum(memory) = Checksum(Image)
         /\ lost = 0 => \A a \in Address : memory[a] = Image[a + 1] ]_vars
=============================================================================
