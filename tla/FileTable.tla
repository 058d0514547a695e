----------------------------- MODULE FileTable -----------------------------
(***************************************************************************)
(* The kernel's file calls (samo-lib/grifo/src/file.c): the control blocks *)
(* behind the handles, the SD card's power that every call restores after  *)
(* a suspend took it away, and the end of an application (File_CloseAll).  *)
(*                                                                         *)
(* FatFs is seen through what file.c makes of it: a FIL or DIR object is   *)
(* valid or not, and calls by name mount the card anew, which invalidates  *)
(* every such object, when it is not mounted or does not answer.           *)
(***************************************************************************)
EXTENDS Integers, FiniteSets

CONSTANTS
  MaxFiles,        \* size of FileControlBlock (512 in the code)
  MaxDirectories,  \* size of DirectoryControlBlock (64 in the code)
  File,            \* names of files
  NoFile           \* what a FIL object that is not valid refers to

ASSUME MaxFilesAssumption == MaxFiles \in Nat \ {0}
ASSUME MaxDirectoriesAssumption == MaxDirectories \in Nat \ {0}
ASSUME NoFileAssumption == NoFile \notin File

FileSlots == 0 .. MaxFiles - 1
DirSlots == 0 .. MaxDirectories - 1

(* Every int an application may pass as a handle, by how it compares.      *)
FileHandles == -1 .. MaxFiles
DirHandles == -1 .. MaxDirectories

VARIABLES
  isOpen,    \* slots whose FileControlBlock has IsOpen set
  fil,       \* file that each slot's FIL object refers to
  dirty,     \* slots whose valid FIL has FA__WRITTEN set
  dirOpen,   \* slots whose DirectoryControlBlock has IsOpen set
  dirValid,  \* slots whose DIR object is valid
  card,      \* power of the SD card; it is initialised when "on"
  mounted,   \* TheFileSystem is mounted
  call,      \* the last call: its kind, handle and result
  held,      \* handles the application has opened and not closed (history)
  heldDirs,  \* the same for directories (history)
  faulty,    \* the card has failed to answer (history)
  lost       \* files whose written data File_CloseAll abandoned (history)

objects == <<fil, dirty, dirValid>>
blocks  == <<isOpen, dirOpen>>
disk    == <<card, mounted, faulty>>
owned   == <<held, heldDirs>>
vars    == <<objects, blocks, disk, owned, call, lost>>

NoneValid == [h \in FileSlots |-> NoFile]

(* After File_initialise at the start of the kernel.                       *)
Init ==
  /\ isOpen = {} /\ fil = NoneValid /\ dirty = {}
  /\ dirOpen = {} /\ dirValid = {}
  /\ card \in {"on", "off"} /\ mounted = FALSE /\ faulty = (card = "off")
  /\ call = [op |-> "none", handle |-> -1, rc |-> "ok"]
  /\ held = {} /\ heldDirs = {} /\ lost = {}

Report(op, h, rc) == call' = [op |-> op, handle |-> h, rc |-> rc]

-----------------------------------------------------------------------------
(* The card's power.  "works" says whether the card answers when it is     *)
(* initialised during this call; if not, it is switched off again.         *)

NoAutoPowerUp(c, works) == c

AutoPowerUp(c, works) == IF c = "off" /\ works THEN "on" ELSE c

(* File_PowerDown, by Suspend, between any two calls.                      *)
File_PowerDown ==
  /\ card' = "off"
  /\ Report("suspend", -1, "ok")
  /\ UNCHANGED <<objects, blocks, owned, mounted, faulty, lost>>

(* FatFs' auto_mount in a call by name: what is mounted stays, else the    *)
(* card is initialised and mounted anew and no object is valid any more.   *)
Stays(works) == AutoPowerUp(card, works) = "on" /\ mounted

Mount(works) ==
  /\ card' = IF Stays(works) \/ works THEN "on" ELSE "off"
  /\ mounted' \in IF Stays(works) THEN {TRUE} ELSE {FALSE, works}
  /\ faulty' = (faulty \/ ~works)

FilesAfter(works) == IF Stays(works) THEN fil ELSE NoneValid
DirtyAfter(works) == IF Stays(works) THEN dirty ELSE {}
DirsAfter(works)  == IF Stays(works) THEN dirValid ELSE {}

(* FatFs' validate in a call by handle.                                    *)
ByHandle(works) ==
  /\ card' = AutoPowerUp(card, works)
  /\ faulty' = (faulty \/ ~works)
  /\ UNCHANGED mounted

(* What a call by handle may return, for a valid or an invalid object.     *)
Outcomes(valid) == IF ~valid THEN {"invalid_object"}
                   ELSE IF card' = "off" THEN {"not_ready"}
                   ELSE {"ok", "rw_error"}

(* Rename, delete, size and create directory; the outcome of the operation *)
(* on the card itself is not the kernel's.                                 *)
NameCall ==
  \E works \in BOOLEAN :
    /\ Mount(works)
    /\ fil' = FilesAfter(works) /\ dirty' = DirtyAfter(works)
    /\ dirValid' = DirsAfter(works)
    /\ Report("name", -1, IF mounted' THEN "ok" ELSE "not_ready")
    /\ UNCHANGED <<blocks, owned, lost>>

(* File_AbsoluteRead and File_AbsoluteWrite, which pass FatFs by.          *)
AbsoluteCall ==
  \E works \in BOOLEAN :
    /\ ByHandle(works)
    /\ Report("absolute", -1, IF card' = "off" THEN "not_ready" ELSE "ok")
    /\ UNCHANGED <<objects, blocks, owned, lost>>

-----------------------------------------------------------------------------
Free(table, slots) == slots \ table
FirstOf(S) == CHOOSE i \in S : \A j \in S : i <= j

OpenPastTheEnd(table, slots) ==
  IF Free(table, slots) = {} THEN Cardinality(slots) ELSE FirstOf(slots \ table)

OpenIgnoringIsOpen(table, slots) == FirstOf(slots)

(* The search of File_open and File_OpenDirectory: the first free slot, or *)
(* -1 when there is none.                                                  *)
Search(table, slots) ==
  IF Free(table, slots) = {} THEN -1 ELSE FirstOf(Free(table, slots))

Full(op) ==
  /\ Report(op, -1, "denied")
  /\ UNCHANGED <<objects, blocks, disk, owned, lost>>

(* File_open and File_create; a file that is created has data to be        *)
(* written.  The attempt alone invalidates the FIL of the slot.            *)
File_open(f) ==
  LET h == Search(isOpen, FileSlots) IN
  IF h = -1 THEN Full("open")
  ELSE \E works, opens, create \in BOOLEAN :
         /\ Mount(works)
         /\ opens => mounted'
         /\ fil' = [FilesAfter(works) EXCEPT ![h] = IF opens THEN f ELSE NoFile]
         /\ dirty' = (DirtyAfter(works) \ {h})
                       \cup (IF opens /\ create THEN {h} ELSE {})
         /\ dirValid' = DirsAfter(works)
         /\ isOpen' = isOpen \cup (IF opens THEN {h} ELSE {})
         /\ held' = held \cup (IF opens THEN {h} ELSE {})
         /\ IF opens THEN Report("open", h, "ok") ELSE Report("open", -1, "denied")
         /\ UNCHANGED <<dirOpen, heldDirs, lost>>

(* File_OpenDirectory.                                                     *)
File_OpenDirectory ==
  LET h == Search(dirOpen, DirSlots) IN
  IF h = -1 THEN Full("opendir")
  ELSE \E works, opens \in BOOLEAN :
         /\ Mount(works)
         /\ opens => mounted'
         /\ fil' = FilesAfter(works) /\ dirty' = DirtyAfter(works)
         /\ dirValid' = IF opens THEN DirsAfter(works) \cup {h}
                                 ELSE DirsAfter(works) \ {h}
         /\ dirOpen' = dirOpen \cup (IF opens THEN {h} ELSE {})
         /\ heldDirs' = heldDirs \cup (IF opens THEN {h} ELSE {})
         /\ IF opens THEN Report("opendir", h, "ok")
                     ELSE Report("opendir", -1, "denied")
         /\ UNCHANGED <<isOpen, held, lost>>

-----------------------------------------------------------------------------
(* ValidateFileHandle and ValidateDirectoryHandle refuse a handle out of   *)
(* range or whose slot is not open, before anything else happens.          *)
Refuse(op, h) ==
  /\ Report(op, h, "invalid_object")
  /\ UNCHANGED <<objects, blocks, disk, owned, lost>>

CloseWithoutFatFs(h) ==
  IF h \notin isOpen THEN Refuse("close", h)
  ELSE /\ held' = held \ {h}
       /\ Report("close", h, "ok")
       /\ UNCHANGED <<objects, blocks, disk, heldDirs, lost>>

(* File_close: f_close writes what is to be written and invalidates the    *)
(* FIL object.  IsOpen stays set.  A write that fails may come after       *)
(* FA__WRITTEN was cleared.                                                *)
File_close(h) ==
  IF h \notin isOpen THEN Refuse("close", h)
  ELSE \E works \in BOOLEAN :
         /\ ByHandle(works)
         /\ \E rc \in Outcomes(fil[h] # NoFile) :
              /\ Report("close", h, rc)
              /\ fil' = IF rc = "ok" THEN [fil EXCEPT ![h] = NoFile] ELSE fil
              /\ held' = IF rc = "ok" THEN held \ {h} ELSE held
              /\ dirty' \in CASE rc = "ok"       -> {dirty \ {h}}
                              [] rc = "rw_error" -> {dirty, dirty \ {h}}
                              [] OTHER           -> {dirty}
         /\ UNCHANGED <<dirValid, blocks, heldDirs, lost>>

(* File_read, File_write, File_sync and File_lseek, which may extend the   *)
(* file.                                                                   *)
DirtyAfterTransfer(op, h, rc) ==
  CASE op = "write" /\ rc = "ok"       -> {dirty \cup {h}}
    [] op = "lseek" /\ rc = "ok"       -> {dirty, dirty \cup {h}}
    [] op = "sync"  /\ rc = "ok"       -> {dirty \ {h}}
    [] op = "sync"  /\ rc = "rw_error" -> {dirty, dirty \ {h}}
    [] OTHER                           -> {dirty}

File_transfer(op, h) ==
  IF h \notin isOpen THEN Refuse(op, h)
  ELSE \E works \in BOOLEAN :
         /\ ByHandle(works)
         /\ \E rc \in Outcomes(fil[h] # NoFile) :
              /\ Report(op, h, rc)
              /\ dirty' \in DirtyAfterTransfer(op, h, rc)
         /\ UNCHANGED <<fil, dirValid, blocks, owned, lost>>

(* File_ReadDirectory.                                                     *)
File_ReadDirectory(h) ==
  IF h \notin dirOpen THEN Refuse("readdir", h)
  ELSE \E works \in BOOLEAN :
         /\ ByHandle(works)
         /\ \E rc \in Outcomes(h \in dirValid) : Report("readdir", h, rc)
         /\ UNCHANGED <<objects, blocks, owned, lost>>

CloseDirectoryKeepingSlot(h) ==
  IF h \notin dirOpen THEN Refuse("closedir", h)
  ELSE /\ heldDirs' = heldDirs \ {h}
       /\ Report("closedir", h, "ok")
       /\ UNCHANGED <<objects, blocks, disk, held, lost>>

(* File_CloseDirectory: no FatFs call, the control block is free again.    *)
File_CloseDirectory(h) ==
  IF h \notin dirOpen THEN Refuse("closedir", h)
  ELSE /\ dirOpen' = dirOpen \ {h}
       /\ heldDirs' = heldDirs \ {h}
       /\ Report("closedir", h, "ok")
       /\ UNCHANGED <<objects, isOpen, disk, held, lost>>

(* File_CloseAll, at the end of an application.  The loop closes handles   *)
(* i + 1, that is every handle but 0 (and one that does not exist), then   *)
(* File_initialise clears both tables, restarts the card and forgets the   *)
(* mount.                                                                  *)
File_CloseAll ==
  LET closed == {i + 1 : i \in FileSlots} IN
  \E works \in BOOLEAN :
    /\ card' = IF works THEN "on" ELSE "off"
    /\ mounted' = FALSE /\ faulty' = (faulty \/ ~works)
    /\ lost' = IF works THEN lost \cup {fil[h] : h \in dirty \ closed} ELSE lost
    /\ isOpen' = {} /\ fil' = NoneValid /\ dirty' = {}
    /\ dirOpen' = {} /\ dirValid' = {}
    /\ held' = {} /\ heldDirs' = {}
    /\ Report("closeall", -1, "ok")

Transfers == {"read", "write", "sync", "lseek"}

Next ==
  \/ File_PowerDown
  \/ NameCall \/ AbsoluteCall
  \/ \E f \in File : File_open(f)
  \/ \E h \in FileHandles : File_close(h)
  \/ \E h \in FileHandles, op \in Transfers : File_transfer(op, h)
  \/ File_OpenDirectory
  \/ \E h \in DirHandles : File_CloseDirectory(h) \/ File_ReadDirectory(h)
  \/ File_CloseAll

Spec == Init /\ [][Next]_vars
-----------------------------------------------------------------------------
Calls == Transfers \cup {"none", "suspend", "name", "open", "close", "opendir",
                         "closedir", "readdir", "absolute", "closeall"}
Results == {"ok", "denied", "not_ready", "rw_error", "invalid_object"}

(* Type invariant; only valid objects count as written.                    *)
TypeOK ==
  /\ isOpen \subseteq FileSlots /\ dirOpen \subseteq DirSlots
  /\ fil \in [FileSlots -> File \cup {NoFile}]
  /\ dirty \subseteq {h \in FileSlots : fil[h] # NoFile}
  /\ dirValid \subseteq DirSlots
  /\ card \in {"on", "off"} /\ mounted \in BOOLEAN /\ faulty \in BOOLEAN
  /\ held \subseteq FileSlots /\ heldDirs \subseteq DirSlots
  /\ lost \subseteq File
  /\ call \in [op : Calls, handle : Int, rc : Results]

(* A suspend is transparent: however often the card is powered down and    *)
(* up again, and whatever is called by name meanwhile, the files and       *)
(* directories that an application holds stay usable as long as the card   *)
(* answers (AutoPowerUp, file.c 82-89).                                    *)
SurvivesSuspend ==
  ~faulty => /\ \A h \in held : fil[h] # NoFile
             /\ heldDirs \subseteq dirValid

(* While a handle is held it refers to the file it was opened on: neither  *)
(* another open nor a new mount puts another file behind it (File_open,    *)
(* file.c 180-190).                                                        *)
HandleKeepsItsFile ==
  [][\A h \in held \cap held' :
       fil[h] # NoFile /\ fil'[h] # NoFile => fil'[h] = fil[h]]_vars

(* As long as the card answers, a call by handle is refused exactly when   *)
(* the application does not hold the handle: it was never opened, was      *)
(* closed before, or belonged to the previous application.                 *)
RefusesExactly ==
  [][ /\ ~faulty' /\ call'.op \in Transfers \cup {"close"}
      => (call'.rc = "invalid_object" <=> call'.handle \notin held) ]_vars

(* A directory that was closed can be opened again: File_OpenDirectory     *)
(* finds a slot unless MaxDirectories are in use at the same time.         *)
DirectoriesReusable ==
  Cardinality(heldDirs) < MaxDirectories => Free(dirOpen, DirSlots) # {}

(* file.c 35: the table's size "determines the maximum files that can be   *)
(* open simultaneously": with fewer files open there is a free slot.  The  *)
(* code keeps the slot of a closed file.                                   *)
OpenUpToLimit ==
  Cardinality(held) < MaxFiles => Free(isOpen, FileSlots) # {}

(* suspend.h 31: "close all files an power off": nothing an application    *)
(* has written is abandoned.  The code never closes handle 0.              *)
CloseAllSaves == lost = {}
=============================================================================
