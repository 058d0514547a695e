-------------------------- MODULE FileTableProofs --------------------------
(***************************************************************************)
(* The file handles for tables of any size and any set of files.           *)
(***************************************************************************)
EXTENDS FileTable, FiniteSetTheorems, WellFoundedInduction, TLAPS

(* A set of naturals that is not empty has a first element.                *)
LEMMA FirstIsLeast ==
  ASSUME NEW S, S \subseteq Nat, S # {}
  PROVE  FirstOf(S) \in S /\ \A j \in S : FirstOf(S) <= j
<1>1. PICK x \in S : \A y \in S : ~(<<y, x>> \in OpToRel(<, Nat))
  BY NatLessThanWellFounded, WFMin
<1>2. \A y \in S : ~(y < x)
  BY <1>1 DEF OpToRel
<1>3. \A y \in S : x <= y
  BY <1>2
<1>. QED
  BY <1>3 DEF FirstOf

(* The search returns a slot that is free, or -1 when none is.             *)
LEMMA SearchFindsFree ==
  ASSUME NEW n \in Nat \ {0}, NEW table
  PROVE  LET h == Search(table, 0 .. n - 1)
         IN  /\ h = -1 \/ (h \in 0 .. n - 1 /\ h \notin table)
             /\ h = -1 => 0 .. n - 1 \subseteq table
             /\ h \in Int
<1> DEFINE S == (0 .. n - 1) \ table
<1>1. S \subseteq Nat
  OBVIOUS
<1>2. S # {} => FirstOf(S) \in S
  BY <1>1, FirstIsLeast
<1> QED
  BY <1>2 DEF Search, Free

(* The result of a call by handle is one of the kernel's error codes.      *)
LEMMA OutcomesType ==
  ASSUME NEW valid \in BOOLEAN
  PROVE  Outcomes(valid) \subseteq Results
BY DEF Outcomes, Results

-----------------------------------------------------------------------------
(* Every action keeps the types.                                           *)
LEMMA TypeStep == TypeOK /\ [Next]_vars => TypeOK'
<1> SUFFICES ASSUME TypeOK, [Next]_vars
             PROVE  TypeOK'
  OBVIOUS
<1> USE DEF TypeOK, objects, blocks, disk, owned, Report
<1>c. /\ Transfers \cup {"none", "suspend", "name", "open", "close", "opendir",
           "closedir", "readdir", "absolute", "closeall"} = Calls
      /\ {"ok", "denied", "not_ready", "invalid_object"} \subseteq Results
      /\ FileHandles \subseteq Int /\ DirHandles \subseteq Int
  BY MaxFilesAssumption, MaxDirectoriesAssumption
     DEF Calls, Results, FileHandles, DirHandles
<1>n. NoneValid \in [FileSlots -> File \cup {NoFile}]
  BY DEF NoneValid
<1>m. ASSUME NEW works \in BOOLEAN, Mount(works)
      PROVE  /\ card' \in {"on", "off"} /\ mounted' \in BOOLEAN
             /\ faulty' \in BOOLEAN
             /\ FilesAfter(works) \in [FileSlots -> File \cup {NoFile}]
             /\ DirtyAfter(works) \subseteq
                  {h \in FileSlots : FilesAfter(works)[h] # NoFile}
             /\ DirsAfter(works) \subseteq DirSlots
  BY <1>m, <1>n DEF Mount, Stays, FilesAfter, DirtyAfter, DirsAfter
<1>b. ASSUME NEW works \in BOOLEAN, ByHandle(works)
      PROVE  card' \in {"on", "off"} /\ mounted' \in BOOLEAN /\ faulty' \in BOOLEAN
  BY <1>b DEF ByHandle, AutoPowerUp
<1>r. ASSUME NEW op \in Calls, NEW h \in Int, Refuse(op, h)
      PROVE  TypeOK'
  BY <1>r, <1>c DEF Refuse
<1>f. ASSUME NEW op \in Calls, Full(op)
      PROVE  TypeOK'
  BY <1>f, <1>c DEF Full
<1>1. CASE File_PowerDown
  BY <1>1, <1>c DEF File_PowerDown
<1>2. CASE NameCall
  BY <1>2, <1>c, <1>m DEF NameCall
<1>3. CASE AbsoluteCall
  BY <1>3, <1>c, <1>b DEF AbsoluteCall
<1>4. ASSUME NEW f \in File, File_open(f)
      PROVE  TypeOK'
  <2> DEFINE h == Search(isOpen, FileSlots)
  <2>1. h \in Int /\ (h = -1 \/ h \in FileSlots)
    BY SearchFindsFree, MaxFilesAssumption DEF FileSlots
  <2> HIDE DEF h
  <2>2. CASE h = -1
    BY <1>4, <1>f, <1>c, <2>2 DEF File_open, h
  <2>3. CASE h # -1
    <3>1. PICK works \in BOOLEAN, opens \in BOOLEAN, create \in BOOLEAN :
            /\ Mount(works)
            /\ fil' = [FilesAfter(works) EXCEPT ![h] = IF opens THEN f ELSE NoFile]
            /\ dirty' = (DirtyAfter(works) \ {h})
                          \cup (IF opens /\ create THEN {h} ELSE {})
            /\ dirValid' = DirsAfter(works)
            /\ isOpen' = isOpen \cup (IF opens THEN {h} ELSE {})
            /\ held' = held \cup (IF opens THEN {h} ELSE {})
            /\ IF opens THEN Report("open", h, "ok") ELSE Report("open", -1, "denied")
            /\ UNCHANGED <<dirOpen, heldDirs, lost>>
      BY <1>4, <2>3 DEF File_open, h
    <3>2. fil' \in [FileSlots -> File \cup {NoFile}]
      BY <1>m, <3>1
    <3>3. dirty' \subseteq {i \in FileSlots : fil'[i] # NoFile}
      BY <1>m, <2>1, <2>3, <3>1, NoFileAssumption
    <3>4. call' \in [op : Calls, handle : Int, rc : Results]
      BY <1>c, <2>1, <3>1
    <3>5. isOpen' \subseteq FileSlots /\ held' \subseteq FileSlots
      BY <2>1, <2>3, <3>1
    <3> QED
      BY <1>m, <3>1, <3>2, <3>3, <3>4, <3>5
  <2> QED
    BY <2>2, <2>3
<1>5. CASE File_OpenDirectory
  <2> DEFINE h == Search(dirOpen, DirSlots)
  <2>1. h \in Int /\ (h = -1 \/ h \in DirSlots)
    BY SearchFindsFree, MaxDirectoriesAssumption DEF DirSlots
  <2> HIDE DEF h
  <2>2. CASE h = -1
    BY <1>5, <1>f, <1>c, <2>2 DEF File_OpenDirectory, h
  <2>3. CASE h # -1
    BY <1>5, <1>m, <1>c, <2>1, <2>3 DEF File_OpenDirectory, h
  <2> QED
    BY <2>2, <2>3
<1>6. ASSUME NEW h \in FileHandles, File_close(h)
      PROVE  TypeOK'
  <2>1. CASE h \notin isOpen
    BY <1>6, <1>r, <1>c, <2>1 DEF File_close
  <2>2. CASE h \in isOpen
    <3>1. PICK works \in BOOLEAN : /\ ByHandle(works)
                                   /\ UNCHANGED <<dirValid, blocks, heldDirs, lost>>
      BY <1>6, <2>2 DEF File_close
    <3>2. PICK rc \in Outcomes(fil[h] # NoFile) :
             /\ Report("close", h, rc)
             /\ fil' = IF rc = "ok" THEN [fil EXCEPT ![h] = NoFile] ELSE fil
             /\ held' = IF rc = "ok" THEN held \ {h} ELSE held
             /\ dirty' \in CASE rc = "ok"       -> {dirty \ {h}}
                             [] rc = "rw_error" -> {dirty, dirty \ {h}}
                             [] OTHER           -> {dirty}
      BY <1>6, <2>2 DEF File_close
    <3>3. rc \in Results
      BY <3>2, OutcomesType
    <3>4. dirty' \subseteq {i \in FileSlots : fil'[i] # NoFile}
      BY <3>2
    <3> QED
      BY <1>b, <1>c, <3>1, <3>2, <3>3, <3>4
  <2> QED
    BY <2>1, <2>2
<1>7. ASSUME NEW h \in FileHandles, NEW op \in Transfers, File_transfer(op, h)
      PROVE  TypeOK'
  <2>1. CASE h \notin isOpen
    BY <1>7, <1>r, <1>c, <2>1 DEF File_transfer
  <2>2. CASE h \in isOpen
    <3>1. PICK works \in BOOLEAN, rc \in Outcomes(fil[h] # NoFile) :
             /\ ByHandle(works) /\ Report(op, h, rc)
             /\ dirty' \in DirtyAfterTransfer(op, h, rc)
             /\ UNCHANGED <<fil, dirValid, blocks, owned, lost>>
      BY <1>7, <2>2 DEF File_transfer
    <3>2. rc \in Results
      BY <3>1, OutcomesType
    <3>3. dirty' \subseteq {i \in FileSlots : fil'[i] # NoFile}
      <4>1. rc \in {"ok", "rw_error"} => fil[h] # NoFile
        BY <3>1 DEF Outcomes
      <4> QED
        BY <2>2, <3>1, <4>1 DEF DirtyAfterTransfer
    <3> QED
      BY <1>b, <1>c, <3>1, <3>2, <3>3
  <2> QED
    BY <2>1, <2>2
<1>8. ASSUME NEW h \in DirHandles, File_CloseDirectory(h)
      PROVE  TypeOK'
  BY <1>8, <1>r, <1>c DEF File_CloseDirectory
<1>9. ASSUME NEW h \in DirHandles, File_ReadDirectory(h)
      PROVE  TypeOK'
  <2>1. CASE h \notin dirOpen
    BY <1>9, <1>r, <1>c, <2>1 DEF File_ReadDirectory
  <2>2. CASE h \in dirOpen
    <3>1. PICK works \in BOOLEAN, rc \in Outcomes(h \in dirValid) :
             /\ ByHandle(works) /\ Report("readdir", h, rc)
             /\ UNCHANGED <<objects, blocks, owned, lost>>
      BY <1>9, <2>2 DEF File_ReadDirectory
    <3>2. rc \in Results
      BY <3>1 DEF Outcomes, Results
    <3> QED
      BY <1>b, <1>c, <3>1, <3>2
  <2> QED
    BY <2>1, <2>2
<1>10. CASE File_CloseAll
  <2>1. \A h \in dirty \ {i + 1 : i \in FileSlots} : fil[h] \in File
    OBVIOUS
  <2>2. lost' \subseteq File
    BY <1>10, <2>1 DEF File_CloseAll
  <2>3. call' \in [op : Calls, handle : Int, rc : Results]
    BY <1>10, <1>c DEF File_CloseAll
  <2>4. card' \in {"on", "off"} /\ mounted' \in BOOLEAN /\ faulty' \in BOOLEAN
    BY <1>10 DEF File_CloseAll
  <2> QED
    BY <1>10, <1>n, <2>2, <2>3, <2>4 DEF File_CloseAll
<1>11. CASE UNCHANGED vars
  BY <1>11 DEF vars
<1> QED
  BY <1>1, <1>2, <1>3, <1>4, <1>5, <1>6, <1>7, <1>8, <1>9, <1>10, <1>11 DEF Next

(* The type invariant, for tables of any size.                             *)
THEOREM TypeCorrect == Spec => []TypeOK
<1>1. Init => TypeOK
  <2> SUFFICES ASSUME Init PROVE TypeOK
    OBVIOUS
  <2>1. call \in [op : Calls, handle : Int, rc : Results]
    BY DEF Init, Calls, Results
  <2>2. fil \in [FileSlots -> File \cup {NoFile}]
    BY DEF Init, NoneValid
  <2>3. faulty \in BOOLEAN
    BY DEF Init
  <2> QED
    BY <2>1, <2>2, <2>3 DEF Init, TypeOK
<1> QED
  BY <1>1, TypeStep, PTL DEF Spec

-----------------------------------------------------------------------------
(* What the application holds against what the kernel keeps.  A held       *)
(* handle's block is open, a valid FIL belongs to a held handle, and while *)
(* the card answers every held handle's object is valid, which needs the   *)
(* card to stay mounted as long as anything is held.                       *)
Ownership ==
  /\ held \subseteq isOpen
  /\ heldDirs = dirOpen
  /\ \A h \in FileSlots : fil[h] # NoFile => h \in held
  /\ ~faulty => /\ \A h \in held : fil[h] # NoFile
                /\ heldDirs \subseteq dirValid
                /\ held \cup heldDirs # {} => mounted

(* A call by name leaves every valid object alone while the card answers.  *)
LEMMA MountKeeps ==
  ASSUME TypeOK, Ownership, NEW works \in BOOLEAN, Mount(works)
  PROVE  /\ \A h \in FileSlots : FilesAfter(works)[h] \in {fil[h], NoFile}
         /\ ~faulty' /\ held \cup heldDirs # {} =>
              /\ FilesAfter(works) = fil /\ DirsAfter(works) = dirValid
              /\ mounted'
         /\ faulty => faulty'
BY DEF TypeOK, Ownership, Mount, Stays, AutoPowerUp, FilesAfter, DirsAfter, NoneValid

LEMMA OwnershipStep == TypeOK /\ Ownership /\ [Next]_vars => Ownership'
<1> SUFFICES ASSUME TypeOK, Ownership, [Next]_vars
             PROVE  Ownership'
  OBVIOUS
<1> USE DEF Ownership, objects, blocks, disk, owned
<1>t. /\ fil \in [FileSlots -> File \cup {NoFile}] /\ held \subseteq FileSlots
      /\ faulty \in BOOLEAN /\ heldDirs \subseteq DirSlots
      /\ isOpen \subseteq FileSlots
  BY DEF TypeOK
<1>b. ASSUME NEW works \in BOOLEAN, ByHandle(works)
      PROVE  mounted' = mounted /\ (faulty => faulty')
  BY <1>b DEF ByHandle
<1>1. CASE File_PowerDown
  BY <1>1 DEF File_PowerDown
<1>2. CASE NameCall
  <2>1. PICK works \in BOOLEAN :
          /\ Mount(works) /\ fil' = FilesAfter(works) /\ dirValid' = DirsAfter(works)
          /\ UNCHANGED <<blocks, owned, lost>>
    BY <1>2 DEF NameCall
  <2> QED
    BY <1>t, <2>1, MountKeeps
<1>3. CASE AbsoluteCall
  BY <1>3, <1>b DEF AbsoluteCall
<1>4. ASSUME NEW f \in File, File_open(f)
      PROVE  Ownership'
  <2> DEFINE h == Search(isOpen, FileSlots)
  <2>1. h = -1 \/ (h \in FileSlots /\ h \notin isOpen)
    BY SearchFindsFree, MaxFilesAssumption DEF FileSlots
  <2> HIDE DEF h
  <2>2. CASE h = -1
    BY <1>4, <2>2 DEF File_open, Full, h
  <2>3. CASE h # -1
    <3>1. PICK works \in BOOLEAN, opens \in BOOLEAN :
            /\ Mount(works) /\ (opens => mounted')
            /\ fil' = [FilesAfter(works) EXCEPT ![h] = IF opens THEN f ELSE NoFile]
            /\ dirValid' = DirsAfter(works)
            /\ isOpen' = isOpen \cup (IF opens THEN {h} ELSE {})
            /\ held' = held \cup (IF opens THEN {h} ELSE {})
            /\ UNCHANGED <<dirOpen, heldDirs, lost>>
      BY <1>4, <2>3 DEF File_open, h
    <3>2. FilesAfter(works) \in [FileSlots -> File \cup {NoFile}]
      BY <1>t DEF FilesAfter, NoneValid
    <3>3. /\ fil'[h] = IF opens THEN f ELSE NoFile
          /\ \A i \in FileSlots : i # h => fil'[i] = FilesAfter(works)[i]
      BY <2>1, <2>3, <3>1, <3>2
    <3>4. /\ held' \subseteq isOpen' /\ heldDirs' = dirOpen'
          /\ \A i \in FileSlots : fil'[i] # NoFile => i \in held'
      BY <3>1, <3>3, MountKeeps
    <3>5. ASSUME ~faulty'
          PROVE  /\ \A i \in held' : fil'[i] # NoFile
                 /\ heldDirs' \subseteq dirValid'
                 /\ held' \cup heldDirs' # {} => mounted'
      BY <1>t, <2>1, <2>3, <3>1, <3>3, <3>5, MountKeeps, NoFileAssumption
    <3> QED
      BY <3>4, <3>5
  <2> QED
    BY <2>2, <2>3
<1>5. CASE File_OpenDirectory
  <2> DEFINE h == Search(dirOpen, DirSlots)
  <2> HIDE DEF h
  <2>2. CASE h = -1
    BY <1>5, <2>2 DEF File_OpenDirectory, Full, h
  <2>3. CASE h # -1
    <3>1. PICK works \in BOOLEAN, opens \in BOOLEAN :
            /\ Mount(works) /\ (opens => mounted')
            /\ fil' = FilesAfter(works)
            /\ dirValid' = IF opens THEN DirsAfter(works) \cup {h}
                                    ELSE DirsAfter(works) \ {h}
            /\ dirOpen' = dirOpen \cup (IF opens THEN {h} ELSE {})
            /\ heldDirs' = heldDirs \cup (IF opens THEN {h} ELSE {})
            /\ UNCHANGED <<isOpen, held, lost>>
      BY <1>5, <2>3 DEF File_OpenDirectory, h
    <3>2. h \notin dirOpen
      BY SearchFindsFree, MaxDirectoriesAssumption, <2>3 DEF DirSlots, h
    <3> QED
      BY <1>t, <3>1, <3>2, MountKeeps
  <2> QED
    BY <2>2, <2>3
<1>6. ASSUME NEW h \in FileHandles, File_close(h)
      PROVE  Ownership'
  <2>1. CASE h \notin isOpen
    BY <1>6, <2>1 DEF File_close, Refuse
  <2>2. CASE h \in isOpen
    BY <1>6, <1>t, <1>b, <2>2 DEF File_close
  <2> QED
    BY <2>1, <2>2
<1>7. ASSUME NEW h \in FileHandles, NEW op \in Transfers, File_transfer(op, h)
      PROVE  Ownership'
  BY <1>7, <1>b DEF File_transfer, Refuse
<1>8. ASSUME NEW h \in DirHandles, File_CloseDirectory(h)
      PROVE  Ownership'
  BY <1>8 DEF File_CloseDirectory, Refuse
<1>9. ASSUME NEW h \in DirHandles, File_ReadDirectory(h)
      PROVE  Ownership'
  BY <1>9, <1>b DEF File_ReadDirectory, Refuse
<1>10. CASE File_CloseAll
  BY <1>10 DEF File_CloseAll, NoneValid
<1>11. CASE UNCHANGED vars
  BY <1>11 DEF vars
<1> QED
  BY <1>1, <1>2, <1>3, <1>4, <1>5, <1>6, <1>7, <1>8, <1>9, <1>10, <1>11 DEF Next

LEMMA OwnershipHolds == Spec => []Ownership
<1>1. Init => Ownership
  BY DEF Init, Ownership, NoneValid
<1> QED
  BY <1>1, TypeCorrect, OwnershipStep, PTL DEF Spec

(* A suspend is transparent to what the application holds.                 *)
THEOREM SuspendIsTransparent == Spec => []SurvivesSuspend
<1>1. Ownership => SurvivesSuspend
  BY DEF Ownership, SurvivesSuspend
<1> QED
  BY <1>1, OwnershipHolds, PTL

(* Directory slots are never leaked.                                       *)
THEOREM DirectorySlotsReused == Spec => []DirectoriesReusable
<1>1. IsFiniteSet(DirSlots) /\ Cardinality(DirSlots) = MaxDirectories
  BY FS_Interval, MaxDirectoriesAssumption DEF DirSlots
<1>2. TypeOK /\ Ownership => DirectoriesReusable
  <2> SUFFICES ASSUME TypeOK, Ownership, DirSlots \subseteq dirOpen
               PROVE  Cardinality(heldDirs) = MaxDirectories
    BY MaxDirectoriesAssumption DEF DirectoriesReusable, Free
  <2>1. heldDirs = DirSlots
    BY DEF TypeOK, Ownership
  <2> QED
    BY <1>1, <2>1
<1> QED
  BY <1>2, TypeCorrect, OwnershipHolds, PTL

-----------------------------------------------------------------------------
(* A held handle keeps referring to the file it was opened on.             *)
LEMMA KeepsStep ==
  ASSUME TypeOK, Ownership, [Next]_vars,
         NEW h \in held \cap held', fil[h] # NoFile, fil'[h] # NoFile
  PROVE  fil'[h] = fil[h]
<1> USE DEF objects, blocks, disk, owned
<1>t. /\ fil \in [FileSlots -> File \cup {NoFile}]
      /\ h \in FileSlots /\ h \in isOpen
  BY DEF TypeOK, Ownership
<1>1. ASSUME NEW f \in File, File_open(f)
      PROVE  fil'[h] = fil[h]
  <2> DEFINE i == Search(isOpen, FileSlots)
  <2>1. i = -1 \/ (i \in FileSlots /\ i \notin isOpen)
    BY SearchFindsFree, MaxFilesAssumption DEF FileSlots
  <2> HIDE DEF i
  <2>2. CASE i = -1
    BY <1>1, <2>2 DEF File_open, Full, i
  <2>3. CASE i # -1
    <3>1. PICK works \in BOOLEAN, opens \in BOOLEAN :
            /\ Mount(works)
            /\ fil' = [FilesAfter(works) EXCEPT ![i] = IF opens THEN f ELSE NoFile]
      BY <1>1, <2>3 DEF File_open, i
    <3>2. FilesAfter(works) \in [FileSlots -> File \cup {NoFile}]
      BY <1>t DEF FilesAfter, NoneValid
    <3> QED
      BY <1>t, <2>1, <2>3, <3>1, <3>2, MountKeeps
  <2> QED
    BY <2>2, <2>3
<1>2. CASE NameCall
  BY <1>2, <1>t, MountKeeps DEF NameCall
<1>3. CASE File_OpenDirectory
  BY <1>3, <1>t, MountKeeps DEF File_OpenDirectory, Full
<1>4. ASSUME NEW g \in FileHandles, File_close(g)
      PROVE  fil'[h] = fil[h]
  BY <1>4, <1>t DEF File_close, Refuse
<1>5. CASE File_CloseAll
  BY <1>5 DEF File_CloseAll
<1>6. CASE \/ File_PowerDown \/ AbsoluteCall
           \/ \E g \in FileHandles, op \in Transfers : File_transfer(op, g)
           \/ \E g \in DirHandles : File_CloseDirectory(g) \/ File_ReadDirectory(g)
           \/ UNCHANGED vars
  BY <1>6 DEF File_PowerDown, AbsoluteCall, File_transfer, File_CloseDirectory,
              File_ReadDirectory, Refuse, vars
<1> QED
  BY <1>1, <1>2, <1>3, <1>4, <1>5, <1>6 DEF Next

THEOREM HandlesKeepTheirFiles == Spec => HandleKeepsItsFile
<1>1. TypeOK /\ Ownership /\ [Next]_vars =>
        [\A h \in held \cap held' :
           fil[h] # NoFile /\ fil'[h] # NoFile => fil'[h] = fil[h]]_vars
  BY KeepsStep
<1> QED
  BY <1>1, TypeCorrect, OwnershipHolds, PTL DEF Spec, HandleKeepsItsFile

(* While the card answers a call by handle is refused exactly when the     *)
(* application does not hold the handle.                                   *)
LEMMA RefusalStep ==
  ASSUME TypeOK, Ownership, Next, ~faulty', call'.op \in Transfers \cup {"close"}
  PROVE  call'.rc = "invalid_object" <=> call'.handle \notin held
<1> USE DEF Report
<1>t. /\ Transfers = {"read", "write", "sync", "lseek"}
      /\ \A valid \in BOOLEAN : \A rc \in Outcomes(valid) :
            rc = "invalid_object" <=> ~valid
  BY DEF Transfers, Outcomes
<1>o. ASSUME NEW h \in isOpen, NEW works \in BOOLEAN, ByHandle(works)
      PROVE  fil[h] # NoFile <=> h \in held
  BY <1>o DEF ByHandle, Ownership, TypeOK
<1>r. ASSUME NEW op, NEW h, Refuse(op, h), h \notin isOpen
      PROVE  call'.rc = "invalid_object" <=> call'.handle \notin held
  BY <1>r DEF Refuse, Ownership
<1>1. ASSUME NEW h \in FileHandles, File_close(h)
      PROVE  call'.rc = "invalid_object" <=> call'.handle \notin held
  <2>1. CASE h \in isOpen
    <3>1. PICK works \in BOOLEAN, rc \in Outcomes(fil[h] # NoFile) :
            ByHandle(works) /\ Report("close", h, rc)
      BY <1>1, <2>1 DEF File_close
    <3>2. call'.rc = rc /\ call'.handle = h
      BY <3>1
    <3> QED
      BY <1>t, <1>o, <2>1, <3>1, <3>2
  <2> QED
    BY <1>1, <1>r, <2>1 DEF File_close
<1>2. ASSUME NEW h \in FileHandles, NEW op \in Transfers, File_transfer(op, h)
      PROVE  call'.rc = "invalid_object" <=> call'.handle \notin held
  <2>1. CASE h \in isOpen
    <3>1. PICK works \in BOOLEAN, rc \in Outcomes(fil[h] # NoFile) :
            ByHandle(works) /\ Report(op, h, rc)
      BY <1>2, <2>1 DEF File_transfer
    <3>2. call'.rc = rc /\ call'.handle = h
      BY <3>1
    <3> QED
      BY <1>t, <1>o, <2>1, <3>1, <3>2
  <2> QED
    BY <1>2, <1>r, <2>1 DEF File_transfer
<1>3. ASSUME NEW f \in File, File_open(f)
      PROVE  call'.op = "open"
  BY <1>3 DEF File_open, Full
<1>4. ASSUME NEW h \in DirHandles, File_CloseDirectory(h) \/ File_ReadDirectory(h)
      PROVE  call'.op \in {"closedir", "readdir"}
  BY <1>4 DEF File_CloseDirectory, File_ReadDirectory, Refuse
<1>5. File_OpenDirectory => call'.op = "opendir"
  BY DEF File_OpenDirectory, Full
<1>6. /\ File_PowerDown => call'.op = "suspend"
      /\ NameCall => call'.op = "name"
      /\ AbsoluteCall => call'.op = "absolute"
      /\ File_CloseAll => call'.op = "closeall"
  BY DEF File_PowerDown, NameCall, AbsoluteCall, File_CloseAll
<1> QED
  BY <1>t, <1>1, <1>2, <1>3, <1>4, <1>5, <1>6 DEF Next

THEOREM HandlesRefusedExactly == Spec => RefusesExactly
<1>1. TypeOK /\ Ownership /\ [Next]_vars =>
        [~faulty' /\ call'.op \in Transfers \cup {"close"}
          => (call'.rc = "invalid_object" <=> call'.handle \notin held)]_vars
  BY RefusalStep
<1> QED
  BY <1>1, TypeCorrect, OwnershipHolds, PTL DEF Spec, RefusesExactly
=============================================================================
