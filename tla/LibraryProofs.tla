----------------------------- MODULE LibraryProofs -----------------------------
(***************************************************************************)
(* Proofs about Library, for all libraries, names and contents, and any    *)
(* number of commands.                                                     *)
(***************************************************************************)
EXTENDS Library, TLAPS

ContinuePath == Path(LIB0, CONTINUE, "xml")

-----------------------------------------------------------------------------
(* Types.                                                                  *)

\* A command counts as an attempt at most once, and dies with its process.
TypeInv ==
  /\ TypeOK
  /\ \A p \in Paths : attempts[p] <= writes
  /\ step # "idle" => running

LEMMA PathType ==
  ASSUME NEW l \in Libs, NEW n \in Names, NEW e \in Extensions
  PROVE  Path(l, n, e) \in Paths
  BY DEF Path, Paths

\* The files that the actions write are files.
LEMMA FileType ==
  /\ ClearId \in WsIds
  /\ NoFile \in Files
  /\ Unfinished("empty") \in Files /\ Unfinished("torn") \in Files
  /\ \A c \in Contents, id \in WsIds : Whole(c, id) \in Files
  BY LibraryAssumption DEF ClearId, WsIds, NoFile, Unfinished, Whole, Files

LEMMA ExistingType ==
  ASSUME NEW l \in Libs, NEW n \in Names
  PROVE  Existing(l, n) \in Paths
  BY PathType DEF Existing, Extensions

\* )LOAD makes a workspace.
LEMMA LoadType ==
  ASSUME TypeOK, NEW p \in Paths, NEW o \in LoadOutcomes(p)
  PROVE  o.work \in Contents /\ o.wsid \in WsIds
<1> DEFINE f == files[p]
<1>1. f \in Files /\ work \in Contents /\ wsid \in WsIds
  BY DEF TypeOK
<1>2. f.content \in Contents /\ f.wsid \in WsIds
  BY <1>1 DEF Files
<1>3. p.lib \in Libs /\ p.name \in Names /\ p.ext \in {"xml", "apl"}
  BY DEF Paths, Extensions
<1>4. [lib |-> p.lib, name |-> p.name] \in WsIds
  BY <1>3 DEF WsIds
<1>5. f.state \in {"absent", "empty", "torn", "whole"}
  BY <1>1 DEF Files
<1>6. CASE f.state \in {"absent", "empty"}
  BY <1>1, <1>6 DEF LoadOutcomes
<1>7. CASE f.state = "torn" /\ p.ext = "xml"
  BY <1>1, <1>7, FileType, LibraryAssumption DEF LoadOutcomes
<1>8. CASE f.state = "torn" /\ p.ext = "apl"
  BY <1>1, <1>4, <1>8 DEF LoadOutcomes
<1>9. CASE f.state = "whole" /\ p.ext = "xml"
  BY <1>2, <1>9 DEF LoadOutcomes
<1>10. CASE f.state = "whole" /\ p.ext = "apl"
  BY <1>2, <1>4, <1>10 DEF LoadOutcomes
<1> QED
  BY <1>3, <1>5, <1>6, <1>7, <1>8, <1>9, <1>10

\* Beginning a command keeps the types: its target is a path.
LEMMA BeginType ==
  ASSUME TypeInv, NEW p \in Paths, NEW off \in BOOLEAN, Begin(p, off), running,
         wsid' \in WsIds
  PROVE  TypeInv'
<1>1. writes' \in 0..MaxWrites /\ writes' = writes + 1
  BY LibraryAssumption DEF TypeInv, TypeOK, Begin
<1>2. ASSUME NEW q \in Paths
      PROVE  attempts'[q] \in 0..MaxWrites /\ attempts'[q] <= writes'
  <2>1. attempts[q] \in 0..MaxWrites /\ attempts[q] <= writes
        /\ writes < MaxWrites /\ writes \in 0..MaxWrites
    BY DEF TypeInv, TypeOK, Begin
  <2>2. attempts'[q] = IF q = p THEN attempts[q] + 1 ELSE attempts[q]
    BY DEF TypeInv, TypeOK, Begin
  <2> QED BY <1>1, <2>1, <2>2, LibraryAssumption
<1>3. attempts' \in [Paths -> 0..MaxWrites]
  BY <1>2 DEF TypeInv, TypeOK, Begin
<1> QED
  BY <1>1, <1>2, <1>3 DEF TypeInv, TypeOK, Begin, disk

LEMMA EndType ==
  ASSUME TypeInv, End
  PROVE  /\ running' \in BOOLEAN /\ work' \in Contents /\ wsid' \in WsIds
         /\ step' = "idle" /\ leaving' = FALSE
         /\ UNCHANGED <<target, backup, writes>>
  BY FileType, LibraryAssumption DEF TypeInv, TypeOK, End, Gone

\* No step leaves the state space, and no path has more attempts than there were
\* commands.
LEMMA TypeInvariant == TypeInv /\ [Next]_vars => TypeInv'
<1> SUFFICES ASSUME TypeInv, [Next]_vars PROVE TypeInv'
  OBVIOUS
<1> USE DEF TypeInv, TypeOK
<1>0. target \in Paths /\ files[target] \in Files /\ work \in Contents
      /\ wsid \in WsIds
  OBVIOUS
<1>1. CASE Edit BY <1>1 DEF Edit, disk, command, history
<1>2. CASE ClearWS
  BY <1>2, FileType, LibraryAssumption DEF ClearWS, disk, command, history
<1>3. ASSUME NEW l \in Libs, NEW n \in Names,
             SetWsid(l, n) \/ Load(l, n) \/ Drop(l, n) \/ Save(l, n) \/ Dump(l, n)
      PROVE  TypeInv'
  <2>1. CASE SetWsid(l, n)
    BY <2>1 DEF SetWsid, WsIds, disk, command, history
  <2>2. CASE Load(l, n)
    <3>1. work' \in Contents /\ wsid' \in WsIds
      BY <2>2, ExistingType, LoadType DEF Load
    <3> QED BY <2>2, <3>1 DEF Load, disk, command, history
  <2>3. CASE Drop(l, n)
    <3>1. Existing(l, n) \in Paths BY ExistingType
    <3>2. files' \in [Paths -> Files] BY <2>3, <3>1, FileType DEF Drop
    <3> QED BY <2>3, <3>1, <3>2 DEF Drop, memory, command
  <2>4. CASE Save(l, n)
    <3>1. Path(l, n, "xml") \in Paths BY PathType DEF Extensions
    <3> QED BY <2>4, <3>1, BeginType DEF Save, BeginSave, Idle
  <2>5. CASE Dump(l, n)
    <3>1. Path(l, n, "apl") \in Paths BY PathType DEF Extensions
    <3> QED BY <2>5, <3>1, BeginType DEF Dump, Idle
  <2> QED BY <1>3, <2>1, <2>2, <2>3, <2>4, <2>5
<1>4. CASE SaveWsid
  <2>1. wsid.lib \in Libs /\ wsid.name \in Names
    BY <1>0, <1>4 DEF SaveWsid, WsIds
  <2>2. Path(wsid.lib, wsid.name, "xml") \in Paths
    BY <2>1, PathType DEF Extensions
  <2> QED BY <1>4, <2>2, BeginType DEF SaveWsid, BeginSave, Idle
<1>5. CASE DumpWsid
  <2>1. wsid.lib \in Libs /\ wsid.name \in Names
    BY <1>0, <1>5 DEF DumpWsid, WsIds
  <2>2. Path(wsid.lib, wsid.name, "apl") \in Paths
    BY <2>1, PathType DEF Extensions
  <2> QED BY <1>5, <2>2, BeginType DEF DumpWsid, Idle
<1>6. CASE Continue
  <2>1. Path(LIB0, CONTINUE, "xml") \in Paths
    BY PathType, LibraryAssumption DEF Extensions
  <2>2. [lib |-> LIB0, name |-> CONTINUE] \in WsIds
    BY LibraryAssumption DEF WsIds
  <2> QED BY <1>6, <2>1, <2>2, BeginType DEF Continue, BeginSave, Idle
<1>7. CASE NoBackup BY <1>7 DEF NoBackup, memory, disk, history
<1>8. CASE UnlinkBackup
  BY <1>8, FileType DEF UnlinkBackup, memory, history
<1>9. CASE RenameToBackup
  BY <1>9, FileType DEF RenameToBackup, memory, history
<1>10. CASE Open
  <2>1. wsid' \in WsIds
    BY <1>0, <1>10, LibraryAssumption DEF Open, WsIds, Paths
  <2>2. files' \in [Paths -> Files] BY <1>10, FileType DEF Open
  <2> QED BY <1>10, <2>1, <2>2 DEF Open, history
<1>11. CASE GiveUp BY <1>11, EndType DEF GiveUp, disk
<1>12. CASE Write
  <2>1. Whole(work, IF target.ext = "xml" THEN wsid ELSE ClearId) \in Files
    BY <1>0, FileType
  <2>2. files' \in [Paths -> Files] BY <1>12, <2>1 DEF Write
  <2>3. good[target] \in SUBSET Contents BY <1>0
  <2>4. /\ good' \in [Paths -> SUBSET Contents]
        /\ previous' \in [Paths -> SUBSET Contents]
        /\ left' \in SUBSET Contents
    BY <1>0, <1>12, <2>3 DEF Write
  <2>5. attempts' \in [Paths -> 0..MaxWrites]
    BY <1>12, LibraryAssumption DEF Write
  <2>6. \A p \in Paths : attempts'[p] <= writes'
    <3>1. writes' = writes /\ writes \in 0..MaxWrites
      BY <1>12, EndType DEF Write
    <3>2. ASSUME NEW p \in Paths PROVE attempts'[p] <= writes'
      <4>1. attempts'[p] = IF p = target THEN 0 ELSE attempts[p]
        BY <1>12 DEF Write
      <4>2. attempts[p] <= writes OBVIOUS
      <4> HIDE DEF TypeInv, TypeOK
      <4> QED BY <3>1, <4>1, <4>2, LibraryAssumption
    <3> QED BY <3>2
  <2> QED BY <1>12, <2>2, <2>4, <2>5, <2>6, EndType DEF Write
<1>13. CASE WriteFails
  <2>1. files' \in [Paths -> Files] BY <1>13, FileType DEF WriteFails
  <2> QED BY <1>13, <2>1, EndType DEF WriteFails
<1>14. CASE WriteThrows
  <2>1. files' \in [Paths -> Files] BY <1>14, FileType DEF WriteThrows
  <2> QED BY <1>14, <2>1 DEF WriteThrows, memory, history
<1>15. CASE Stop
  <2>1. files' \in [Paths -> Files] BY <1>15, FileType DEF Stop
  <2> QED BY <1>15, <2>1, FileType, LibraryAssumption DEF Stop, Gone, history
<1>16. ASSUME NEW do_CONT \in BOOLEAN, Start(do_CONT) PROVE TypeInv'
  <2>1. work' \in Contents /\ wsid' \in WsIds
    BY <1>16, ExistingType, LoadType, LibraryAssumption DEF Start
  <2> QED BY <1>16, <2>1 DEF Start, disk, command
<1>17. ASSUME NEW p \in Paths, Protect(p) PROVE TypeInv'
  <2>1. [files[p] EXCEPT !.readOnly = ~@] \in Files
    BY DEF Files
  <2>2. files' \in [Paths -> Files] BY <1>17, <2>1 DEF Protect
  <2> QED BY <1>17, <2>2 DEF Protect, memory, command, history
<1>18. CASE UNCHANGED vars
  BY <1>18 DEF vars, memory, disk, command, history
<1> QED
  BY <1>1, <1>2, <1>3, <1>4, <1>5, <1>6, <1>7, <1>8, <1>9, <1>10, <1>11, <1>12,
     <1>13, <1>14, <1>15, <1>16, <1>17, <1>18 DEF Next

LEMMA TypeInit == Init => TypeInv
<1> SUFFICES ASSUME Init PROVE TypeInv
  OBVIOUS
<1>1. target \in Paths
  BY PathType, LibraryAssumption DEF Init, Extensions
<1>2. 0 \in 0..MaxWrites
  BY LibraryAssumption
<1>3. files \in [Paths -> Files] /\ baks \in [Paths -> Files]
  BY FileType DEF Init
<1>4. writes = 0 /\ \A p \in Paths : attempts[p] = 0
  BY DEF Init
<1>5. \A p \in Paths : attempts[p] <= writes
  BY <1>4
<1>6. attempts \in [Paths -> 0..MaxWrites]
  BY <1>2 DEF Init
<1>7. TypeOK
  BY <1>1, <1>2, <1>3, <1>6, FileType, LibraryAssumption DEF Init, TypeOK
<1> QED
  BY <1>5, <1>7 DEF TypeInv, Init

-----------------------------------------------------------------------------
(* What was written is kept.                                               *)

\* Where the content c of the last complete write of p is, depending on how far the
\* command that writes p is: it is in the file until the file is renamed, and in the
\* backup from then on.  Later, when one attempt has failed, it is in one of them.
Kept(p, c) ==
  /\ attempts[p] = 0 => Holds(files[p], c)
  /\ attempts[p] = 1 /\ target = p /\ step \in {"backup", "rename"}
       => Holds(files[p], c)
  /\ attempts[p] = 1 /\ target = p /\ step \in {"open", "write"} /\ backup
       => Holds(baks[p], c)
  /\ attempts[p] = 1 /\ backup => Holds(files[p], c) \/ Holds(baks[p], c)

\* BackupIsPrevious, of every file: the code does not except that of )CONTINUE.
BackupsArePrevious ==
  \A p \in Paths : \A c \in previous[p] :
    backup /\ attempts[p] = 0 => Holds(baks[p], c)

\* The files of a command under way are those of a counted attempt, so that no other
\* path is at risk.
SafeInv ==
  /\ step # "idle" => attempts[target] # 0
  /\ \A p \in Paths : \A c \in good[p] : Kept(p, c)
  /\ BackupsArePrevious

LEMMA SafeImplies == TypeInv /\ SafeInv => SavedWorkIsKept /\ BackupIsPrevious
<1> SUFFICES ASSUME TypeInv, SafeInv, NEW p \in Paths, NEW c \in good[p],
                    attempts[p] <= (IF backup THEN 1 ELSE 0)
             PROVE  Holds(files[p], c) \/ Holds(baks[p], c)
  BY DEF SafeInv, SavedWorkIsKept, BackupsArePrevious, BackupIsPrevious
<1>1. attempts[p] \in Nat
  BY LibraryAssumption DEF TypeInv, TypeOK
<1>2. attempts[p] = 0 \/ (attempts[p] = 1 /\ backup)
  BY <1>1
<1> QED
  BY <1>2 DEF SafeInv, Kept

\* Steps that touch neither files nor histories keep the invariant if no command
\* proceeds.
LEMMA SafeStutter ==
  ASSUME SafeInv, step' \in {"idle", step},
         UNCHANGED <<disk, target, backup, attempts, good, previous>>
  PROVE  SafeInv'
  BY DEF SafeInv, Kept, Holds, BackupsArePrevious, disk

LEMMA SafeBegin ==
  ASSUME TypeInv, SafeInv, NEW p \in Paths, NEW off, step = "idle", Begin(p, off)
  PROVE  SafeInv'
<1>1. \A q \in Paths : attempts'[q] = IF q = p THEN attempts[q] + 1 ELSE attempts[q]
  BY DEF Begin, TypeInv, TypeOK
<1>2. \A q \in Paths : attempts[q] \in Nat
  BY LibraryAssumption DEF TypeInv, TypeOK
<1>3. /\ step' = "backup" /\ target' = p
      /\ UNCHANGED <<backup, files, baks, good, previous>>
  BY DEF Begin, disk
<1>4. ASSUME NEW q \in Paths, NEW c \in good'[q] PROVE Kept(q, c)'
  <2>1. Kept(q, c) BY <1>3, <1>4 DEF SafeInv
  <2>2. CASE q = p
    <3>1. attempts'[q] = attempts[q] + 1 /\ attempts[q] \in Nat
      BY <1>1, <1>2, <2>2
    <3>2. attempts'[q] # 0 /\ (attempts'[q] = 1 => attempts[q] = 0)
      BY <3>1
    <3> QED BY <1>3, <2>1, <3>2 DEF Kept, Holds
  <2>3. CASE q # p
    BY <1>1, <1>3, <2>1, <2>3 DEF Kept, Holds
  <2> QED BY <2>2, <2>3
<1>5. attempts'[p] # 0
  BY <1>1, <1>2
<1>6. BackupsArePrevious'
  <2> SUFFICES ASSUME NEW q \in Paths, NEW c \in previous'[q],
                      backup', attempts'[q] = 0
               PROVE  Holds(baks[q], c)'
    BY DEF BackupsArePrevious
  <2>1. q # p BY <1>5
  <2>2. attempts[q] = 0 BY <1>1, <2>1
  <2> QED BY <1>3, <2>2 DEF SafeInv, BackupsArePrevious, Holds
<1> QED
  BY <1>3, <1>4, <1>5, <1>6 DEF SafeInv

\* A command that proceeds changes the files of its own path only.
LEMMA SafeProceed ==
  ASSUME TypeInv, SafeInv, step # "idle",
         UNCHANGED <<target, backup, attempts, good, previous>>,
         \A q \in Paths : q # target => /\ files'[q] = files[q]
                                        /\ baks'[q] = baks[q],
         \A c \in good[target] : Kept(target, c)'
  PROVE  SafeInv'
<1>1. attempts[target] # 0
  BY DEF SafeInv
<1>2. ASSUME NEW q \in Paths, NEW c \in good'[q] PROVE Kept(q, c)'
  <2>1. CASE q = target BY <1>2, <2>1
  <2>2. CASE q # target
    BY <1>2, <2>2 DEF SafeInv, Kept, Holds
  <2> QED BY <2>1, <2>2
<1>3. BackupsArePrevious'
  <2> SUFFICES ASSUME NEW q \in Paths, NEW c \in previous'[q],
                      backup', attempts'[q] = 0
               PROVE  Holds(baks[q], c)'
    BY DEF BackupsArePrevious
  <2>1. q # target BY <1>1
  <2> QED BY <2>1 DEF SafeInv, BackupsArePrevious, Holds
<1> QED
  BY <1>1, <1>2, <1>3 DEF SafeInv

\* A file that was written completely holds what was written.
LEMMA HoldsWhole ==
  ASSUME NEW c, NEW id
  PROVE  Holds(Whole(c, id), c)
  BY DEF Holds, Whole

\* What is kept stays kept, whatever step the interpreter, the file system or another
\* process makes.
LEMMA SafeInvariant == TypeInv /\ SafeInv /\ [Next]_vars => SafeInv'
<1> SUFFICES ASSUME TypeInv, SafeInv, [Next]_vars PROVE SafeInv'
  OBVIOUS
<1>0. /\ target \in Paths
      /\ \A p \in Paths : attempts[p] \in Nat
      /\ files \in [Paths -> Files] /\ baks \in [Paths -> Files]
      /\ good \in [Paths -> SUBSET Contents]
      /\ previous \in [Paths -> SUBSET Contents]
      /\ attempts \in [Paths -> 0..MaxWrites]
  BY LibraryAssumption DEF TypeInv, TypeOK
<1>1. CASE Edit \/ ClearWS
  BY <1>1, SafeStutter DEF Edit, ClearWS, command, history
<1>2. ASSUME NEW l \in Libs, NEW n \in Names,
             SetWsid(l, n) \/ Load(l, n) \/ Drop(l, n) \/ Save(l, n) \/ Dump(l, n)
      PROVE  SafeInv'
  <2>1. CASE SetWsid(l, n) \/ Load(l, n)
    BY <2>1, SafeStutter DEF SetWsid, Load, command, history
  <2>2. CASE Drop(l, n)
    <3> DEFINE d == Existing(l, n)
    <3>1. /\ step' = "idle"
          /\ UNCHANGED <<target, backup, baks, attempts>>
          /\ files' = [files EXCEPT ![d] = NoFile]
          /\ good' = [good EXCEPT ![d] = {}]
          /\ previous' = [previous EXCEPT ![d] = {}]
      BY <2>2 DEF Drop, Idle, command, memory
    <3> HIDE DEF d
    <3>2. ASSUME NEW q \in Paths, NEW c \in good'[q] PROVE Kept(q, c)'
      <4>1. q # d BY <1>0, <3>1, <3>2
      <4>2. c \in good[q] /\ files'[q] = files[q] BY <1>0, <3>1, <3>2, <4>1
      <4> QED BY <3>1, <4>2 DEF SafeInv, Kept, Holds
    <3>3. BackupsArePrevious'
      <4> SUFFICES ASSUME NEW q \in Paths, NEW c \in previous'[q],
                          backup', attempts'[q] = 0
                   PROVE  Holds(baks[q], c)'
        BY DEF BackupsArePrevious
      <4>1. c \in previous[q] BY <1>0, <3>1
      <4> QED BY <3>1, <4>1 DEF SafeInv, BackupsArePrevious, Holds
    <3> QED BY <3>1, <3>2, <3>3 DEF SafeInv
  <2>3. CASE Save(l, n)
    <3>1. Path(l, n, "xml") \in Paths BY PathType DEF Extensions
    <3> QED BY <2>3, <3>1, SafeBegin DEF Save, BeginSave, Idle
  <2>4. CASE Dump(l, n)
    <3>1. Path(l, n, "apl") \in Paths BY PathType DEF Extensions
    <3> QED BY <2>4, <3>1, SafeBegin DEF Dump, Idle
  <2> QED BY <1>2, <2>1, <2>2, <2>3, <2>4
<1>3. CASE SaveWsid \/ DumpWsid \/ Continue
  <2>1. wsid.name # CLEAR_WS => wsid.lib \in Libs /\ wsid.name \in Names
    BY DEF TypeInv, TypeOK, WsIds
  <2>2. ASSUME wsid.name # CLEAR_WS, NEW e \in Extensions
        PROVE  Path(wsid.lib, wsid.name, e) \in Paths
    BY <2>1, <2>2, PathType
  <2>3. Path(LIB0, CONTINUE, "xml") \in Paths
    BY PathType, LibraryAssumption DEF Extensions
  <2>4. CASE SaveWsid
    BY <2>2, <2>4, SafeBegin DEF SaveWsid, BeginSave, Idle, Extensions
  <2>5. CASE DumpWsid
    BY <2>2, <2>5, SafeBegin DEF DumpWsid, Idle, Extensions
  <2>6. CASE Continue
    BY <2>3, <2>6, SafeBegin DEF Continue, BeginSave, Idle
  <2> QED BY <1>3, <2>4, <2>5, <2>6
<1>4. CASE NoBackup
  <2>1. ASSUME NEW c \in good[target] PROVE Kept(target, c)'
    <3>1. Kept(target, c) BY <1>0, <2>1 DEF SafeInv
    <3>2. attempts[target] # 0 BY <1>4 DEF SafeInv, NoBackup
    <3>3. Holds(files[target], c) => Exists(target)
      BY DEF Holds, Exists
    <3> QED BY <1>4, <3>1, <3>2, <3>3
            DEF NoBackup, Kept, Holds, memory, disk, history
  <2> QED BY <1>4, <2>1, SafeProceed DEF NoBackup, memory, disk, history
<1>5. CASE UnlinkBackup
  <2>1. /\ step = "backup" /\ step' = "rename"
        /\ baks' = [baks EXCEPT ![target] = NoFile]
        /\ UNCHANGED <<target, backup, files, attempts, good, previous>>
    BY <1>5 DEF UnlinkBackup, memory, history
  <2>2. ASSUME NEW c \in good[target] PROVE Kept(target, c)'
    <3>1. Kept(target, c) BY <1>0, <2>2 DEF SafeInv
    <3>2. attempts[target] # 0 BY <2>1 DEF SafeInv
    <3> QED BY <2>1, <3>1, <3>2 DEF Kept, Holds
  <2> QED BY <1>0, <2>1, <2>2, SafeProceed
<1>6. CASE RenameToBackup
  <2>1. /\ step = "rename" /\ step' = "open"
        /\ baks' = [baks EXCEPT ![target] = files[target]]
        /\ files' = [files EXCEPT ![target] = NoFile]
        /\ UNCHANGED <<target, backup, attempts, good, previous>>
    BY <1>6 DEF RenameToBackup, memory, history
  <2>2. ASSUME NEW c \in good[target] PROVE Kept(target, c)'
    <3>1. Kept(target, c) BY <1>0, <2>2 DEF SafeInv
    <3>2. attempts[target] # 0 BY <2>1 DEF SafeInv
    <3>3. baks'[target] = files[target] BY <1>0, <2>1
    <3> QED BY <2>1, <3>1, <3>2, <3>3 DEF Kept, Holds
  <2> QED BY <1>0, <2>1, <2>2, SafeProceed
<1>7. CASE Open \/ WriteThrows
  <2>1. /\ step \in {"open", "write"} /\ step' \in {"write", "idle"}
        /\ \E how : files' = [files EXCEPT ![target] = Unfinished(how)]
        /\ UNCHANGED <<target, backup, baks, attempts, good, previous>>
    BY <1>7 DEF Open, WriteThrows, memory, history
  <2>2. ASSUME NEW c \in good[target] PROVE Kept(target, c)'
    <3>1. Kept(target, c) BY <1>0, <2>2 DEF SafeInv
    <3>2. attempts[target] # 0 BY <2>1 DEF SafeInv
    <3> QED BY <2>1, <3>1, <3>2 DEF Kept, Holds
  <2> QED BY <1>0, <2>1, <2>2, SafeProceed
<1>8. CASE GiveUp
  <2>1. step' = "idle" /\ UNCHANGED <<target, backup>>
    BY <1>8, EndType DEF GiveUp
  <2> QED BY <1>8, <2>1, SafeStutter DEF GiveUp
<1>9. CASE Write
  <2>1. /\ step = "write" /\ step' = "idle"
        /\ UNCHANGED <<target, backup, baks>>
        /\ \A q \in Paths : q # target => /\ files'[q] = files[q]
                                          /\ attempts'[q] = attempts[q]
                                          /\ good'[q] = good[q]
                                          /\ previous'[q] = previous[q]
    BY <1>9, EndType DEF Write
  <2>2. /\ attempts'[target] = 0 /\ good'[target] = {work}
        /\ previous'[target] = IF attempts[target] = 1 THEN good[target] ELSE {}
        /\ Holds(files'[target], work)
    BY <1>0, <1>9, HoldsWhole DEF Write
  <2>3. ASSUME NEW q \in Paths, NEW c \in good'[q] PROVE Kept(q, c)'
    <3>1. CASE q = target BY <2>1, <2>2, <2>3, <3>1 DEF Kept, Holds
    <3>2. CASE q # target
      BY <2>1, <2>3, <3>2 DEF SafeInv, Kept, Holds
    <3> QED BY <3>1, <3>2
  <2>4. BackupsArePrevious'
    <3> SUFFICES ASSUME NEW q \in Paths, NEW c \in previous'[q],
                        backup', attempts'[q] = 0
                 PROVE  Holds(baks[q], c)'
      BY DEF BackupsArePrevious
    <3>1. CASE q = target
      <4>1. attempts[q] = 1 /\ c \in good[q] BY <2>2, <3>1
      <4> QED BY <2>1, <3>1, <4>1 DEF SafeInv, Kept, Holds
    <3>2. CASE q # target
      BY <2>1, <3>2 DEF SafeInv, BackupsArePrevious, Holds
    <3> QED BY <3>1, <3>2
  <2> QED BY <2>1, <2>3, <2>4 DEF SafeInv
<1>10. CASE WriteFails \/ (Stop /\ step = "write")
  <2>1. /\ step = "write" /\ step' = "idle"
        /\ \E how : files' = [files EXCEPT ![target] = Unfinished(how)]
        /\ UNCHANGED <<target, backup, baks, attempts, good, previous>>
    BY <1>10, EndType DEF WriteFails, Stop, history
  <2>2. ASSUME NEW c \in good[target] PROVE Kept(target, c)'
    <3>1. Kept(target, c) BY <1>0, <2>2 DEF SafeInv
    <3>2. attempts[target] # 0 BY <2>1 DEF SafeInv
    <3> QED BY <2>1, <3>1, <3>2 DEF Kept, Holds
  <2> QED BY <1>0, <2>1, <2>2, SafeProceed
<1>11. CASE Stop /\ step # "write"
  BY <1>11, SafeStutter DEF Stop, disk, history
<1>12. ASSUME NEW do_CONT \in BOOLEAN, Start(do_CONT) PROVE SafeInv'
  BY <1>12, SafeStutter DEF Start, command
<1>13. ASSUME NEW p \in Paths, Protect(p) PROVE SafeInv'
  <2>1. \A q \in Paths : \A c : Holds(files'[q], c) <=> Holds(files[q], c)
    <3>1. ASSUME NEW q \in Paths
          PROVE  /\ files'[q].state = files[q].state
                 /\ files'[q].content = files[q].content
      <4>1. CASE q = p
        <5>1. files'[q] = [files[q] EXCEPT !.readOnly = ~@]
          BY <1>0, <1>13, <4>1 DEF Protect
        <5>2. files[q] \in Files BY <1>0
        <5> QED BY <5>1, <5>2 DEF Files
      <4>2. CASE q # p BY <1>0, <1>13, <4>2 DEF Protect
      <4> QED BY <4>1, <4>2
    <3> QED BY <3>1 DEF Holds
  <2>2. UNCHANGED <<step, target, backup, baks, attempts, good, previous>>
    BY <1>13 DEF Protect, memory, command, history
  <2>3. \A q \in Paths : \A c : Holds(baks'[q], c) <=> Holds(baks[q], c)
    BY <2>2
  <2>4. ASSUME NEW q \in Paths, NEW c \in good'[q] PROVE Kept(q, c)'
    <3>1. Kept(q, c) BY <2>2, <2>4 DEF SafeInv
    <3> QED BY <2>1, <2>2, <2>3, <3>1 DEF Kept
  <2>5. BackupsArePrevious'
    BY <2>2 DEF SafeInv, BackupsArePrevious, Holds
  <2> QED BY <2>2, <2>4, <2>5 DEF SafeInv
<1>14. CASE UNCHANGED vars
  BY <1>14, SafeStutter DEF vars, memory, command, history
<1> QED
  BY <1>1, <1>2, <1>3, <1>4, <1>5, <1>6, <1>7, <1>8, <1>9, <1>10, <1>11, <1>12,
     <1>13, <1>14 DEF Next

-----------------------------------------------------------------------------
(* Names.                                                                  *)

\* A workspace being saved has the name of its file.
NameInv ==
  /\ step = "write" /\ target.ext = "xml"
       => wsid = [lib |-> LIB0, name |-> target.name]
  /\ FileKnowsItsName

\* Changing at most the file at target, to one that is not whole or has the right
\* name, is harmless, and so is moving it to the backup.
LEMMA NameKept ==
  ASSUME TypeInv, NameInv,
         \A p \in Paths : \A f \in {files'[p], baks'[p]} :
            \/ f \in {files[p], baks[p]}
            \/ f.state # "whole"
            \/ p.ext = "xml" => f.wsid = [lib |-> LIB0, name |-> p.name],
         step' = "write" /\ target'.ext = "xml"
           => wsid' = [lib |-> LIB0, name |-> target'.name]
  PROVE  NameInv'
  BY DEF NameInv, FileKnowsItsName

LEMMA NotWhole ==
  NoFile.state # "whole" /\ \A how \in {"empty", "torn"} :
                              Unfinished(how).state # "whole"
  BY DEF NoFile, Unfinished

LEMMA NameInvariant == TypeInv /\ NameInv /\ [Next]_vars => NameInv'
<1> SUFFICES ASSUME TypeInv, NameInv, [Next]_vars PROVE NameInv'
  OBVIOUS
<1>0. /\ target \in Paths
      /\ files \in [Paths -> Files] /\ baks \in [Paths -> Files]
  BY DEF TypeInv, TypeOK
<1>1. CASE UNCHANGED disk /\ step' # "write"
  BY <1>1, NameKept DEF disk
<1>2. ASSUME step' # "write", NEW p \in Paths, UNCHANGED baks,
             NEW f, f.state # "whole", files' = [files EXCEPT ![p] = f]
      PROVE  NameInv'
  BY <1>0, <1>2, NameKept
<1>3. CASE Edit \/ ClearWS \/ SaveWsid \/ DumpWsid \/ Continue
           \/ (\E l \in Libs, n \in Names :
                 SetWsid(l, n) \/ Load(l, n) \/ Save(l, n) \/ Dump(l, n))
  BY <1>1, <1>3 DEF Edit, ClearWS, SaveWsid, DumpWsid, Continue, SetWsid, Load,
                    Save, Dump, BeginSave, Begin, Idle, command
<1>4. ASSUME NEW l \in Libs, NEW n \in Names, Drop(l, n) PROVE NameInv'
  <2>1. Existing(l, n) \in Paths BY ExistingType
  <2> QED BY <1>2, <1>4, <2>1, NotWhole DEF Drop, Idle, command
<1>5. CASE NoBackup \/ GiveUp
  <2>1. step' # "write" BY <1>5, EndType DEF NoBackup, GiveUp
  <2> QED BY <1>1, <1>5, <2>1 DEF NoBackup, GiveUp
<1>6. CASE UnlinkBackup
  <2>1. \A p \in Paths : files'[p] = files[p]
                         /\ (baks'[p] = baks[p] \/ baks'[p] = NoFile)
    BY <1>0, <1>6 DEF UnlinkBackup
  <2> QED BY <1>6, <2>1, NameKept, NotWhole DEF UnlinkBackup
<1>7. CASE RenameToBackup
  <2>1. \A p \in Paths : /\ files'[p] = files[p] \/ files'[p] = NoFile
                         /\ baks'[p] = baks[p] \/ baks'[p] = files[p]
    BY <1>0, <1>7 DEF RenameToBackup
  <2> QED BY <1>7, <2>1, NameKept, NotWhole DEF RenameToBackup
<1>8. CASE Open
  <2>1. \A p \in Paths : /\ baks'[p] = baks[p]
                         /\ files'[p] = files[p] \/ files'[p] = Unfinished("empty")
    BY <1>0, <1>8 DEF Open
  <2> QED BY <1>8, <2>1, NameKept, NotWhole DEF Open
<1>9. CASE Write
  <2> DEFINE w == Whole(work, IF target.ext = "xml" THEN wsid ELSE ClearId)
  <2>1. \A p \in Paths : /\ baks'[p] = baks[p]
                         /\ files'[p] = IF p = target THEN w ELSE files[p]
    BY <1>0, <1>9 DEF Write
  <2>2. target.ext = "xml" => w.wsid = [lib |-> LIB0, name |-> target.name]
    BY <1>9 DEF NameInv, Write, Whole
  <2>3. step' # "write" BY <1>9, EndType DEF Write
  <2> HIDE DEF w
  <2> QED BY <2>1, <2>2, <2>3, NameKept
<1>10. CASE WriteFails \/ WriteThrows \/ Stop
  <2>1. step' # "write"
    BY <1>10, EndType DEF WriteFails, WriteThrows, Stop
  <2>2. UNCHANGED baks
    BY <1>10 DEF WriteFails, WriteThrows, Stop
  <2>3. \/ UNCHANGED files
        \/ \E how \in {"empty", "torn"} :
             files' = [files EXCEPT ![target] = Unfinished(how)]
    BY <1>10 DEF WriteFails, WriteThrows, Stop
  <2>4. CASE UNCHANGED files
    BY <1>1, <2>1, <2>2, <2>4 DEF disk
  <2>5. ASSUME NEW how \in {"empty", "torn"},
               files' = [files EXCEPT ![target] = Unfinished(how)]
        PROVE  NameInv'
    BY <1>0, <1>2, <2>1, <2>2, <2>5, NotWhole
  <2> QED BY <2>3, <2>4, <2>5
<1>11. ASSUME NEW do_CONT \in BOOLEAN, Start(do_CONT) PROVE NameInv'
  <2>1. step' # "write" BY <1>11 DEF TypeInv, Start, command
  <2> QED BY <1>1, <1>11, <2>1 DEF Start
<1>12. ASSUME NEW p \in Paths, Protect(p) PROVE NameInv'
  <2>1. \A q \in Paths : /\ baks'[q] = baks[q]
                         /\ files'[q].wsid = files[q].wsid
                         /\ files'[q].state = files[q].state
    <3>1. [files[p] EXCEPT !.readOnly = ~@].wsid = files[p].wsid
          /\ [files[p] EXCEPT !.readOnly = ~@].state = files[p].state
      <4>1. files[p] \in Files BY <1>0
      <4> QED BY <4>1 DEF Files
    <3> QED BY <1>0, <1>12, <3>1 DEF Protect
  <2>2. step' # "write" BY <1>12 DEF Protect, command
  <2> QED BY <2>1, <2>2 DEF NameInv, FileKnowsItsName
<1>13. CASE UNCHANGED vars
  BY <1>13 DEF vars, memory, disk, command, NameInv, FileKnowsItsName
<1> QED
  BY <1>3, <1>4, <1>5, <1>6, <1>7, <1>8, <1>9, <1>10, <1>11, <1>12, <1>13 DEF Next

-----------------------------------------------------------------------------
(* )CONTINUE.                                                              *)

\* Only )CONTINUE leaves, and what it has left is in its file until the interpreter
\* starts again.
LeftInv ==
  /\ leaving => target = ContinuePath
  /\ left # {} => ~running
  /\ \A c \in left : Holds(files[ContinuePath], c)

LEMMA LeftInvariant == TypeInv /\ LeftInv /\ [Next]_vars => LeftInv'
<1> SUFFICES ASSUME TypeInv, LeftInv, [Next]_vars PROVE LeftInv'
  OBVIOUS
<1>0. /\ target \in Paths /\ ContinuePath \in Paths
      /\ files \in [Paths -> Files] /\ leaving \in BOOLEAN
  BY PathType, LibraryAssumption DEF TypeInv, TypeOK, ContinuePath, Extensions
<1>1. CASE running /\ left' = left /\ (leaving' => target' = ContinuePath)
  BY <1>1 DEF LeftInv
<1>2. CASE \/ Edit \/ ClearWS \/ SaveWsid \/ DumpWsid \/ Continue
           \/ (\E l \in Libs, n \in Names : SetWsid(l, n) \/ Load(l, n)
                 \/ Drop(l, n) \/ Save(l, n) \/ Dump(l, n))
  <2>1. CASE Continue
    BY <1>1, <2>1 DEF Continue, Idle, BeginSave, Begin, ContinuePath
  <2>2. CASE SaveWsid \/ DumpWsid
             \/ (\E l \in Libs, n \in Names : Save(l, n) \/ Dump(l, n))
    BY <1>1, <2>2 DEF SaveWsid, DumpWsid, Save, Dump, Idle, BeginSave, Begin
  <2>3. CASE Edit \/ ClearWS \/ (\E l \in Libs, n \in Names :
                                   SetWsid(l, n) \/ Load(l, n) \/ Drop(l, n))
    BY <1>1, <2>3 DEF LeftInv, Edit, ClearWS, SetWsid, Load, Drop, Idle, command,
                      history
  <2> QED BY <1>2, <2>1, <2>2, <2>3
<1>3. CASE NoBackup \/ UnlinkBackup \/ RenameToBackup \/ Open
  BY <1>1, <1>3 DEF LeftInv, NoBackup, UnlinkBackup, RenameToBackup, Open, history
<1>4. CASE GiveUp \/ WriteFails \/ WriteThrows \/ Stop
  <2>1. running /\ leaving' = FALSE /\ left' = left
    BY <1>4, EndType DEF GiveUp, WriteFails, WriteThrows, Stop, history
  <2> QED BY <1>1, <2>1
<1>5. CASE Write
  <2>1. CASE leaving
    <3>1. target = ContinuePath BY <2>1 DEF LeftInv
    <3>2. left' = {work} /\ ~running' /\ ~leaving'
      BY <1>5, <2>1 DEF Write, End, Gone
    <3>3. Holds(files'[ContinuePath], work)
      BY <1>0, <1>5, <3>1, HoldsWhole DEF Write
    <3> QED BY <3>2, <3>3 DEF LeftInv, Holds
  <2>2. CASE ~leaving
    BY <1>1, <1>5, <2>2, EndType DEF Write
  <2> QED BY <2>1, <2>2
<1>6. ASSUME NEW do_CONT \in BOOLEAN, Start(do_CONT) PROVE LeftInv'
  BY <1>6 DEF LeftInv, Start, command
<1>7. ASSUME NEW p \in Paths, Protect(p) PROVE LeftInv'
  <2>1. /\ files'[ContinuePath].state = files[ContinuePath].state
        /\ files'[ContinuePath].content = files[ContinuePath].content
    <3>1. CASE p = ContinuePath
      <4>1. files'[p] = [files[p] EXCEPT !.readOnly = ~@]
        BY <1>0, <1>7 DEF Protect
      <4>2. files[p] \in Files BY <1>0
      <4> QED BY <3>1, <4>1, <4>2 DEF Files
    <3>2. CASE p # ContinuePath BY <1>0, <1>7, <3>2 DEF Protect
    <3> QED BY <3>1, <3>2
  <2> QED BY <1>7, <2>1 DEF LeftInv, Protect, Holds, memory, command, history
<1>8. CASE UNCHANGED vars
  BY <1>8 DEF LeftInv, vars, memory, disk, command, history, Holds
<1> QED
  BY <1>2, <1>3, <1>4, <1>5, <1>6, <1>7, <1>8 DEF Next

\* The .xml file of CONTINUE is there, so that it is what the start loads.
LEMMA StartLoadsContinue ==
  ASSUME LeftInv, Start(TRUE), NEW c \in left
  PROVE  work' = c
<1>1. Holds(files[ContinuePath], c)
  BY DEF LeftInv
<1>2. Exists(ContinuePath)
  BY <1>1 DEF Holds, Exists
<1>3. Existing(LIB0, CONTINUE) = ContinuePath
  BY <1>2 DEF Existing, ContinuePath
<1>4. ContinuePath.ext = "xml"
  BY DEF ContinuePath, Path
<1>5. PICK o \in LoadOutcomes(ContinuePath) : work' = o.work
  BY <1>2, <1>3 DEF Start
<1>6. LoadOutcomes(ContinuePath)
        = {[work |-> c, wsid |-> files[ContinuePath].wsid]}
  BY <1>1, <1>4 DEF LoadOutcomes, Holds
<1> QED
  BY <1>5, <1>6

-----------------------------------------------------------------------------
(* Theorems.                                                               *)

LEMMA LibraryInvariants == Spec => [](TypeInv /\ SafeInv /\ NameInv /\ LeftInv)
<1>1. Init => TypeInv /\ SafeInv /\ NameInv /\ LeftInv
  <2> SUFFICES ASSUME Init PROVE SafeInv /\ NameInv /\ LeftInv
    BY TypeInit
  <2>1. SafeInv BY DEF Init, SafeInv, BackupsArePrevious
  <2>2. NameInv
    BY NotWhole, LibraryAssumption DEF Init, NameInv, FileKnowsItsName, NoFile
  <2>3. LeftInv BY DEF Init, LeftInv
  <2> QED BY <2>1, <2>2, <2>3
<1>2. TypeInv /\ SafeInv /\ NameInv /\ LeftInv /\ [Next]_vars
        => (TypeInv /\ SafeInv /\ NameInv /\ LeftInv)'
  BY TypeInvariant, SafeInvariant, NameInvariant, LeftInvariant
<1> QED
  BY <1>1, <1>2, PTL DEF Spec

\* Whatever fails and whenever the interpreter dies, its variables and files stay
\* within their types.
THEOREM TypeCorrect == Spec => []TypeOK
<1>1. TypeInv => TypeOK BY DEF TypeInv
<1> QED BY <1>1, LibraryInvariants, PTL

\* With backups, work that was saved survives one later attempt that fails, at any
\* step of save_WS() and backup_existing_file().
THEOREM SavedWorkSurvives == Spec => []SavedWorkIsKept
  BY LibraryInvariants, SafeImplies, PTL

\* The backup is the version before the last one, of every file that is said to
\* have one.
THEOREM BackupIsOneBehind == Spec => []BackupIsPrevious
  BY LibraryInvariants, SafeImplies, PTL

\* Every complete .xml file and backup has the name that it is saved under.
THEOREM NamesAgree == Spec => []FileKnowsItsName
<1>1. NameInv => FileKnowsItsName BY DEF NameInv
<1> QED BY <1>1, LibraryInvariants, PTL

\* What )CONTINUE has written is what the next session starts with.
THEOREM WorkContinues == Spec => ContinueBringsBack
<1>1. LeftInv /\ [Next]_vars
        => [Start(TRUE) => \A c \in left : work' = c]_vars
  BY StartLoadsContinue
<1> QED BY <1>1, LibraryInvariants, PTL DEF Spec, ContinueBringsBack
=============================================================================
