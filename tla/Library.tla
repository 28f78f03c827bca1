-------------------------------- MODULE Library --------------------------------
(***************************************************************************)
(* Workspaces and the files that hold them: )SAVE, )DUMP, )LOAD, )DROP,    *)
(* )WSID, )CLEAR, )CONTINUE, )OFF and the start of the interpreter, over a *)
(* file system where every call may fail and the process may die between   *)
(* any two of them.                                                        *)
(*                                                                         *)
(* One interpreter uses the libraries.  A command that writes a file is    *)
(* several steps (check the name, remove the old backup, rename, open,     *)
(* write), the others are one.  The content of a workspace is an element   *)
(* of Contents; )SAVE writes .xml files, )DUMP writes .apl files.          *)
(***************************************************************************)
EXTENDS Naturals

CONSTANTS
  Libs, LIB0,        \* library numbers, and the one that is meant by default
  Names,             \* workspace names
  Contents, EmptyWS, \* what a workspace can contain, and nothing
  MaxWrites          \* bound: )SAVEs, )DUMPs and )CONTINUEs of a behaviour

CONTINUE == "CONTINUE"
CLEAR_WS == "CLEAR WS"

ASSUME LibraryAssumption ==
  /\ LIB0 \in Libs
  /\ CONTINUE \in Names
  /\ CLEAR_WS \notin Names    \* a name with a blank cannot be an argument
  /\ EmptyWS \in Contents
  /\ MaxWrites \in Nat

Extensions == {"xml", "apl"}
Paths == [lib : Libs, name : Names, ext : Extensions]
WsIds == [lib : Libs, name : Names \cup {CLEAR_WS}]

\* state: a file is absent, empty (opened, but nothing has reached the disk),
\* torn (its end is missing) or whole; only a whole file has a definite content.
Files == [state : {"absent", "empty", "torn", "whole"}, content : Contents,
          wsid : WsIds, readOnly : BOOLEAN]

VARIABLES
  running,    \* is there an interpreter process?
  work,       \* content of the active workspace
  wsid,       \* its name: the_workspace.WS_name
  backup,     \* uprefs.backup_before_save
  files,      \* the file at each path
  baks,       \* the file at each path with .bak appended
  step,       \* what the command that writes a file does next
  target,     \* the path that it writes
  leaving,    \* the command is )CONTINUE
  writes,     \* history: number of commands begun, see MaxWrites
  attempts,   \* history: commands that began to write a path since one completed
  good,       \* history: {content of the last complete write of a path}
  previous,   \* history: {content of the one before, if nothing failed between}
  left        \* history: {content that )CONTINUE has left for the next session}

memory  == <<running, work, wsid, backup>>
disk    == <<files, baks>>
command == <<step, target, leaving>>
history == <<writes, attempts, good, previous, left>>
vars == <<memory, disk, command, history>>

ClearId == [lib |-> LIB0, name |-> CLEAR_WS]
NoFile == [state |-> "absent", content |-> EmptyWS, wsid |-> ClearId,
           readOnly |-> FALSE]
Unfinished(how) == [NoFile EXCEPT !.state = how]
Whole(c, id) == [state |-> "whole", content |-> c, wsid |-> id,
                 readOnly |-> FALSE]

Path(l, n, e) == [lib |-> l, name |-> n, ext |-> e]
Exists(p) == files[p].state # "absent"
Holds(f, c) == f.state = "whole" /\ f.content = c

\* MUTANT: .apl is preferred to .xml.
ExistingDump(l, n) ==
  IF Exists(Path(l, n, "apl"))
  THEN Path(l, n, "apl") ELSE Path(l, n, "xml")

\* get_lib_filename(existing = true): .xml is preferred to .apl.
Existing(l, n) ==
  IF ~Exists(Path(l, n, "xml")) /\ Exists(Path(l, n, "apl"))
  THEN Path(l, n, "apl") ELSE Path(l, n, "xml")

Init ==
  /\ running = TRUE /\ work = EmptyWS /\ wsid = ClearId
  /\ backup \in BOOLEAN
  /\ files = [p \in Paths |-> NoFile]
  /\ baks = [p \in Paths |-> NoFile]
  /\ step = "idle" /\ leaving = FALSE
  /\ target = Path(LIB0, CONTINUE, "xml")
  /\ writes = 0 /\ left = {}
  /\ attempts = [p \in Paths |-> 0]
  /\ good = [p \in Paths |-> {}]
  /\ previous = [p \in Paths |-> {}]

Idle == running /\ step = "idle"

-----------------------------------------------------------------------------
(* Commands that write no file.                                            *)

\* Statements, )COPY and the editor change the workspace.
Edit ==
  /\ Idle
  /\ \E c \in Contents \ {work, EmptyWS} : work' = c
  /\ UNCHANGED <<running, wsid, backup, disk, command, history>>

ClearWS ==
  /\ Idle
  /\ work' = EmptyWS /\ wsid' = ClearId
  /\ UNCHANGED <<running, backup, disk, command, history>>

SetWsid(l, n) ==
  /\ Idle
  /\ wsid' = [lib |-> l, name |-> n]
  /\ UNCHANGED <<running, work, backup, disk, command, history>>

\* What the workspace can be after load_WS() of the file at p.  A file without
\* its first line is refused.  Of a .xml file without its end only its existence
\* is used: the old workspace has been cleared by then.  A .apl file is executed
\* as far as it goes, and takes its name from the file, as it has none in it.
LoadOutcomes(p) ==
  LET f == files[p]
      unchanged == [work |-> work, wsid |-> wsid]
      script(c) == [work |-> c, wsid |-> [lib |-> p.lib, name |-> p.name]]
  IN CASE f.state \in {"absent", "empty"} -> {unchanged}
       [] f.state = "torn" /\ p.ext = "xml" ->
            {unchanged, [work |-> EmptyWS, wsid |-> ClearId]}
       [] f.state = "torn" /\ p.ext = "apl" ->
            {unchanged} \cup {script(c) : c \in Contents}
       [] f.state = "whole" /\ p.ext = "xml" ->
            {[work |-> f.content, wsid |-> f.wsid]}
       [] f.state = "whole" /\ p.ext = "apl" -> {script(f.content)}

Load(l, n) ==
  /\ Idle
  /\ \E o \in LoadOutcomes(Existing(l, n)) : work' = o.work /\ wsid' = o.wsid
  /\ UNCHANGED <<running, backup, disk, command, history>>

\* )DROP; the attempt to unlink may fail, then nothing happens.
Drop(l, n) ==
  LET p == Existing(l, n) IN
  /\ Idle /\ Exists(p)
  /\ files' = [files EXCEPT ![p] = NoFile]
  /\ good' = [good EXCEPT ![p] = {}]
  /\ previous' = [previous EXCEPT ![p] = {}]
  /\ UNCHANGED <<memory, baks, command, writes, attempts, left>>

-----------------------------------------------------------------------------
(* Commands that write a file.                                             *)

Begin(p, off) ==
  /\ writes < MaxWrites
  /\ step' = "backup" /\ target' = p /\ leaving' = off
  /\ writes' = writes + 1
  /\ attempts' = [attempts EXCEPT ![p] = @ + 1]
  /\ UNCHANGED <<running, work, backup, disk, good, previous, left>>

\* save_WS() up to the backup, with the name that the workspace has then: a file
\* that could be written must not belong to a workspace with another name.  The
\* library is not part of the comparison unless it is part of the name.
BeginSave(l, n, id, off) ==
  LET p == Path(l, n, "xml") IN
  /\ ~(Exists(p) /\ ~files[p].readOnly) \/ id = [lib |-> LIB0, name |-> n]
  /\ wsid' = id
  /\ Begin(p, off)

Save(l, n) == Idle /\ BeginSave(l, n, wsid, FALSE)

SaveWsid ==
  Idle /\ wsid.name # CLEAR_WS /\ BeginSave(wsid.lib, wsid.name, wsid, FALSE)

Continue ==
  LET id == [lib |-> LIB0, name |-> CONTINUE] IN
  Idle /\ BeginSave(LIB0, CONTINUE, id, TRUE)

Dump(l, n) == Idle /\ Begin(Path(l, n, "apl"), FALSE) /\ UNCHANGED wsid

\* MUTANT: CLEAR WS is dumped like any other name.
DumpClearWs ==
  /\ Idle
  /\ Begin(Path(wsid.lib, wsid.name, "apl"), FALSE) /\ UNCHANGED wsid

DumpWsid ==
  /\ Idle /\ wsid.name # CLEAR_WS
  /\ Begin(Path(wsid.lib, wsid.name, "apl"), FALSE) /\ UNCHANGED wsid

\* The process is gone, and with it the workspace.
Gone == running' = FALSE /\ work' = EmptyWS /\ wsid' = ClearId

\* The command ends; )CONTINUE leaves the interpreter however it ended.
End ==
  /\ step' = "idle" /\ leaving' = FALSE
  /\ UNCHANGED <<target, backup, writes>>
  /\ IF leaving THEN Gone ELSE UNCHANGED <<running, work, wsid>>

\* MUTANT: a backup that exists is kept.
NoSecondBackup ==
  /\ running /\ step = "backup" /\ ~(backup /\ Exists(target) /\ baks[target] = NoFile)
  /\ step' = "open"
  /\ UNCHANGED <<memory, disk, target, leaving, history>>

\* backup_existing_file(): nothing to do, ...
NoBackup ==
  /\ running /\ step = "backup" /\ ~(backup /\ Exists(target))
  /\ step' = "open"
  /\ UNCHANGED <<memory, disk, target, leaving, history>>

\* ... or the old backup is removed ...
UnlinkBackup ==
  /\ running /\ step = "backup" /\ backup /\ Exists(target)
  /\ step' = "rename"
  /\ baks' = [baks EXCEPT ![target] = NoFile]
  /\ UNCHANGED <<memory, files, target, leaving, history>>

\* MUTANT: the result of rename() is not looked at.
RenameUnchecked ==
  /\ running /\ step = "rename"
  /\ step' = "open"
  /\ \/ /\ baks' = [baks EXCEPT ![target] = files[target]]
        /\ files' = [files EXCEPT ![target] = NoFile]
     \/ UNCHANGED disk
  /\ UNCHANGED <<memory, target, leaving, history>>

\* ... and the file becomes the backup.
RenameToBackup ==
  /\ running /\ step = "rename"
  /\ step' = "open"
  /\ baks' = [baks EXCEPT ![target] = files[target]]
  /\ files' = [files EXCEPT ![target] = NoFile]
  /\ UNCHANGED <<memory, target, leaving, history>>

\* MUTANT: )SAVE does not name the workspace before it writes it.
OpenUnnamed ==
  /\ running /\ step = "open" /\ ~files[target].readOnly
  /\ step' = "write"
  /\ files' = [files EXCEPT ![target] = Unfinished("empty")]
  /\ UNCHANGED <<running, work, wsid, backup, baks, target, leaving, history>>

\* The constructor of the ofstream empties the file; )SAVE names the workspace.
Open ==
  /\ running /\ step = "open" /\ ~files[target].readOnly
  /\ step' = "write"
  /\ files' = [files EXCEPT ![target] = Unfinished("empty")]
  /\ wsid' = IF target.ext = "xml" THEN [lib |-> LIB0, name |-> target.name]
                                   ELSE wsid
  /\ UNCHANGED <<running, work, backup, baks, target, leaving, history>>

\* unlink(), rename() or the constructor of the ofstream fails.
GiveUp ==
  /\ running
  /\ \/ step = "backup" /\ backup /\ Exists(target)
     \/ step \in {"rename", "open"}
  /\ End
  /\ UNCHANGED <<disk, attempts, good, previous, left>>

\* Everything has been written and the file is closed.
Write ==
  /\ running /\ step = "write"
  /\ files' = [files EXCEPT ![target] =
                 Whole(work, IF target.ext = "xml" THEN wsid ELSE ClearId)]
  /\ previous' = [previous EXCEPT ![target] =
                    IF attempts[target] = 1 THEN good[target] ELSE {}]
  /\ good' = [good EXCEPT ![target] = {work}]
  /\ attempts' = [attempts EXCEPT ![target] = 0]
  /\ left' = IF leaving THEN {work} ELSE left
  /\ End
  /\ UNCHANGED baks

\* Writing fails, for instance because the disk is full: nobody looks at the state
\* of the stream, and the command ends as if all were well.
WriteFails ==
  /\ running /\ step = "write"
  /\ \E how \in {"empty", "torn"} :
       files' = [files EXCEPT ![target] = Unfinished(how)]
  /\ End
  /\ UNCHANGED <<baks, attempts, good, previous, left>>

\* XML_Saving_Archive::save() throws WS FULL, which is an error of the command:
\* )CONTINUE does not get as far as )OFF.
WriteThrows ==
  /\ running /\ step = "write" /\ target.ext = "xml"
  /\ files' = [files EXCEPT ![target] = Unfinished("torn")]
  /\ step' = "idle" /\ leaving' = FALSE
  /\ UNCHANGED <<memory, baks, target, history>>

-----------------------------------------------------------------------------
(* The process, and others that use the files.                             *)

\* )OFF, or a crash at any time; what a crash leaves of a file being written is
\* empty or torn.
Stop ==
  /\ running
  /\ Gone
  /\ step' = "idle" /\ leaving' = FALSE
  /\ IF step = "write"
     THEN \E how \in {"empty", "torn"} :
            files' = [files EXCEPT ![target] = Unfinished(how)]
     ELSE UNCHANGED files
  /\ UNCHANGED <<backup, baks, target, history>>

\* The interpreter starts, and loads CONTINUE unless --noCONT or -L is given.
\* (It may also fail to start, at a file that is torn early: nothing changes.)
Start(do_CONT) ==
  LET p == Existing(LIB0, CONTINUE) IN
  /\ ~running
  /\ running' = TRUE
  /\ left' = {}
  /\ IF do_CONT /\ Exists(p)
     THEN \E o \in LoadOutcomes(p) : work' = o.work /\ wsid' = o.wsid
     ELSE UNCHANGED <<work, wsid>>
  /\ UNCHANGED <<backup, disk, command, writes, attempts, good, previous>>

\* Somebody makes a file read-only, or writable again.
Protect(p) ==
  /\ step = "idle" /\ files[p].state = "whole"
  /\ files' = [files EXCEPT ![p].readOnly = ~@]
  /\ UNCHANGED <<memory, baks, command, history>>

Next ==
  \/ Edit \/ ClearWS
  \/ \E l \in Libs, n \in Names :
       SetWsid(l, n) \/ Load(l, n) \/ Drop(l, n) \/ Save(l, n) \/ Dump(l, n)
  \/ SaveWsid \/ DumpWsid \/ Continue
  \/ NoBackup \/ UnlinkBackup \/ RenameToBackup \/ Open \/ GiveUp
  \/ Write \/ WriteFails \/ WriteThrows
  \/ Stop
  \/ \E do_CONT \in BOOLEAN : Start(do_CONT)
  \/ \E p \in Paths : Protect(p)

Spec == Init /\ [][Next]_vars

-----------------------------------------------------------------------------
TypeOK ==
  /\ running \in BOOLEAN /\ backup \in BOOLEAN
  /\ work \in Contents /\ wsid \in WsIds
  /\ files \in [Paths -> Files] /\ baks \in [Paths -> Files]
  /\ step \in {"idle", "backup", "rename", "open", "write"}
  /\ target \in Paths /\ leaving \in BOOLEAN
  /\ writes \in 0..MaxWrites
  /\ attempts \in [Paths -> 0..MaxWrites]
  /\ good \in [Paths -> SUBSET Contents]
  /\ previous \in [Paths -> SUBSET Contents]
  /\ left \in SUBSET Contents

\* What was written completely survives, in the file or in its backup, as long as
\* not more than one later command to write the same file has begun and not
\* completed, at whatever point it failed or the process died (none, without
\* backups).  )LOAD does not know about backups: they have to be renamed by hand.
SavedWorkIsKept ==
  \A p \in Paths : \A c \in good[p] :
     attempts[p] <= (IF backup THEN 1 ELSE 0)
       => Holds(files[p], c) \/ Holds(baks[p], c)

\* Between commands that complete, the backup is the version before the last one,
\* so that a )SAVE of the wrong thing can be undone. Nothing is said of the file
\* of )CONTINUE: README-9-post-installation:571 has it "saved, but not backed
\* up", although save_WS() makes a backup of it as of any other.
BackupIsPrevious ==
  \A p \in Paths \ {Path(LIB0, CONTINUE, "xml")} : \A c \in previous[p] :
     backup /\ attempts[p] = 0 => Holds(baks[p], c)

\* A saved file contains its own name, also after renaming it to the backup: what
\* )LOAD makes the name of the workspace is the name that )LOAD was given, and a
\* )SAVE with that name passes the check of save_WS().
FileKnowsItsName ==
  \A p \in Paths : \A f \in {files[p], baks[p]} :
     p.ext = "xml" /\ f.state = "whole"
       => f.wsid = [lib |-> LIB0, name |-> p.name]

\* The session after a )CONTINUE that could write its file begins with the work that
\* the session before ended with, whatever else has been saved and dumped.
ContinueBringsBack ==
  [][Start(TRUE) => \A c \in left : work' = c]_vars
=============================================================================
