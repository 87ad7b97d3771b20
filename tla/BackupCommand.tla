---------------------------- MODULE BackupCommand ----------------------------
(***************************************************************************)
(* `seko-ai backup DEST` (management.backup) beside the application: one   *)
(* process per command, all with the same destination and so the same      *)
(* temporary file.                                                          *)
(*                                                                         *)
(* A file is an inode; an open connection stays with its inode when the    *)
(* path is renamed.  SQLite's backup copies in one go, with the source's   *)
(* shared lock and the target's write lock, waiting for either; it refuses *)
(* to write to a file that is no longer at the path it was opened by.      *)
(* A copy that fails is rolled back; one that is cut off by a crash stays  *)
(* behind half written.                                                     *)
(***************************************************************************)
EXTENDS Naturals

CONSTANTS
    None, NoCopy,
    Commands,       \* processes that may be running the command
    Inodes,
    MaxVersion      \* bounds the commits of the application

ASSUME BackupAssumption ==
    /\ None \notin Inodes
    /\ None \notin Nat
    /\ NoCopy \notin Nat
    /\ NoCopy # None
    /\ MaxVersion \in Nat

VARIABLES
    db,         \* the database's committed version
    temporary,  \* the inode at each of the two paths, None if there is none
    destination,
    files,      \* the version an inode is a copy of, NoCopy if of none
    cmd,        \* what each command is doing
    alone       \* whether the operators run one backup at a time

vars == <<db, temporary, destination, files, cmd, alone>>

\* connected: both connections are open; closed: both are closed again.
Command == [pc     : {"idle", "connected", "copying", "closed"},
            file   : Inodes \cup {None},
            before : Nat,                       \* db when it was started
            undo   : Nat \cup {NoCopy}]         \* the target's journal

Idle == [pc |-> "idle", file |-> None, before |-> 0, undo |-> NoCopy]

TypeOK ==
    /\ db \in Nat
    /\ temporary \in Inodes \cup {None}
    /\ destination \in Inodes \cup {None}
    /\ files \in [Inodes -> Nat \cup {NoCopy}]
    /\ cmd \in [Commands -> Command]
    /\ alone \in BOOLEAN
    /\ \A p \in Commands : cmd[p].pc # "idle" => cmd[p].file # None

Init ==
    /\ db = 0
    /\ temporary = None /\ destination = None
    /\ files = [i \in Inodes |-> NoCopy]
    /\ cmd = [p \in Commands |-> Idle]
    /\ alone \in BOOLEAN

Copying(i) == \E p \in Commands : cmd[p].pc = "copying" /\ cmd[p].file = i

\* The application commits, unless a copy holds the shared lock.
Commit ==
    /\ db < MaxVersion
    /\ \A p \in Commands : cmd[p].pc # "copying"
    /\ db' = db + 1
    /\ UNCHANGED <<temporary, destination, files, cmd, alone>>

\* Inodes no path and no connection refers to can be used for a new file.
Free == {i \in Inodes : /\ i \notin {temporary, destination}
                        /\ \A p \in Commands : cmd[p].file # i}

\* sqlite3.connect opens the temporary file, or makes an empty one.
Connect(p) ==
    /\ cmd[p].pc = "idle"
    /\ alone => \A q \in Commands : cmd[q].pc = "idle"
    /\ \E i \in Inodes :
        /\ IF temporary = None THEN i \in Free ELSE i = temporary
        /\ temporary' = i
        /\ files' = IF temporary = None THEN [files EXCEPT ![i] = NoCopy] ELSE files
        /\ cmd' = [cmd EXCEPT ![p] = [Idle EXCEPT !.pc = "connected", !.file = i,
                                                  !.before = db]]
    /\ UNCHANGED <<db, destination, alone>>

\* Slip: a temporary file left behind by a crash is taken for the copy.
BeginUnlessThere(p) ==
    /\ cmd[p].pc = "connected" /\ temporary = cmd[p].file
    /\ ~Copying(cmd[p].file)
    /\ IF files[cmd[p].file] # NoCopy
       THEN cmd' = [cmd EXCEPT ![p].pc = "closed"] /\ UNCHANGED files
       ELSE /\ cmd' = [cmd EXCEPT ![p].pc = "copying", ![p].undo = files[cmd[p].file]]
            /\ files' = [files EXCEPT ![cmd[p].file] = NoCopy]
    /\ UNCHANGED <<db, temporary, destination, alone>>

\* source.backup(target) has both locks and starts writing.
Begin(p) ==
    /\ cmd[p].pc = "connected" /\ temporary = cmd[p].file
    /\ ~Copying(cmd[p].file)
    /\ cmd' = [cmd EXCEPT ![p].pc = "copying", ![p].undo = files[cmd[p].file]]
    /\ files' = [files EXCEPT ![cmd[p].file] = NoCopy]
    /\ UNCHANGED <<db, temporary, destination, alone>>

\* Another command has renamed the file meanwhile: an error.
Moved(p) ==
    /\ cmd[p].pc = "connected" /\ temporary # cmd[p].file
    /\ cmd' = [cmd EXCEPT ![p] = Idle]
    /\ UNCHANGED <<db, temporary, destination, files, alone>>

\* The copy is committed and the connections are closed.
Finish(p) ==
    /\ cmd[p].pc = "copying"
    /\ files' = [files EXCEPT ![cmd[p].file] = db]
    /\ cmd' = [cmd EXCEPT ![p].pc = "closed"]
    /\ UNCHANGED <<db, temporary, destination, alone>>

\* Slip: the command goes on after the error.
CopyFailsQuietly(p) ==
    /\ cmd[p].pc = "copying"
    /\ files' = [files EXCEPT ![cmd[p].file] = cmd[p].undo]
    /\ cmd' = [cmd EXCEPT ![p].pc = "closed"]
    /\ UNCHANGED <<db, temporary, destination, alone>>

\* The disk is full, say: rolled back, and the error ends the command.
CopyFails(p) ==
    /\ cmd[p].pc = "copying"
    /\ files' = [files EXCEPT ![cmd[p].file] = cmd[p].undo]
    /\ cmd' = [cmd EXCEPT ![p] = Idle]
    /\ UNCHANGED <<db, temporary, destination, alone>>

\* temporary.replace(destination) moves whatever file is there.
Replace(p) ==
    /\ cmd[p].pc = "closed" /\ temporary # None
    /\ cmd' = [cmd EXCEPT ![p] = Idle]
    /\ destination' = temporary
    /\ temporary' = None
    /\ UNCHANGED <<db, files, alone>>

\* FileNotFoundError: another command has moved it.
NothingToReplace(p) ==
    /\ cmd[p].pc = "closed" /\ temporary = None
    /\ cmd' = [cmd EXCEPT ![p] = Idle]
    /\ UNCHANGED <<db, temporary, destination, files, alone>>

\* The process dies.
Crash(p) ==
    /\ cmd[p].pc # "idle"
    /\ cmd' = [cmd EXCEPT ![p] = Idle]
    /\ UNCHANGED <<db, temporary, destination, files, alone>>

Step(p) == \/ Connect(p) \/ Begin(p) \/ Moved(p) \/ Finish(p)
           \/ CopyFails(p) \/ Replace(p) \/ NothingToReplace(p) \/ Crash(p)

Next == Commit \/ \E p \in Commands : Step(p)

Spec == Init /\ [][Next]_vars

------------------------------------------------------------------------------
(* Properties.                                                              *)

Published == IF destination = None THEN None ELSE files[destination]

\* Nothing is promised of a destination that two commands write at once.
Promised == IF alone THEN Published ELSE None

Snapshots == INSTANCE BackupSnapshots WITH db <- db, published <- Promised

\* With one backup at a time the command implements the promise: through
\* failures, crashes and commits of the application, the destination is a whole
\* copy and never goes back.
SnapshotSpec == Snapshots!Spec

\* With one backup at a time: the file that is about to replace the
\* destination is the command's own, another file, and a whole copy no older
\* than the one it replaces, which is whole itself.
InPlace ==
    /\ destination # None => destination # temporary /\ Published \in 0 .. db
    /\ \A p \in Commands :
        /\ cmd[p].pc # "idle" => temporary # None /\ cmd[p].file = temporary
        /\ cmd[p].pc = "closed" =>
               /\ files[temporary] \in 0 .. db
               /\ destination # None => Published <= files[temporary]

Placed == alone => InPlace

\* A copy that a command puts at the destination is at least as new as the
\* database was when that command started, whatever another one or an earlier
\* one left behind.
BackupIsFresh ==
    [][\A p \in Commands :
        Replace(p) /\ Published' # NoCopy => Published' >= cmd[p].before]_vars

\* management.py:122: renamed into place, so a reader never sees a partial
\* file.
NeverPartial == Published # NoCopy
=============================================================================
