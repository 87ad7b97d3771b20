---------------------------- MODULE BackupTheorems ----------------------------
(* One backup at a time keeps what BackupSnapshots promises; any number of  *)
(* them at once put nothing older than their start at the destination.      *)
EXTENDS BackupCommand, TLAPS

\* Where one backup at a time is the rule, there is one at a time.
OneRuns ==
    alone => \A p, q \in Commands : cmd[p].pc # "idle" /\ cmd[q].pc # "idle" => p = q

LEMMA InitPlaced == Init => TypeOK /\ OneRuns /\ Placed
  BY BackupAssumption DEF Init, TypeOK, OneRuns, Placed, InPlace, Command, Idle

LEMMA NextTypeOK == TypeOK /\ [Next]_vars => TypeOK'
  <1> SUFFICES ASSUME TypeOK, [Next]_vars PROVE TypeOK'
    OBVIOUS
  <1> USE DEF TypeOK
  <1>1. Idle \in Command
    BY DEF Idle, Command
  <1>2. CASE Commit
    BY <1>2 DEF Commit
  <1>3. ASSUME NEW p \in Commands, Connect(p) PROVE TypeOK'
    <2>1. PICK i \in Inodes :
              /\ temporary' = i
              /\ files' = IF temporary = None THEN [files EXCEPT ![i] = NoCopy] ELSE files
              /\ cmd' = [cmd EXCEPT ![p] = [Idle EXCEPT !.pc = "connected", !.file = i,
                                                        !.before = db]]
      BY <1>3 DEF Connect
    <2>2. [Idle EXCEPT !.pc = "connected", !.file = i, !.before = db] \in Command
      BY DEF Idle, Command
    <2>3. files' \in [Inodes -> Nat \cup {NoCopy}]
      BY <2>1
    <2>4. i # None
      BY BackupAssumption
    <2> QED
      BY <1>3, <2>1, <2>2, <2>3, <2>4 DEF Connect
  <1>4. ASSUME NEW p \in Commands, Begin(p) PROVE TypeOK'
    <2>1. cmd[p].file \in Inodes /\ cmd[p] \in Command
      BY <1>4 DEF Begin, Command
    <2>2. [cmd[p] EXCEPT !.pc = "copying", !.undo = files[cmd[p].file]] \in Command
      BY <2>1 DEF Command
    <2>3. cmd' = [cmd EXCEPT ![p] = [cmd[p] EXCEPT !.pc = "copying",
                                                  !.undo = files[cmd[p].file]]]
      BY <1>4 DEF Begin
    <2> QED
      BY <1>4, <2>1, <2>2, <2>3 DEF Begin, Command
  <1>5. ASSUME NEW p \in Commands, Finish(p) PROVE TypeOK'
    BY <1>5 DEF Finish, Command
  <1>6. ASSUME NEW p \in Commands, CopyFails(p) PROVE TypeOK'
    BY <1>1, <1>6 DEF CopyFails, Command, Idle
  <1>7. ASSUME NEW p \in Commands, Moved(p) \/ Replace(p) \/ NothingToReplace(p) \/ Crash(p)
        PROVE  TypeOK'
    BY <1>1, <1>7 DEF Moved, Replace, NothingToReplace, Crash, Idle
  <1>8. CASE UNCHANGED vars
    BY <1>8 DEF vars
  <1> QED
    BY <1>2, <1>3, <1>4, <1>5, <1>6, <1>7, <1>8 DEF Next, Step

LEMMA NextOneRuns == TypeOK /\ OneRuns /\ [Next]_vars => OneRuns'
  <1> SUFFICES ASSUME TypeOK, OneRuns, [Next]_vars, alone',
                      NEW p \in Commands, NEW q \in Commands,
                      cmd'[p].pc # "idle", cmd'[q].pc # "idle"
               PROVE  p = q
    BY DEF OneRuns
  <1>1. alone
    BY DEF Next, Step, Commit, Connect, Begin, Moved, Finish, CopyFails, Replace,
       NothingToReplace, Crash, vars
  <1>2. CASE \E r \in Commands : Connect(r)
    <2>1. PICK r \in Commands : Connect(r)
      BY <1>2
    <2>2. \A c \in Commands \ {r} : cmd'[c] = cmd[c] /\ cmd[c].pc = "idle"
      BY <1>1, <2>1 DEF Connect, TypeOK
    <2> QED
      BY <2>2
  <1>3. CASE ~\E r \in Commands : Connect(r)
    <2>1. \A c \in Commands : cmd'[c].pc # "idle" => cmd[c].pc # "idle"
      BY <1>3 DEF TypeOK, Next, Step, Commit, Begin, Moved, Finish, CopyFails, Replace,
         NothingToReplace, Crash, vars, Idle
    <2> QED
      BY <1>1, <2>1 DEF OneRuns
  <1> QED
    BY <1>2, <1>3

LEMMA NextInPlace ==
    ASSUME alone, OneRuns, TypeOK, InPlace, [Next]_vars
    PROVE  InPlace'
  <1> USE DEF TypeOK, InPlace, Published
  <1>1. CASE Commit
    BY <1>1 DEF Commit
  <1>2. ASSUME NEW p \in Commands, Connect(p) PROVE InPlace'
    <2>1. PICK i \in Inodes :
              /\ IF temporary = None THEN i \in Free ELSE i = temporary
              /\ temporary' = i
              /\ files' = IF temporary = None THEN [files EXCEPT ![i] = NoCopy] ELSE files
              /\ cmd' = [cmd EXCEPT ![p] = [Idle EXCEPT !.pc = "connected", !.file = i,
                                                        !.before = db]]
      BY <1>2 DEF Connect
    <2>2. i # None /\ i # destination
      BY <2>1, BackupAssumption DEF Free
    <2>3. cmd'[p].pc = "connected" /\ cmd'[p].file = i
      BY <2>1 DEF Idle
    <2>4. destination # None => files'[destination] = files[destination]
      BY <2>1, <2>2
    <2> QED
      BY <1>2, <2>1, <2>2, <2>3, <2>4 DEF Connect
  <1>3. ASSUME NEW p \in Commands, Begin(p) PROVE InPlace'
    BY <1>3 DEF Begin, OneRuns, Command
  <1>4. ASSUME NEW p \in Commands, Finish(p) PROVE InPlace'
    BY <1>4 DEF Finish, OneRuns, Command
  <1>5. ASSUME NEW p \in Commands, CopyFails(p) PROVE InPlace'
    BY <1>5 DEF CopyFails, OneRuns, Command, Idle
  <1>6. ASSUME NEW p \in Commands, Replace(p) PROVE InPlace'
    BY <1>6 DEF Replace, OneRuns, Command, Idle
  <1>7. ASSUME NEW p \in Commands, Moved(p) \/ NothingToReplace(p) \/ Crash(p)
        PROVE  InPlace'
    <2>1. /\ cmd' = [cmd EXCEPT ![p] = Idle]
          /\ UNCHANGED <<db, temporary, destination, files>>
      BY <1>7 DEF Moved, NothingToReplace, Crash
    <2>2. \A q \in Commands : cmd'[q] = IF q = p THEN Idle ELSE cmd[q]
      BY <2>1
    <2>3. Idle.pc = "idle"
      BY DEF Idle
    <2> HIDE DEF TypeOK
    <2> QED
      BY <2>1, <2>2, <2>3
  <1>8. CASE UNCHANGED vars
    BY <1>8 DEF vars
  <1> QED
    BY <1>1, <1>2, <1>3, <1>4, <1>5, <1>6, <1>7, <1>8 DEF Next, Step

LEMMA NextPlaced == TypeOK /\ OneRuns /\ Placed /\ [Next]_vars => Placed'
  <1>1. [Next]_vars => alone' = alone
    BY DEF Next, Step, Commit, Connect, Begin, Moved, Finish, CopyFails, Replace,
       NothingToReplace, Crash, vars
  <1> QED
    BY <1>1, NextInPlace DEF Placed

\* With one backup at a time, what replaces the destination is whole.
THEOREM OneBackupPlaced == Spec => []Placed
  <1>1. TypeOK /\ OneRuns /\ Placed /\ [Next]_vars => (TypeOK /\ OneRuns /\ Placed)'
    BY NextTypeOK, NextOneRuns, NextPlaced
  <1> QED
    BY <1>1, InitPlaced, PTL DEF Spec

LEMMA InitPublished == Init => Snapshots!Init
  BY DEF Init, Snapshots!Init, Promised, Published

\* With one backup at a time: a commit is a commit, a rename publishes, every
\* other step changes nothing.
LEMMA NextPublishes ==
    ASSUME alone, TypeOK, InPlace, [Next]_vars
    PROVE  \/ UNCHANGED <<db, Published>>
           \/ db' = db + 1 /\ UNCHANGED Published
           \/ /\ Published' \in 0 .. db
              /\ Published # None => Published \in Nat /\ Published <= Published'
              /\ UNCHANGED db
  <1> USE DEF TypeOK, InPlace, Published
  <1>1. CASE Commit
    BY <1>1 DEF Commit
  <1>2. ASSUME NEW p \in Commands, Replace(p)
        PROVE  /\ Published' \in 0 .. db
               /\ Published # None => Published \in Nat /\ Published <= Published'
               /\ UNCHANGED db
    <2>1. Published' = files[temporary] /\ UNCHANGED db
      BY <1>2 DEF Replace
    <2>2. files[temporary] \in 0 .. db
      BY <1>2 DEF Replace
    <2>3. Published # None => Published \in Nat /\ Published <= files[temporary]
      BY <1>2 DEF Replace
    <2> HIDE DEF Published
    <2> QED
      BY <2>1, <2>2, <2>3
  <1>3. ASSUME NEW p \in Commands,
               Begin(p) \/ Finish(p) \/ CopyFails(p)
        PROVE  UNCHANGED <<db, Published>>
    <2>1. cmd[p].file = temporary /\ destination # temporary
      BY <1>3 DEF Begin, Finish, CopyFails
    <2> QED
      BY <1>3, <2>1 DEF Begin, Finish, CopyFails
  <1>4. ASSUME NEW p \in Commands, Connect(p) PROVE UNCHANGED <<db, Published>>
    <2>1. PICK i \in Inodes :
              /\ IF temporary = None THEN i \in Free ELSE i = temporary
              /\ files' = IF temporary = None THEN [files EXCEPT ![i] = NoCopy] ELSE files
      BY <1>4 DEF Connect
    <2>2. destination # None => files'[destination] = files[destination]
      BY <2>1 DEF Free
    <2> QED
      BY <1>4, <2>2 DEF Connect
  <1>5. ASSUME NEW p \in Commands, Moved(p) \/ NothingToReplace(p) \/ Crash(p)
        PROVE  UNCHANGED <<db, Published>>
    BY <1>5 DEF Moved, NothingToReplace, Crash
  <1>6. CASE UNCHANGED vars
    BY <1>6 DEF vars
  <1> HIDE DEF Published
  <1> QED
    BY <1>1, <1>2, <1>3, <1>4, <1>5, <1>6 DEF Next, Step

LEMMA NextImplements ==
    ASSUME TypeOK, Placed, [Next]_vars
    PROVE  [Snapshots!Next]_<<db, Promised>>
  <1>1. alone' = alone
    BY DEF Next, Step, Commit, Connect, Begin, Moved, Finish, CopyFails, Replace,
       NothingToReplace, Crash, vars
  <1>2. CASE alone
    <2>1. Promised = Published /\ Promised' = Published'
      BY <1>1, <1>2 DEF Promised
    <2>2. InPlace
      BY <1>2 DEF Placed
    <2> QED
      BY <1>2, <2>1, <2>2, NextPublishes DEF Snapshots!Next, Snapshots!Commit, Snapshots!Publish
  <1>3. CASE ~alone
    <2>1. Promised' = Promised
      BY <1>1, <1>3 DEF Promised
    <2>2. db' = db \/ db' = db + 1
      BY DEF Next, Step, Commit, Connect, Begin, Moved, Finish, CopyFails, Replace,
         NothingToReplace, Crash, vars
    <2> QED
      BY <2>1, <2>2 DEF Snapshots!Next, Snapshots!Commit
  <1> QED
    BY <1>2, <1>3

\* The command implements BackupSnapshots, for any number of files and
\* versions, through every failure and crash, where one runs at a time.
THEOREM OneBackupImplementsSnapshots == Spec => SnapshotSpec
  <1>1. TypeOK /\ OneRuns /\ Placed /\ [Next]_vars => (TypeOK /\ OneRuns /\ Placed)'
    BY NextTypeOK, NextOneRuns, NextPlaced
  <1>2. TypeOK /\ Placed /\ [Next]_vars => [Snapshots!Next]_<<db, Promised>>
    BY NextImplements
  <1> QED
    BY <1>1, <1>2, InitPlaced, InitPublished, PTL DEF Spec, SnapshotSpec, Snapshots!Spec

------------------------------------------------------------------------------
(* What any number of commands at once put at the destination.              *)

\* Neither a file's content nor what a copy that fails would restore is of an
\* older version.
NoneOlder(i, version) ==
    /\ files[i] # NoCopy => files[i] >= version
    /\ \A q \in Commands :
        cmd[q].pc = "copying" /\ cmd[q].file = i /\ cmd[q].undo # NoCopy
            => cmd[q].undo >= version

\* SQLite's write lock: a file has one copy at a time written to it.
CopiesApart ==
    \A p, q \in Commands :
        /\ cmd[p].pc = "copying" /\ cmd[q].pc = "copying"
        /\ cmd[p].file = cmd[q].file
        => p = q

\* What a command has written, or what is there since another one has renamed
\* its file, is no older than its start.
CopiesFresh ==
    \A p \in Commands : cmd[p].pc # "idle" =>
        /\ cmd[p].before <= db
        /\ temporary # None /\ (cmd[p].pc = "closed" \/ cmd[p].file # temporary)
               => NoneOlder(temporary, cmd[p].before)

LEMMA NextCopiesApart == TypeOK /\ CopiesApart /\ [Next]_vars => CopiesApart'
  <1> SUFFICES ASSUME TypeOK, CopiesApart, [Next]_vars,
                      NEW p \in Commands, NEW q \in Commands,
                      cmd'[p].pc = "copying", cmd'[q].pc = "copying",
                      cmd'[p].file = cmd'[q].file
               PROVE  p = q
    BY DEF CopiesApart
  <1>1. CASE \E r \in Commands : Begin(r)
    <2>1. PICK r \in Commands : Begin(r)
      BY <1>1
    <2>2. \A c \in Commands \ {r} : cmd'[c] = cmd[c]
      BY <2>1 DEF Begin, TypeOK
    <2>3. cmd'[r].file = cmd[r].file /\ ~Copying(cmd[r].file)
      BY <2>1 DEF Begin, TypeOK, Command
    <2> QED
      BY <2>2, <2>3 DEF Copying, CopiesApart
  <1>2. CASE ~\E r \in Commands : Begin(r)
    <2>1. ASSUME NEW c \in Commands, cmd'[c].pc = "copying"
          PROVE  cmd'[c] = cmd[c]
      <3>1. CASE Commit \/ UNCHANGED vars
        BY <3>1 DEF Commit, vars
      <3>2. ASSUME NEW r \in Commands, Connect(r) \/ Finish(r)
            PROVE  cmd'[c] = cmd[c]
        <4>1. CASE Connect(r)
          <5>1. PICK i \in Inodes :
                    cmd' = [cmd EXCEPT ![r] = [Idle EXCEPT !.pc = "connected", !.file = i,
                                                           !.before = db]]
            BY <4>1 DEF Connect
          <5>2. cmd'[r].pc = "connected" /\ \A d \in Commands \ {r} : cmd'[d] = cmd[d]
            BY <5>1 DEF TypeOK, Idle
          <5> QED
            BY <2>1, <5>2
        <4>2. CASE Finish(r)
          <5>1. cmd'[r].pc = "closed" /\ \A d \in Commands \ {r} : cmd'[d] = cmd[d]
            BY <4>2 DEF Finish, TypeOK, Command
          <5> QED
            BY <2>1, <5>1
        <4> QED
          BY <3>2, <4>1, <4>2
      <3>3. ASSUME NEW r \in Commands,
                   Moved(r) \/ CopyFails(r) \/ Replace(r) \/ NothingToReplace(r) \/ Crash(r)
            PROVE  cmd'[c] = cmd[c]
        <4>1. cmd' = [cmd EXCEPT ![r] = Idle]
          BY <3>3 DEF Moved, CopyFails, Replace, NothingToReplace, Crash
        <4>2. cmd'[r].pc # "copying" /\ \A d \in Commands \ {r} : cmd'[d] = cmd[d]
          BY <4>1 DEF TypeOK, Idle
        <4> QED
          BY <2>1, <4>2
      <3> QED
        BY <1>2, <3>1, <3>2, <3>3 DEF Next, Step
    <2> QED
      BY <2>1 DEF CopiesApart
  <1> QED
    BY <1>1, <1>2

\* One command's step, for the start of another one or its own.
LEMMA NextCopiesFresh ==
    ASSUME TypeOK, CopiesApart, CopiesFresh, [Next]_vars
    PROVE  CopiesFresh'
  <1> SUFFICES ASSUME NEW p \in Commands, cmd'[p].pc # "idle"
               PROVE  /\ cmd'[p].before <= db'
                      /\ temporary' # None /\ (cmd'[p].pc = "closed" \/ cmd'[p].file # temporary')
                             => NoneOlder(temporary, cmd[p].before)'
    BY DEF CopiesFresh
  <1>1. /\ cmd[p].before \in Nat /\ db \in Nat
        /\ \A i \in Inodes : files[i] \in Nat \cup {NoCopy}
        /\ \A c \in Commands : /\ cmd[c] \in Command
                               /\ cmd[c].pc # "idle" => cmd[c].file \in Inodes
    BY DEF TypeOK, Command
  <1>2. /\ cmd[p].pc # "idle" => cmd[p].before <= db
        /\ /\ cmd[p].pc # "idle" /\ temporary # None
           /\ cmd[p].pc = "closed" \/ cmd[p].file # temporary
           => NoneOlder(temporary, cmd[p].before)
    BY DEF CopiesFresh
  <1>3. CASE Commit \/ UNCHANGED vars
    <2>1. UNCHANGED <<temporary, files, cmd>> /\ db' \in Nat /\ db <= db'
      BY <1>1, <1>3 DEF Commit, vars
    <2> QED
      BY <1>1, <1>2, <2>1 DEF NoneOlder
  <1>4. ASSUME NEW q \in Commands, Connect(q)
        PROVE  /\ cmd'[p].before <= db'
               /\ temporary' # None /\ (cmd'[p].pc = "closed" \/ cmd'[p].file # temporary')
                      => NoneOlder(temporary, cmd[p].before)'
    <2>1. PICK i \in Inodes :
              /\ IF temporary = None THEN i \in Free ELSE i = temporary
              /\ temporary' = i
              /\ files' = IF temporary = None THEN [files EXCEPT ![i] = NoCopy] ELSE files
              /\ cmd' = [cmd EXCEPT ![q] = [Idle EXCEPT !.pc = "connected", !.file = i,
                                                        !.before = db]]
      BY <1>4 DEF Connect
    <2>2. /\ cmd'[q].pc = "connected" /\ cmd'[q].file = i /\ cmd'[q].before = db
          /\ \A c \in Commands \ {q} : cmd'[c] = cmd[c]
      BY <2>1 DEF Idle, TypeOK
    <2>3. db' = db
      BY <1>4 DEF Connect
    <2>4. CASE p = q
      BY <1>1, <2>1, <2>2, <2>3, <2>4
    <2>5. CASE p # q /\ temporary = None
      <3>1. files'[i] = NoCopy /\ \A c \in Commands \ {q} : cmd'[c].file # i
        BY <2>1, <2>2, <2>5 DEF Free, TypeOK
      <3>2. NoneOlder(temporary, cmd[p].before)'
        BY <2>1, <2>2, <3>1 DEF NoneOlder
      <3> QED
        BY <1>2, <2>2, <2>3, <2>5, <3>2
    <2>6. CASE p # q /\ temporary # None
      <3>1. temporary' = temporary /\ files' = files /\ cmd'[p] = cmd[p]
        BY <2>1, <2>2, <2>6
      <3> QED
        BY <1>2, <2>2, <2>3, <3>1 DEF NoneOlder
    <2> QED
      BY <2>4, <2>5, <2>6
  <1>5. ASSUME NEW q \in Commands, Begin(q)
        PROVE  /\ cmd'[p].before <= db'
               /\ temporary' # None /\ (cmd'[p].pc = "closed" \/ cmd'[p].file # temporary')
                      => NoneOlder(temporary, cmd[p].before)'
    <2>1. /\ cmd[q].pc = "connected" /\ cmd[q].file = temporary /\ temporary \in Inodes
          /\ files' = [files EXCEPT ![temporary] = NoCopy]
          /\ UNCHANGED <<db, temporary>>
      BY <1>1, <1>5 DEF Begin
    <2>2. /\ cmd'[q].pc = "copying" /\ cmd'[q].file = temporary
          /\ cmd'[q].undo = files[temporary] /\ cmd'[q].before = cmd[q].before
          /\ \A c \in Commands \ {q} : cmd'[c] = cmd[c]
      BY <1>1, <1>5, <2>1 DEF Begin, TypeOK, Command
    <2>3. files'[temporary] = NoCopy
      BY <2>1 DEF TypeOK
    <2>4. CASE p = q
      BY <1>2, <2>1, <2>2, <2>4
    <2>5. CASE p # q
      BY <1>2, <2>1, <2>2, <2>3, <2>5 DEF NoneOlder
    <2> QED
      BY <2>4, <2>5
  <1>6. ASSUME NEW q \in Commands, Finish(q)
        PROVE  /\ cmd'[p].before <= db'
               /\ temporary' # None /\ (cmd'[p].pc = "closed" \/ cmd'[p].file # temporary')
                      => NoneOlder(temporary, cmd[p].before)'
    <2>1. /\ cmd[q].pc = "copying" /\ cmd[q].file \in Inodes
          /\ files' = [files EXCEPT ![cmd[q].file] = db]
          /\ UNCHANGED <<db, temporary>>
      BY <1>1, <1>6 DEF Finish
    <2>2. /\ cmd'[q].pc = "closed" /\ cmd'[q].file = cmd[q].file
          /\ cmd'[q].before = cmd[q].before
          /\ \A c \in Commands \ {q} : cmd'[c] = cmd[c]
      BY <1>1, <1>6 DEF Finish, TypeOK, Command
    <2>3. cmd[p].pc # "idle" /\ cmd'[p].before = cmd[p].before /\ cmd'[p].file = cmd[p].file
      BY <2>1, <2>2
    <2>4. CASE cmd[q].file = temporary
      <3>1. files'[temporary] = db
        BY <2>1, <2>4 DEF TypeOK
      <3>2. \A c \in Commands : cmd'[c].pc = "copying" => cmd'[c].file # temporary
        BY <2>1, <2>2, <2>4 DEF CopiesApart
      <3> QED
        BY <1>2, <2>1, <2>3, <3>1, <3>2 DEF NoneOlder
    <2>5. CASE cmd[q].file # temporary
      <3>1. temporary # None => files'[temporary] = files[temporary]
        BY <2>1, <2>5 DEF TypeOK
      <3>2. cmd'[p].pc = "closed" => cmd[p].pc = "closed" \/ cmd[p].file # temporary
        BY <2>2, <2>5
      <3> QED
        BY <1>2, <2>1, <2>2, <2>3, <3>1, <3>2 DEF NoneOlder
    <2> QED
      BY <2>4, <2>5
  <1>7. ASSUME NEW q \in Commands, CopyFails(q)
        PROVE  /\ cmd'[p].before <= db'
               /\ temporary' # None /\ (cmd'[p].pc = "closed" \/ cmd'[p].file # temporary')
                      => NoneOlder(temporary, cmd[p].before)'
    <2>1. /\ cmd[q].pc = "copying" /\ cmd[q].file \in Inodes
          /\ files' = [files EXCEPT ![cmd[q].file] = cmd[q].undo]
          /\ UNCHANGED <<db, temporary>>
      BY <1>1, <1>7 DEF CopyFails
    <2>2. cmd'[q].pc = "idle" /\ \A c \in Commands \ {q} : cmd'[c] = cmd[c]
      BY <1>7 DEF CopyFails, TypeOK, Idle
    <2>3. p # q /\ cmd'[p] = cmd[p]
      BY <2>2
    <2>4. temporary # None =>
              files'[temporary] = IF cmd[q].file = temporary THEN cmd[q].undo ELSE files[temporary]
      BY <2>1 DEF TypeOK
    <2> QED
      BY <1>2, <2>1, <2>2, <2>3, <2>4 DEF NoneOlder
  <1>8. ASSUME NEW q \in Commands, Replace(q)
        PROVE  /\ cmd'[p].before <= db'
               /\ temporary' # None /\ (cmd'[p].pc = "closed" \/ cmd'[p].file # temporary')
                      => NoneOlder(temporary, cmd[p].before)'
    <2>1. temporary' = None /\ db' = db /\ cmd' = [cmd EXCEPT ![q] = Idle]
      BY <1>8 DEF Replace
    <2>2. p # q /\ cmd'[p] = cmd[p]
      BY <2>1 DEF TypeOK, Idle
    <2> QED
      BY <1>2, <2>1, <2>2
  <1>9. ASSUME NEW q \in Commands, Moved(q) \/ NothingToReplace(q) \/ Crash(q)
        PROVE  /\ cmd'[p].before <= db'
               /\ temporary' # None /\ (cmd'[p].pc = "closed" \/ cmd'[p].file # temporary')
                      => NoneOlder(temporary, cmd[p].before)'
    <2>1. UNCHANGED <<db, temporary, files>> /\ cmd' = [cmd EXCEPT ![q] = Idle]
      BY <1>9 DEF Moved, NothingToReplace, Crash
    <2>2. /\ cmd'[q].pc = "idle" /\ \A c \in Commands \ {q} : cmd'[c] = cmd[c]
      BY <2>1 DEF TypeOK, Idle
    <2>3. p # q /\ cmd'[p] = cmd[p]
      BY <2>2
    <2> QED
      BY <1>2, <2>1, <2>2, <2>3 DEF NoneOlder
  <1> QED
    BY <1>3, <1>4, <1>5, <1>6, <1>7, <1>8, <1>9 DEF Next, Step

\* For any number of backups to one destination, crashing and failing at any
\* point: a command never puts an older copy there than it set out to make.
THEOREM BackupsAreFresh == Spec => BackupIsFresh
  <1>1. Init => TypeOK /\ CopiesApart /\ CopiesFresh
    BY InitPlaced DEF Init, Idle, CopiesApart, CopiesFresh
  <1>2. TypeOK /\ CopiesApart /\ CopiesFresh /\ [Next]_vars
            => (TypeOK /\ CopiesApart /\ CopiesFresh)'
    BY NextTypeOK, NextCopiesApart, NextCopiesFresh
  <1>3. TypeOK /\ CopiesFresh /\ [Next]_vars
            => [\A p \in Commands :
                  Replace(p) /\ Published' # NoCopy => Published' >= cmd[p].before]_vars
    <2> SUFFICES ASSUME TypeOK, CopiesFresh, NEW p \in Commands, Replace(p), Published' # NoCopy
                 PROVE  Published' >= cmd[p].before
      OBVIOUS
    <2>1. cmd[p].pc = "closed" /\ temporary # None /\ Published' = files[temporary]
      BY DEF Replace, Published
    <2>2. NoneOlder(temporary, cmd[p].before)
      BY <2>1 DEF CopiesFresh
    <2> QED
      BY <2>1, <2>2 DEF NoneOlder
  <1> QED
    BY <1>1, <1>2, <1>3, PTL DEF Spec, BackupIsFresh
=============================================================================
