--------------------------- MODULE SignInTheorems ---------------------------
(* Sign-ins of any number of subjects in any number of browsers: the types, *)
(* that no account is lost or made twice, that sessions have an account,    *)
(* and that the admin flag is always what an overlapping sign-in was told.  *)
EXTENDS SignIn, FiniteSetTheorems, TLAPS

\* A callback that has something to write holds the write lock from its
\* flush to its commit.
WritersHoldLock ==
    \A b \in Browsers :
        callback[b].pc \in {"respond", "commit"} /\ callback[b].write # "nothing" => lock = b

\* A callback under way has a subject.
SubjectsKnown == \A b \in Browsers : callback[b].pc # "idle" => callback[b].subject \in Subjects

\* A flushed new row is still new, and so is its id.
NewRowsNew ==
    \A b \in Browsers :
        callback[b].pc \in {"respond", "commit"} /\ callback[b].write = "insert" =>
            /\ users[callback[b].subject] = None
            /\ callback[b].id # 0 /\ callback[b].id \notin Ids

\* A row that is not new exists.
OldRowsExist ==
    \A b \in Browsers :
        callback[b].pc \in {"flush", "respond", "commit"} /\ callback[b].write # "insert" =>
            users[callback[b].subject] # None

\* No two subjects share an id.
IdsApart ==
    \A s, t \in Subjects :
        s # t /\ users[s] # None /\ users[t] # None => users[s].id # users[t].id

IInv == TypeOK /\ WritersHoldLock /\ SubjectsKnown /\ NewRowsNew /\ OldRowsExist /\ IdsApart

LEMMA WriteWrites ==
    ASSUME NEW s, NEW admin, NEW details \in BOOLEAN
    PROVE  Write(s, admin, details) \in Writes
  BY DEF Write, Writes

LEMMA NextIdsAreNew ==
    ASSUME NEW n \in NextIds
    PROVE  n \in Nat \ {0} /\ n \notin Ids
  <1>1. Cardinality(Subjects) \in Nat
    BY SignInAssumption, FS_CardinalityType
  <1>2. n \in 1 .. Cardinality(Subjects) + 1 /\ \A i \in Ids : i < n
    BY DEF NextIds
  <1>3. n \in Nat \ {0}
    BY <1>1, <1>2
  <1> QED
    BY <1>2, <1>3

LEMMA InitEstablishes == Init => IInv
  BY SignInAssumption DEF Init, IInv, TypeOK, WritersHoldLock, SubjectsKnown, NewRowsNew,
     OldRowsExist, IdsApart, NoCallback, Callback, Pcs, Groups, Writes

\* Steps that move one callback to where it has read no row, and change
\* neither accounts nor the lock.
LEMMA Retreat ==
    ASSUME IInv, NEW b \in Browsers, NEW new \in Callback, Move(b, new),
           UNCHANGED <<groups, users, lock, failing>>, cookies' \in [Browsers -> Cookie \cup {None}],
           new.pc \in {"idle", "token", "info"},
           new.pc # "idle" => new.subject \in Subjects
    PROVE  IInv'
  <1> USE DEF IInv, Move
  <1>1. TypeOK'
    BY DEF TypeOK
  <1>2. \A c \in Browsers : callback'[c] = IF c = b THEN new ELSE callback[c]
    BY DEF TypeOK
  <1>3. WritersHoldLock'
    BY <1>2 DEF WritersHoldLock
  <1>4. SubjectsKnown'
    BY <1>2 DEF SubjectsKnown
  <1>5. NewRowsNew'
    BY <1>2 DEF NewRowsNew, Ids
  <1>6. OldRowsExist'
    BY <1>2 DEF OldRowsExist
  <1>7. IdsApart'
    BY DEF IdsApart
  <1> QED
    BY <1>1, <1>3, <1>4, <1>5, <1>6, <1>7

\* NoCallback is a callback, and fits anywhere.
LEMMA NoCallbackTyped == NoCallback \in Callback /\ NoCallback.pc = "idle"
  BY DEF NoCallback, Callback, Pcs, Groups, Writes

LEMMA GivingUp ==
    ASSUME IInv, NEW b \in Browsers, Move(b, NoCallback), UNCHANGED <<groups, users, cookies, lock, failing>>
    PROVE  IInv'
  BY Retreat, NoCallbackTyped DEF IInv, TypeOK

LEMMA LoginKeeps == ASSUME IInv, NEW b \in Browsers, Login(b) PROVE IInv'
  <1>1. PICK s \in Subjects : Move(b, [NoCallback EXCEPT !.pc = "token", !.subject = s])
    BY DEF Login
  <1>2. [NoCallback EXCEPT !.pc = "token", !.subject = s] \in Callback
    BY DEF NoCallback, Callback, Pcs, Groups, Writes
  <1> QED
    BY <1>1, <1>2, Retreat DEF Login, IInv, TypeOK, NoCallback

LEMMA TokenKeeps == ASSUME IInv, NEW b \in Browsers, Token(b) PROVE IInv'
  <1> DEFINE claimed == IF TokenHasGroups THEN groups[callback[b].subject] ELSE "none"
             new == [callback[b] EXCEPT !.pc = "info", !.claimed = claimed]
  <1>1. callback[b] \in Callback /\ callback[b].subject \in Subjects
    BY DEF Token, IInv, TypeOK, SubjectsKnown
  <1>2. claimed \in Groups
    BY <1>1, SignInAssumption DEF IInv, TypeOK, Groups
  <1>3. new \in Callback /\ new.pc = "info" /\ new.subject = callback[b].subject
    BY <1>1, <1>2 DEF Callback, Pcs
  <1> QED
    BY <1>1, <1>3, Retreat DEF Token, IInv, TypeOK

LEMMA RespondKeeps == ASSUME IInv, NEW b \in Browsers, Respond(b) PROVE IInv'
  <1> DEFINE new == [callback[b] EXCEPT !.pc = "commit"]
  <1>1. callback[b] \in Callback /\ callback[b].subject \in Subjects
    BY DEF Respond, IInv, TypeOK, SubjectsKnown
  <1>2. /\ new \in Callback /\ new.pc = "commit"
        /\ new.subject = callback[b].subject /\ new.write = callback[b].write
        /\ new.id = callback[b].id
    BY <1>1 DEF Callback, Pcs
  <1>3. \A c \in Browsers : callback'[c] = IF c = b THEN new ELSE callback[c]
    BY DEF Respond, Move, IInv, TypeOK
  <1>4. TypeOK'
    BY <1>1, <1>2 DEF Respond, Move, IInv, TypeOK, Callback, Cookie
  <1>a. callback[b].pc = "respond" /\ users' = users /\ lock' = lock /\ Ids' = Ids
    BY DEF Respond, Ids
  <1> HIDE DEF new
  <1>5. WritersHoldLock'
    BY <1>2, <1>3, <1>a DEF IInv, WritersHoldLock
  <1>6. SubjectsKnown'
    BY <1>1, <1>2, <1>3 DEF IInv, SubjectsKnown
  <1>7. NewRowsNew'
    BY <1>2, <1>3, <1>a DEF IInv, NewRowsNew
  <1>8. OldRowsExist'
    BY <1>2, <1>3, <1>a DEF IInv, OldRowsExist
  <1>9. IdsApart'
    BY DEF Respond, IInv, IdsApart
  <1> QED
    BY <1>4, <1>5, <1>6, <1>7, <1>8, <1>9 DEF IInv

LEMMA FlushKeeps == ASSUME IInv, NEW b \in Browsers, Flush(b) PROVE IInv'
  <1>1. callback[b] \in Callback /\ callback[b].subject \in Subjects /\ lock = None
    BY DEF Flush, IInv, TypeOK, SubjectsKnown
  <1>2. PICK n \in NextIds :
          Move(b, [callback[b] EXCEPT !.pc = "respond",
                       !.id = IF callback[b].write = "insert" THEN n ELSE 0])
    BY DEF Flush
  <1> DEFINE new == [callback[b] EXCEPT !.pc = "respond",
                         !.id = IF callback[b].write = "insert" THEN n ELSE 0]
  <1>3. n \in Nat \ {0} /\ n \notin Ids
    BY NextIdsAreNew
  <1>4. /\ new \in Callback /\ new.pc = "respond"
        /\ new.subject = callback[b].subject /\ new.write = callback[b].write
        /\ new.write = "insert" => new.id = n
    BY <1>1, <1>3 DEF Callback, Pcs
  <1>5. \A c \in Browsers : callback'[c] = IF c = b THEN new ELSE callback[c]
    BY <1>2 DEF Move, IInv, TypeOK
  <1>6. \A c \in Browsers : callback[c].pc \in {"respond", "commit"} => callback[c].write = "nothing"
    BY <1>1, SignInAssumption DEF IInv, WritersHoldLock
  <1>7. TypeOK'
    BY <1>2, <1>4 DEF Flush, Move, IInv, TypeOK
  <1>a. /\ callback[b].pc = "flush" /\ users' = users /\ Ids' = Ids
        /\ callback[b].write = "insert" => users[callback[b].subject] = None
    BY DEF Flush, Ids
  <1> HIDE DEF new
  <1>8. WritersHoldLock'
    BY <1>5, <1>6 DEF Flush, WritersHoldLock
  <1>9. SubjectsKnown'
    BY <1>1, <1>4, <1>5 DEF IInv, SubjectsKnown
  <1>10. NewRowsNew'
    BY <1>3, <1>4, <1>5, <1>6, <1>a DEF NewRowsNew
  <1>11. OldRowsExist'
    BY <1>4, <1>5, <1>a DEF IInv, OldRowsExist
  <1>12. IdsApart'
    BY DEF Flush, IInv, IdsApart
  <1> QED
    BY <1>7, <1>8, <1>9, <1>10, <1>11, <1>12 DEF IInv

LEMMA CommitFailsKeeps == ASSUME IInv, NEW b \in Browsers, CommitFails(b) PROVE IInv'
  <1>1. \A c \in Browsers : callback'[c] = IF c = b THEN NoCallback ELSE callback[c]
    BY DEF CommitFails, Move, IInv, TypeOK
  <1>2. \A c \in Browsers \ {b} :
           callback[c].pc \in {"respond", "commit"} => callback[c].write = "nothing"
    BY DEF CommitFails, IInv, WritersHoldLock
  <1>3. TypeOK'
    BY NoCallbackTyped DEF CommitFails, Move, IInv, TypeOK
  <1>4. WritersHoldLock' /\ NewRowsNew'
    BY <1>1, <1>2, NoCallbackTyped DEF CommitFails, WritersHoldLock, NewRowsNew
  <1>5. SubjectsKnown'
    BY <1>1, NoCallbackTyped DEF IInv, SubjectsKnown
  <1>6. OldRowsExist' /\ IdsApart'
    BY <1>1, NoCallbackTyped DEF CommitFails, IInv, OldRowsExist, IdsApart
  <1> QED
    BY <1>3, <1>4, <1>5, <1>6 DEF IInv

LEMMA CrashKeeps == ASSUME IInv, Crash PROVE IInv'
  <1>1. \A c \in Browsers : callback'[c] = NoCallback
    BY DEF Crash
  <1>2. TypeOK'
    BY NoCallbackTyped DEF Crash, IInv, TypeOK
  <1>3. WritersHoldLock' /\ SubjectsKnown' /\ NewRowsNew' /\ OldRowsExist'
    BY <1>1, NoCallbackTyped DEF WritersHoldLock, SubjectsKnown, NewRowsNew, OldRowsExist
  <1>4. IdsApart'
    BY DEF Crash, IInv, IdsApart
  <1> QED
    BY <1>2, <1>3, <1>4 DEF IInv

LEMMA AnswerKeeps == ASSUME IInv, NEW b \in Browsers, Answer(b) PROVE IInv'
  <1> DEFINE s == callback[b].subject
             told == {callback[d].admin : d \in Beside(b, s)}
  <1>1. callback[b] \in Callback /\ s \in Subjects
    BY DEF Answer, IInv, TypeOK, SubjectsKnown
  <1>2. PICK claims \in Told(b), details \in BOOLEAN :
          LET admin == IsAdmin(claims)
              write == Write(s, admin, details)
          IN callback' = [c \in Browsers |->
                 IF c = b
                 THEN [callback[b] EXCEPT !.pc = IF write = "nothing" THEN "respond" ELSE "flush",
                           !.claimed = "none", !.admin = admin, !.write = write,
                           !.beside = told]
                 ELSE [callback[c] EXCEPT
                           !.beside = IF c \in Beside(b, s) THEN @ \cup {admin} ELSE @]]
    BY DEF Answer
  <1> DEFINE admin == IsAdmin(claims)
             write == Write(s, admin, details)
             new == [callback[b] EXCEPT !.pc = IF write = "nothing" THEN "respond" ELSE "flush",
                         !.claimed = "none", !.admin = admin, !.write = write,
                         !.beside = told]
             other(c) == [callback[c] EXCEPT
                              !.beside = IF c \in Beside(b, s) THEN @ \cup {admin} ELSE @]
  <1>3. \A c \in Browsers : callback'[c] = IF c = b THEN new ELSE other(c)
    BY <1>2
  <1>4. write \in Writes /\ (write # "insert" => users[s] # None)
    BY WriteWrites DEF Write
  <1>5. /\ new \in Callback /\ new.subject = s /\ new.write = write
        /\ new.pc = IF write = "nothing" THEN "respond" ELSE "flush"
    <2>1. admin \in BOOLEAN
      BY DEF IsAdmin
    <2>2. told \in SUBSET BOOLEAN
      BY DEF Beside, IInv, TypeOK, Callback
    <2> HIDE DEF write, admin, told, s
    <2> QED
      BY <1>1, <1>4, <2>1, <2>2 DEF Callback, Pcs, Groups, s
  <1>6. ASSUME NEW c \in Browsers
        PROVE  /\ other(c) \in Callback /\ other(c).pc = callback[c].pc
               /\ other(c).subject = callback[c].subject
               /\ other(c).write = callback[c].write /\ other(c).id = callback[c].id
    <2>1. callback[c] \in Callback
      BY DEF IInv, TypeOK
    <2>2. callback[c].beside \in SUBSET BOOLEAN /\ admin \in BOOLEAN
      BY <2>1 DEF Callback, IsAdmin
    <2> HIDE DEF write, admin, told, s
    <2> QED
      BY <2>1, <2>2 DEF Callback
  <1>7. /\ Ids' = Ids /\ users' = users /\ lock' = lock /\ groups' = groups /\ cookies' = cookies
        /\ failing' = failing
    <2>1. UNCHANGED <<groups, users, cookies, lock, failing>>
      BY DEF Answer
    <2> QED
      BY <2>1 DEF Ids
  <1> HIDE DEF new, other, write, admin, told, s
  <1>8. TypeOK'
    <2>1. callback' \in [Browsers -> Callback]
      BY <1>2, <1>5, <1>6 DEF new, other, write, admin, told, s
    <2> QED
      BY <1>7, <2>1 DEF IInv, TypeOK
  <1>9. WritersHoldLock'
    BY <1>3, <1>5, <1>6, <1>7 DEF IInv, WritersHoldLock
  <1>10. SubjectsKnown'
    BY <1>1, <1>3, <1>5, <1>6 DEF IInv, SubjectsKnown
  <1>11. NewRowsNew'
    BY <1>3, <1>5, <1>6, <1>7 DEF IInv, NewRowsNew
  <1>12. OldRowsExist'
    BY <1>3, <1>4, <1>5, <1>6, <1>7 DEF IInv, OldRowsExist
  <1>13. IdsApart'
    BY <1>7 DEF IInv, IdsApart
  <1> QED
    BY <1>8, <1>9, <1>10, <1>11, <1>12, <1>13 DEF IInv

\* What a commit makes of the accounts: a new one, a flag or nothing.
LEMMA CommitChanges ==
    ASSUME IInv, NEW b \in Browsers, Commit(b)
    PROVE  /\ \/ users' = users
              \/ /\ callback[b].write \in {"insert", "admin"}
                 /\ \A s \in Subjects \ {callback[b].subject} : users'[s] = users[s]
                 /\ users'[callback[b].subject] \in User
                 /\ \/ /\ users[callback[b].subject] = None
                       /\ users'[callback[b].subject].id \notin Ids
                    \/ /\ users[callback[b].subject] # None
                       /\ users'[callback[b].subject].id = users[callback[b].subject].id
           /\ users' \in [Subjects -> User \cup {None}]
  <1> DEFINE c == callback[b]
  <1>1. /\ c \in Callback /\ c.subject \in Subjects /\ c.pc = "commit"
        /\ users \in [Subjects -> User \cup {None}]
    BY DEF Commit, IInv, TypeOK, SubjectsKnown
  <1>2. CASE c.write = "insert" /\ users' = [users EXCEPT ![c.subject] = [id |-> c.id, admin |-> c.admin]]
    <2>1. users[c.subject] = None /\ c.id # 0 /\ c.id \notin Ids
      BY <1>1, <1>2 DEF IInv, NewRowsNew
    <2>2. [id |-> c.id, admin |-> c.admin] \in User
      BY <1>1, <2>1 DEF User, Callback
    <2> QED
      BY <1>1, <1>2, <2>1, <2>2
  <1>3. CASE c.write = "admin" /\ users' = [users EXCEPT ![c.subject].admin = c.admin]
    <2>1. users[c.subject] # None /\ users[c.subject] \in User
      BY <1>1, <1>3 DEF IInv, OldRowsExist
    <2>2. users' = [users EXCEPT ![c.subject] = [users[c.subject] EXCEPT !.admin = c.admin]]
      BY <1>3
    <2>3. /\ [users[c.subject] EXCEPT !.admin = c.admin] \in User
          /\ [users[c.subject] EXCEPT !.admin = c.admin].id = users[c.subject].id
      BY <1>1, <2>1 DEF User, Callback
    <2> QED
      BY <1>1, <1>3, <2>1, <2>2, <2>3
  <1>4. CASE users' = users
    BY <1>1, <1>4
  <1> QED
    BY <1>2, <1>3, <1>4 DEF Commit

LEMMA CommitKeepsAccounts ==
    ASSUME IInv, NEW b \in Browsers, Commit(b),
           NEW s \in Subjects, users[s] # None
    PROVE  /\ users'[s] # None /\ users'[s].id = users[s].id
           /\ \A t \in Subjects \ {s} : users'[t] # None => users'[t].id # users[s].id
  <1>1. users[s].id \in Ids
    BY DEF Ids
  <1>2. None \notin User
    BY SignInAssumption DEF User
  <1>3. \A t \in Subjects \ {s} : users[t] # None => users[t].id # users[s].id
    BY DEF IInv, IdsApart
  <1>4. callback[b].subject \in Subjects
    BY DEF Commit, IInv, SubjectsKnown
  <1> QED
    BY <1>1, <1>2, <1>3, <1>4, CommitChanges

LEMMA CommitKeeps == ASSUME IInv, NEW b \in Browsers, Commit(b) PROVE IInv'
  <1>1. \A c \in Browsers : callback'[c] = IF c = b THEN NoCallback ELSE callback[c]
    BY DEF Commit, Move, IInv, TypeOK
  <1>2. callback[b].pc = "commit" /\ callback[b].subject \in Subjects
    BY DEF Commit, IInv, SubjectsKnown
  <1>3. callback[b].write # "nothing" =>
          \A c \in Browsers \ {b} :
              callback[c].pc \in {"respond", "commit"} => callback[c].write = "nothing"
    BY <1>2 DEF IInv, WritersHoldLock
  <1>4. TypeOK'
    <2>1. callback' \in [Browsers -> Callback]
      BY NoCallbackTyped DEF Commit, Move, IInv, TypeOK
    <2>2. lock' \in Browsers \cup {None}
      BY DEF Commit, IInv, TypeOK
    <2> QED
      BY <2>1, <2>2, CommitChanges DEF Commit, IInv, TypeOK
  <1>5. WritersHoldLock'
    <2> SUFFICES ASSUME NEW c \in Browsers, callback'[c].pc \in {"respond", "commit"},
                        callback'[c].write # "nothing"
                 PROVE  lock' = c
      BY DEF WritersHoldLock
    <2>1. c # b /\ callback'[c] = callback[c] /\ lock = c
      BY <1>1, NoCallbackTyped DEF IInv, WritersHoldLock
    <2> QED
      BY <2>1 DEF Commit
  <1>6. SubjectsKnown'
    BY <1>1, NoCallbackTyped DEF IInv, SubjectsKnown
  <1>7. NewRowsNew'
    <2> SUFFICES ASSUME NEW c \in Browsers, callback'[c].pc \in {"respond", "commit"},
                        callback'[c].write = "insert"
                 PROVE  /\ users'[callback'[c].subject] = None
                        /\ callback'[c].id # 0 /\ callback'[c].id \notin Ids'
      BY DEF NewRowsNew
    <2>1. c # b /\ callback'[c] = callback[c]
      BY <1>1, NoCallbackTyped
    <2>2. callback[b].write = "nothing"
      BY <1>3, <2>1
    <2>3. users' = users
      BY <2>2, CommitChanges
    <2> QED
      BY <2>1, <2>3 DEF IInv, NewRowsNew, Ids
  <1>8. OldRowsExist'
    <2> SUFFICES ASSUME NEW c \in Browsers, callback'[c].pc \in {"flush", "respond", "commit"},
                        callback'[c].write # "insert"
                 PROVE  users'[callback'[c].subject] # None
      BY DEF OldRowsExist
    <2>1. c # b /\ callback'[c] = callback[c] /\ callback[c].subject \in Subjects
      BY <1>1, NoCallbackTyped DEF IInv, SubjectsKnown
    <2>2. users[callback[c].subject] # None
      BY <2>1 DEF IInv, OldRowsExist
    <2> QED
      BY <2>1, <2>2, CommitKeepsAccounts
  <1>9. IdsApart'
    <2> SUFFICES ASSUME NEW s \in Subjects, NEW t \in Subjects, s # t,
                        users'[s] # None, users'[t] # None
                 PROVE  users'[s].id # users'[t].id
      BY DEF IdsApart
    <2>1. CASE users[s] # None
      BY <2>1, CommitKeepsAccounts
    <2>2. CASE users[t] # None
      BY <2>2, CommitKeepsAccounts
    <2>3. CASE users[s] = None /\ users[t] = None
      BY <1>2, <2>3, CommitChanges
    <2> QED
      BY <2>1, <2>2, <2>3
  <1> QED
    BY <1>4, <1>5, <1>6, <1>7, <1>8, <1>9 DEF IInv

LEMMA NextKeeps == ASSUME IInv, [Next]_vars PROVE IInv'
  <1>1. ASSUME NEW b \in Browsers, Login(b) PROVE IInv'
    BY <1>1, LoginKeeps
  <1>2. ASSUME NEW b \in Browsers, Step(b) PROVE IInv'
    <2>1. CASE Token(b)
      BY <2>1, TokenKeeps
    <2>2. CASE TokenFails(b) \/ Denied(b) \/ Duplicate(b) \/ Busy(b)
      BY <2>2, GivingUp DEF TokenFails, Denied, Duplicate, Busy
    <2>3. CASE Answer(b)
      BY <2>3, AnswerKeeps
    <2>4. CASE Flush(b)
      BY <2>4, FlushKeeps
    <2>5. CASE Respond(b)
      BY <2>5, RespondKeeps
    <2>6. CASE Commit(b)
      BY <2>6, CommitKeeps
    <2>7. CASE CommitFails(b)
      BY <2>7, CommitFailsKeeps
    <2> QED
      BY <1>2, <2>1, <2>2, <2>3, <2>4, <2>5, <2>6, <2>7 DEF Step
  <1>3. ASSUME NEW b \in Browsers, Logout(b) PROVE IInv'
    BY <1>3 DEF Logout, IInv, TypeOK, WritersHoldLock, SubjectsKnown, NewRowsNew, OldRowsExist,
       IdsApart, Ids
  <1>4. CASE Regroup
    BY <1>4 DEF Regroup, IInv, TypeOK, WritersHoldLock, SubjectsKnown, NewRowsNew, OldRowsExist,
       IdsApart, Ids
  <1>5. CASE Crash
    BY <1>5, CrashKeeps
  <1>6. CASE UNCHANGED vars
    BY <1>6 DEF vars, IInv, TypeOK, WritersHoldLock, SubjectsKnown, NewRowsNew, OldRowsExist,
       IdsApart, Ids
  <1> QED
    BY <1>1, <1>2, <1>3, <1>4, <1>5, <1>6 DEF Next

\* The inductive invariant: types, and that the one sign-in with something
\* flushed holds the lock and has read the row as it is.
THEOREM SignInInvariance == Spec => []IInv
  BY InitEstablishes, NextKeeps, PTL DEF Spec

\* Every reachable state of the sign-ins is well typed (upsert_user, callback).
THEOREM TypeCorrect == Spec => []TypeOK
  <1>1. IInv => TypeOK
    BY DEF IInv
  <1> QED
    BY <1>1, SignInInvariance, PTL

\* No sign-in, whatever it races and whatever fails, loses an account, gives it
\* another id or gives its id away (upsert_user).
THEOREM AccountsAreKept == Spec => AccountsKept
  <1> DEFINE Kept == \A s \in Subjects :
                 users[s] # None =>
                     /\ users'[s] # None /\ users'[s].id = users[s].id
                     /\ \A t \in Subjects \ {s} : users'[t] # None => users'[t].id # users[s].id
  <1>1. ASSUME IInv, [Next]_vars PROVE Kept
    <2>1. CASE users' = users
      BY <1>1, <2>1 DEF IInv, IdsApart
    <2>2. ASSUME NEW b \in Browsers, Commit(b) PROVE Kept
      BY <1>1, <2>2, CommitKeepsAccounts
    <2>3. users' = users \/ \E b \in Browsers : Commit(b)
      BY <1>1 DEF Next, Login, Step, Token, TokenFails, Answer, Denied, Flush, Duplicate, Busy,
         Respond, CommitFails, Logout, Regroup, Crash, vars
    <2> QED
      BY <2>1, <2>2, <2>3
  <1> QED
    BY <1>1, SignInInvariance, PTL DEF Spec, AccountsKept

\* A sign-in c that is to make the account of subject s.
Makes(c, s) == callback[c].pc = "commit" /\ callback[c].write = "insert" /\ callback[c].subject = s

\* Nothing but its commit, or a failure, ends a sign-in that has responded.
LEMMA CommitsStayDue ==
    ASSUME IInv, ~failing, [Next]_vars, NEW c \in Browsers, NEW s, Makes(c, s), ~Commit(c)
    PROVE  Makes(c, s)'
  <1> USE DEF Makes
  <1>1. ASSUME NEW b \in Browsers, b # c, NEW new, Move(b, new) PROVE Makes(c, s)'
    BY <1>1 DEF Move, IInv, TypeOK
  <1>2. ASSUME NEW b \in Browsers, Answer(b) PROVE Makes(c, s)'
    <2>1. b # c
      BY <1>2 DEF Answer
    <2>2. PICK d : callback'[c] = [callback[c] EXCEPT !.beside = d]
      BY <1>2, <2>1 DEF Answer
    <2> QED
      BY <2>2 DEF IInv, TypeOK, Callback
  <1>3. ASSUME NEW b \in Browsers, Login(b) \/ Step(b) \/ Logout(b) PROVE Makes(c, s)'
    <2>1. CASE Login(b)
      BY <1>1, <2>1 DEF Login
    <2>2. CASE Token(b) \/ Respond(b)
      BY <1>1, <2>2 DEF Token, Respond
    <2>3. CASE TokenFails(b) \/ Denied(b) \/ Duplicate(b) \/ Busy(b)
      BY <1>1, <2>3 DEF TokenFails, Denied, Duplicate, Busy
    <2>4. CASE Flush(b)
      BY <1>1, <2>4 DEF Flush
    <2>5. CASE Commit(b) \/ CommitFails(b)
      BY <1>1, <2>5 DEF Commit, CommitFails
    <2>6. CASE Logout(b)
      BY <2>6 DEF Logout
    <2> QED
      BY <1>2, <1>3, <2>1, <2>2, <2>3, <2>4, <2>5, <2>6 DEF Step
  <1> QED
    BY <1>3 DEF Next, Regroup, Crash, vars

LEMMA SessionsStayBacked ==
    ASSUME IInv, ~failing, SessionsHaveAccounts, [Next]_vars
    PROVE  SessionsHaveAccounts'
  <1>0. \A b \in Browsers : cookies'[b] # None => cookies'[b].subject \in Subjects
    BY NextKeeps DEF IInv, TypeOK, Cookie
  <1> SUFFICES ASSUME NEW b \in Browsers, NEW s \in Subjects,
                      cookies'[b] # None, cookies'[b].subject = s, users'[s] = None
               PROVE  \E c \in Browsers : Makes(c, s)'
    BY <1>0 DEF SessionsHaveAccounts, Makes
  <1>1. CASE Respond(b)
    <2>1. s = callback[b].subject /\ users' = users
      <3>1. cookies' = [cookies EXCEPT ![b] = [subject |-> callback[b].subject,
                                              admin |-> callback[b].admin]]
        BY <1>1 DEF Respond
      <3>2. cookies'[b] = [subject |-> callback[b].subject, admin |-> callback[b].admin]
        BY <3>1 DEF IInv, TypeOK
      <3> QED
        BY <1>1, <3>2 DEF Respond
    <2>2. callback[b].pc = "respond" /\ callback[b].write = "insert"
      BY <1>1, <2>1 DEF Respond, IInv, OldRowsExist
    <2>3. callback'[b] = [callback[b] EXCEPT !.pc = "commit"] /\ callback[b] \in Callback
      BY <1>1 DEF Respond, Move, IInv, TypeOK
    <2> QED
      BY <2>1, <2>2, <2>3 DEF Makes, Callback
  <1>2. CASE ~Respond(b)
    <2>1. cookies'[b] = cookies[b]
      BY <1>2 DEF Next, Login, Step, Token, TokenFails, Answer, Denied, Flush, Duplicate, Busy,
         Respond, Commit, CommitFails, Logout, Regroup, Crash, vars, IInv, TypeOK
    <2>2. users[s] = None
      <3>1. users' = users \/ \E c \in Browsers : Commit(c)
        BY DEF Next, Login, Step, Token, TokenFails, Answer, Denied, Flush, Duplicate, Busy,
           Respond, CommitFails, Logout, Regroup, Crash, vars
      <3> QED
        BY <3>1, CommitKeepsAccounts
    <2>3. PICK c \in Browsers : Makes(c, s)
      BY <2>1, <2>2 DEF SessionsHaveAccounts, Makes
    <2>4. ~Commit(c)
      <3> SUFFICES ASSUME Commit(c) PROVE FALSE
        OBVIOUS
      <3>1. users' = [users EXCEPT ![s] = [id |-> callback[c].id, admin |-> callback[c].admin]]
        BY <2>3 DEF Commit, Makes
      <3>2. users'[s] = [id |-> callback[c].id, admin |-> callback[c].admin]
        BY <3>1 DEF IInv, TypeOK
      <3>3. callback[c].id # 0 /\ callback[c] \in Callback
        BY <2>3 DEF Makes, IInv, TypeOK, NewRowsNew
      <3>4. users'[s] \in [id : Nat \ {0}, admin : BOOLEAN]
        BY <3>2, <3>3 DEF Callback
      <3> QED
        BY <3>4, SignInAssumption
    <2> QED
      BY <2>3, <2>4, CommitsStayDue
  <1> QED
    BY <1>1, <1>2

\* While nothing fails, whoever holds a session has an account, or its making
\* is about to commit (get_current_db_user).
THEOREM SessionsBacked == Spec => []SessionsHaveAccounts
  <1>1. Init => SessionsHaveAccounts
    BY DEF Init, SessionsHaveAccounts
  <1>2. IInv /\ SessionsHaveAccounts /\ [Next]_vars => SessionsHaveAccounts'
    <2>1. [Next]_vars => failing' = failing
      BY DEF Next, Login, Step, Token, TokenFails, Answer, Denied, Flush, Duplicate, Busy,
         Respond, Commit, CommitFails, Logout, Regroup, Crash, vars
    <2> QED
      BY <2>1, SessionsStayBacked DEF SessionsHaveAccounts
  <1> QED
    BY <1>1, <1>2, SignInInvariance, PTL DEF Spec

------------------------------------------------------------------------------
(* Which of the sign-ins of a subject decides its flag.                     *)

\* A sign-in that has read the row and is still to commit.
HasRead(b) == callback[b].pc \in {"flush", "respond", "commit"}

\* Each of two of a subject knows what the other was told.
OverlapsNoted ==
    \A b, d \in Browsers :
        b # d /\ HasRead(b) /\ HasRead(d) /\ callback[b].subject = callback[d].subject
            => callback[d].admin \in callback[b].beside

\* One that need not write the flag finds one that it knows of.
FlagStands ==
    \A b \in Browsers :
        LET c == callback[b] IN
        HasRead(b) /\ c.write \notin {"insert", "admin"} =>
            users[c.subject] # None /\ users[c.subject].admin \in {c.admin} \cup c.beside

\* What a step leaves of a sign-in that has read the row.
Carried(b) ==
    /\ HasRead(b)
    /\ callback'[b].subject = callback[b].subject /\ callback'[b].write = callback[b].write
    /\ callback'[b].admin = callback[b].admin /\ callback'[b].beside = callback[b].beside

LEMMA QuietSteps ==
    ASSUME OverlapsNoted, FlagStands, users' = users,
           \A b \in Browsers : HasRead(b)' => Carried(b)
    PROVE  OverlapsNoted' /\ FlagStands'
  <1>1. OverlapsNoted'
    BY DEF OverlapsNoted, Carried
  <1>2. FlagStands'
    BY DEF FlagStands, Carried
  <1> QED
    BY <1>1, <1>2

LEMMA AnswerNotes ==
    ASSUME IInv, OverlapsNoted, FlagStands, NEW b \in Browsers, Answer(b)
    PROVE  OverlapsNoted' /\ FlagStands'
  <1> DEFINE s == callback[b].subject
             told == {callback[d].admin : d \in Beside(b, s)}
  <1>1. callback[b] \in Callback /\ callback[b].pc = "info" /\ users' = users
    BY DEF Answer, IInv, TypeOK
  <1>2. PICK claims \in Told(b), details \in BOOLEAN :
          LET admin == IsAdmin(claims)
              write == Write(s, admin, details)
          IN callback' = [c \in Browsers |->
                 IF c = b
                 THEN [callback[b] EXCEPT !.pc = IF write = "nothing" THEN "respond" ELSE "flush",
                           !.claimed = "none", !.admin = admin, !.write = write,
                           !.beside = told]
                 ELSE [callback[c] EXCEPT
                           !.beside = IF c \in Beside(b, s) THEN @ \cup {admin} ELSE @]]
    BY DEF Answer
  <1> DEFINE admin == IsAdmin(claims)
             write == Write(s, admin, details)
  <1>3. /\ callback'[b].subject = s /\ callback'[b].write = write /\ callback'[b].admin = admin
        /\ callback'[b].beside = told
    <2> HIDE DEF write, admin, s, told
    <2>1. callback'[b] = [callback[b] EXCEPT !.pc = IF write = "nothing" THEN "respond" ELSE "flush",
                              !.claimed = "none", !.admin = admin, !.write = write,
                              !.beside = told]
      BY <1>2 DEF write, admin
    <2> QED
      BY <1>1, <2>1 DEF Callback, s
  <1>4. ASSUME NEW c \in Browsers \ {b}
        PROVE  /\ callback'[c].pc = callback[c].pc
               /\ callback'[c].subject = callback[c].subject
               /\ callback'[c].write = callback[c].write
               /\ callback'[c].admin = callback[c].admin
               /\ callback[c].beside \subseteq callback'[c].beside
               /\ c \in Beside(b, s) => admin \in callback'[c].beside
    <2>1. callback[c] \in Callback
      BY DEF IInv, TypeOK
    <2> HIDE DEF write, admin, s, told
    <2>2. callback'[c] = [callback[c] EXCEPT
                             !.beside = IF c \in Beside(b, s) THEN @ \cup {admin} ELSE @]
      BY <1>2 DEF write, admin
    <2> QED
      BY <2>1, <2>2 DEF Callback
  <1>5. write \notin {"insert", "admin"} => users[s] # None /\ users[s].admin = admin
    BY DEF Write
  <1>6. ASSUME NEW c \in Browsers \ {b}, HasRead(c), callback[c].subject = s
        PROVE  c \in Beside(b, s) /\ callback[c].admin \in told
    BY <1>6 DEF HasRead, Beside
  <1> HIDE DEF write, admin, s, told
  <1>7. OverlapsNoted'
    <2> SUFFICES ASSUME NEW x \in Browsers, NEW y \in Browsers, x # y,
                        HasRead(x)', HasRead(y)', callback'[x].subject = callback'[y].subject
                 PROVE  callback'[y].admin \in callback'[x].beside
      BY DEF OverlapsNoted
    <2>1. CASE x = b
      <3>1. HasRead(y) /\ callback[y].subject = s
        BY <1>3, <1>4, <2>1 DEF HasRead
      <3> QED
        BY <1>3, <1>4, <1>6, <2>1, <3>1
    <2>2. CASE y = b
      <3>1. HasRead(x) /\ callback[x].subject = s
        BY <1>3, <1>4, <2>2 DEF HasRead
      <3> QED
        BY <1>3, <1>4, <1>6, <2>2, <3>1
    <2>3. CASE x # b /\ y # b
      BY <1>4, <2>3 DEF HasRead, OverlapsNoted
    <2> QED
      BY <2>1, <2>2, <2>3
  <1>8. FlagStands'
    <2> SUFFICES ASSUME NEW x \in Browsers, HasRead(x)',
                        callback'[x].write \notin {"insert", "admin"}
                 PROVE  /\ users[callback'[x].subject] # None
                        /\ users[callback'[x].subject].admin
                               \in {callback'[x].admin} \cup callback'[x].beside
      BY <1>1 DEF FlagStands
    <2>1. CASE x = b
      BY <1>3, <1>5, <2>1
    <2>2. CASE x # b
      BY <1>4, <2>2 DEF HasRead, FlagStands
    <2> QED
      BY <2>1, <2>2
  <1> QED
    BY <1>7, <1>8

\* What a commit leaves of the flag.
LEMMA CommitLeaves ==
    ASSUME IInv, FlagStands, NEW b \in Browsers, Commit(b)
    PROVE  LET c == callback[b] IN
           /\ users'[c.subject] # None
           /\ users' # users => users'[c.subject].admin = c.admin
           /\ users'[c.subject].admin \in {c.admin} \cup c.beside
  <1> DEFINE c == callback[b]
  <1>1. /\ c \in Callback /\ c.subject \in Subjects /\ c.pc = "commit"
        /\ users \in [Subjects -> User \cup {None}]
    BY DEF Commit, IInv, TypeOK, SubjectsKnown
  <1>2. None \notin User
    BY SignInAssumption DEF User
  <1>3. CASE users' = [users EXCEPT ![c.subject] = [id |-> c.id, admin |-> c.admin]]
             /\ c.write = "insert"
    <2>1. c.id # 0
      BY <1>1, <1>3 DEF IInv, NewRowsNew
    <2>2. [id |-> c.id, admin |-> c.admin] \in User
      BY <1>1, <2>1 DEF User, Callback
    <2> QED
      BY <1>1, <1>2, <1>3, <2>2
  <1>4. CASE users' = [users EXCEPT ![c.subject].admin = c.admin] /\ c.write = "admin"
    <2>1. users[c.subject] # None /\ users[c.subject] \in User
      BY <1>1, <1>4 DEF IInv, OldRowsExist
    <2>2. users'[c.subject] = [users[c.subject] EXCEPT !.admin = c.admin]
      BY <1>1, <1>4
    <2>3. users'[c.subject] \in User /\ users'[c.subject].admin = c.admin
      BY <1>1, <2>1, <2>2 DEF User, Callback
    <2> QED
      BY <1>2, <2>3
  <1>5. CASE users' = users /\ c.write \in {"details", "nothing"}
    BY <1>1, <1>5 DEF FlagStands, HasRead
  <1> QED
    BY <1>3, <1>4, <1>5 DEF Commit

LEMMA CommitNotes ==
    ASSUME IInv, OverlapsNoted, FlagStands, NEW b \in Browsers, Commit(b)
    PROVE  OverlapsNoted' /\ FlagStands'
  <1>1. \A c \in Browsers : callback'[c] = IF c = b THEN NoCallback ELSE callback[c]
    BY DEF Commit, Move, IInv, TypeOK
  <1>2. HasRead(b) /\ ~HasRead(b)'
    BY <1>1, NoCallbackTyped DEF Commit, HasRead
  <1>3. \A s \in Subjects : s # callback[b].subject => users'[s] = users[s]
    BY CommitChanges
  <1>4. OverlapsNoted'
    BY <1>1, <1>2 DEF OverlapsNoted, HasRead
  <1>5. FlagStands'
    <2> SUFFICES ASSUME NEW x \in Browsers, HasRead(x)',
                        callback'[x].write \notin {"insert", "admin"}
                 PROVE  /\ users'[callback'[x].subject] # None
                        /\ users'[callback'[x].subject].admin
                               \in {callback'[x].admin} \cup callback'[x].beside
      BY DEF FlagStands
    <2>1. x # b /\ callback'[x] = callback[x] /\ HasRead(x)
      BY <1>1, <1>2 DEF HasRead
    <2>2. callback[x].subject \in Subjects
      BY <2>1 DEF HasRead, IInv, SubjectsKnown
    <2>3. CASE callback[x].subject # callback[b].subject \/ users' = users
      BY <1>3, <2>1, <2>2, <2>3 DEF FlagStands
    <2>4. CASE callback[x].subject = callback[b].subject /\ users' # users
      <3>1. callback[b].admin \in callback[x].beside
        BY <1>2, <2>1, <2>4 DEF OverlapsNoted
      <3>2. users'[callback[b].subject] # None
            /\ users'[callback[b].subject].admin = callback[b].admin
        BY <2>4, CommitLeaves
      <3> QED
        BY <2>1, <2>4, <3>1, <3>2
    <2> QED
      BY <2>3, <2>4
  <1> QED
    BY <1>4, <1>5

LEMMA NextNotes ==
    ASSUME IInv, OverlapsNoted, FlagStands, [Next]_vars
    PROVE  OverlapsNoted' /\ FlagStands'
  <1>1. ASSUME NEW b \in Browsers, NEW new, Move(b, new), users' = users,
               new.pc \in {"flush", "respond", "commit"} =>
                   /\ HasRead(b)
                   /\ new.subject = callback[b].subject /\ new.write = callback[b].write
                   /\ new.admin = callback[b].admin /\ new.beside = callback[b].beside
        PROVE  OverlapsNoted' /\ FlagStands'
    <2>1. \A c \in Browsers : callback'[c] = IF c = b THEN new ELSE callback[c]
      BY <1>1 DEF Move, IInv, TypeOK
    <2>2. \A c \in Browsers : HasRead(c)' => Carried(c)
      BY <1>1, <2>1 DEF HasRead, Carried
    <2> QED
      BY <1>1, <2>2, QuietSteps
  <1>2. ASSUME NEW b \in Browsers, Login(b) PROVE OverlapsNoted' /\ FlagStands'
    BY <1>1, <1>2 DEF Login, NoCallback
  <1>3. ASSUME NEW b \in Browsers, Token(b) PROVE OverlapsNoted' /\ FlagStands'
    <2> DEFINE new == [callback[b] EXCEPT !.pc = "info",
                    !.claimed = IF TokenHasGroups THEN groups[callback[b].subject] ELSE "none"]
    <2>1. Move(b, new) /\ users' = users
      BY <1>3 DEF Token
    <2>2. new.pc = "info"
      BY DEF IInv, TypeOK, Callback
    <2> HIDE DEF new
    <2> QED
      BY <1>1, <2>1, <2>2
  <1>4. ASSUME NEW b \in Browsers,
               TokenFails(b) \/ Denied(b) \/ Duplicate(b) \/ Busy(b) \/ CommitFails(b)
        PROVE  OverlapsNoted' /\ FlagStands'
    <2>1. Move(b, NoCallback) /\ users' = users
      BY <1>4 DEF TokenFails, Denied, Duplicate, Busy, CommitFails
    <2> QED
      BY <1>1, <2>1, NoCallbackTyped
  <1>5. ASSUME NEW b \in Browsers, Flush(b) PROVE OverlapsNoted' /\ FlagStands'
    <2>1. PICK n : Move(b, [callback[b] EXCEPT !.pc = "respond", !.id = n])
      BY <1>5 DEF Flush
    <2> DEFINE new == [callback[b] EXCEPT !.pc = "respond", !.id = n]
    <2>2. /\ HasRead(b) /\ users' = users /\ Move(b, new)
          /\ new.subject = callback[b].subject /\ new.write = callback[b].write
          /\ new.admin = callback[b].admin /\ new.beside = callback[b].beside
      BY <1>5, <2>1 DEF Flush, HasRead, IInv, TypeOK, Callback
    <2> HIDE DEF new
    <2> QED
      BY <1>1, <2>2
  <1>6. ASSUME NEW b \in Browsers, Respond(b) PROVE OverlapsNoted' /\ FlagStands'
    <2> DEFINE new == [callback[b] EXCEPT !.pc = "commit"]
    <2>1. /\ HasRead(b) /\ users' = users /\ Move(b, new)
          /\ new.subject = callback[b].subject /\ new.write = callback[b].write
          /\ new.admin = callback[b].admin /\ new.beside = callback[b].beside
      BY <1>6 DEF Respond, HasRead, IInv, TypeOK, Callback
    <2> HIDE DEF new
    <2> QED
      BY <1>1, <2>1
  <1>7. CASE Crash
    <2>1. users' = users /\ \A b \in Browsers : ~HasRead(b)'
      BY <1>7, NoCallbackTyped DEF Crash, HasRead
    <2> QED
      BY <2>1, QuietSteps
  <1>8. CASE Regroup \/ (\E b \in Browsers : Logout(b)) \/ UNCHANGED vars
    <2>1. users' = users /\ callback' = callback
      BY <1>8 DEF Regroup, Logout, vars
    <2>2. \A b \in Browsers : HasRead(b)' => Carried(b)
      BY <2>1 DEF HasRead, Carried
    <2> QED
      BY <2>1, <2>2, QuietSteps
  <1> QED
    BY <1>2, <1>3, <1>4, <1>5, <1>6, <1>7, <1>8, AnswerNotes, CommitNotes DEF Next, Step

\* For any number of subjects and browsers, whatever fails: the flag that a
\* sign-in leaves was told to it or to one of its subject that overlaps it,
\* although it may have found nothing to write (upsert_user).
THEOREM FlagAlwaysTold == Spec => FlagWasTold
  <1> DEFINE Leaves == \A b \in Browsers :
                 LET c == callback[b] IN
                 Commit(b) => /\ users'[c.subject] # None
                              /\ users'[c.subject].admin \in {c.admin} \cup c.beside
  <1>1. Init => OverlapsNoted /\ FlagStands
    BY DEF Init, OverlapsNoted, FlagStands, HasRead, NoCallback
  <1>2. IInv /\ OverlapsNoted /\ FlagStands /\ [Next]_vars => OverlapsNoted' /\ FlagStands'
    BY NextNotes
  <1>3. ASSUME IInv, FlagStands, NEW b \in Browsers, Commit(b)
        PROVE  /\ users'[callback[b].subject] # None
               /\ users'[callback[b].subject].admin \in {callback[b].admin} \cup callback[b].beside
    BY <1>3, CommitLeaves
  <1>4. IInv /\ FlagStands => [Leaves]_vars
    BY <1>3
  <1> QED
    BY <1>1, <1>2, <1>4, SignInInvariance, PTL DEF Spec, FlagWasTold
=============================================================================
