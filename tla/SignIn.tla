------------------------------- MODULE SignIn -------------------------------
(***************************************************************************)
(* Signing in: the callback of routers/auth.py, which asks the identity    *)
(* provider whom it has before it and in which groups, writes the users    *)
(* row (services/users.py) and hands out the session cookie.               *)
(*                                                                         *)
(* Callbacks are coroutines of one event loop.  From the provider's last   *)
(* answer to the end of the flush one runs alone, and a flush that waits   *)
(* for SQLite's write lock stops the loop.  The response, with the cookie, *)
(* goes out before the transaction commits, in a worker thread.  The ORM   *)
(* writes the columns that differ from what was read, or nothing.          *)
(***************************************************************************)
EXTENDS Naturals, FiniteSets

CONSTANTS
    None,
    Subjects,
    Browsers,
    TokenHasGroups  \* whether the provider puts groups into the ID token

ASSUME SignInAssumption ==
    /\ IsFiniteSet(Subjects)
    /\ None \notin Browsers \cup Subjects
    /\ None \notin [id : Nat \ {0}, admin : BOOLEAN]
    /\ TokenHasGroups \in BOOLEAN

VARIABLES
    groups,     \* what the provider says of a subject
    users,      \* the committed users row of a subject
    cookies,    \* the session each browser holds
    callback,   \* what the callback of each browser is doing
    lock,       \* who holds SQLite's write lock
    failing     \* whether the process may die and commits may fail

vars == <<groups, users, cookies, callback, lock, failing>>

\* In no group of ours, in the users' group only, in the admins' group.
Groups == {"none", "users", "admins"}

User == [id : Nat \ {0}, admin : BOOLEAN]
Cookie == [subject : Subjects, admin : BOOLEAN]

\* token, info: awaiting the code exchange and the userinfo endpoint.
Pcs == {"idle", "token", "info", "flush", "respond", "commit"}

\* What the session will write: a new row, the flag, something else, nothing.
Writes == {"insert", "admin", "details", "nothing"}

Callback == [pc      : Pcs,
             subject : Subjects \cup {None},
             claimed : Groups,          \* by the ID token
             admin   : BOOLEAN,         \* as decided
             write   : Writes,
             id      : Nat,             \* of a new row
             beside  : SUBSET BOOLEAN]  \* history: flags told to overlapping ones

NoCallback == [pc |-> "idle", subject |-> None, claimed |-> "none", admin |-> FALSE,
               write |-> "nothing", id |-> 0, beside |-> {}]

TypeOK ==
    /\ groups \in [Subjects -> Groups]
    /\ users \in [Subjects -> User \cup {None}]
    /\ cookies \in [Browsers -> Cookie \cup {None}]
    /\ callback \in [Browsers -> Callback]
    /\ lock \in Browsers \cup {None}
    /\ failing \in BOOLEAN

Init ==
    /\ groups \in [Subjects -> Groups]
    /\ users = [s \in Subjects |-> None]
    /\ cookies = [b \in Browsers |-> None]
    /\ callback = [b \in Browsers |-> NoCallback]
    /\ lock = None
    /\ failing \in BOOLEAN

\* The loop is not stopped by a flush that waits.
LoopFree == \A b \in Browsers : callback[b].pc # "flush"

Move(b, change) == callback' = [callback EXCEPT ![b] = change]

------------------------------------------------------------------------------
(* The provider.                                                            *)

\* The browser is sent to the provider and comes back with a code.
Login(b) ==
    /\ callback[b].pc = "idle" /\ LoopFree
    /\ \E s \in Subjects : Move(b, [NoCallback EXCEPT !.pc = "token", !.subject = s])
    /\ UNCHANGED <<groups, users, cookies, lock, failing>>

\* Slip: the session is filled before the decision.
TokenSignsIn(b) ==
    /\ callback[b].pc = "token" /\ LoopFree
    /\ Move(b, [callback[b] EXCEPT !.pc = "info"])
    /\ cookies' = [cookies EXCEPT ![b] = [subject |-> callback[b].subject, admin |-> FALSE]]
    /\ UNCHANGED <<groups, users, lock, failing>>

\* authorize_access_token.
Token(b) ==
    /\ callback[b].pc = "token" /\ LoopFree
    /\ Move(b, [callback[b] EXCEPT !.pc = "info",
                    !.claimed = IF TokenHasGroups THEN groups[callback[b].subject] ELSE "none"])
    /\ UNCHANGED <<groups, users, cookies, lock, failing>>

\* OAuthError: 400.
TokenFails(b) ==
    /\ callback[b].pc = "token" /\ LoopFree
    /\ Move(b, NoCallback)
    /\ UNCHANGED <<groups, users, cookies, lock, failing>>

Regroup ==
    /\ \E s \in Subjects, g \in Groups : groups' = [groups EXCEPT ![s] = g]
    /\ UNCHANGED <<users, cookies, callback, lock, failing>>

------------------------------------------------------------------------------
(* The rest of the callback.                                                *)

\* Callbacks of a subject between its reading of the row and its commit.
Beside(b, s) == {c \in Browsers \ {b} : callback[c].subject = s
                                         /\ callback[c].pc \in {"flush", "respond", "commit"}}

\* What the claims may say: what the userinfo endpoint says or, if that fails,
\* the ID token (which is of no use later).  Every claim names its subject.
Told(b) == {groups[callback[b].subject], callback[b].claimed}

\* evaluate_access.
Allowed(told) == told # "none"
IsAdmin(told) == told = "admins"

\* Slip: the flag is written only into a new row.
WriteOnlyNew(s, admin, details) ==
    IF users[s] = None THEN "insert" ELSE IF details THEN "details" ELSE "nothing"

\* upsert_user assigns every column; the session writes those that changed.
Write(s, admin, details) ==
    IF users[s] = None THEN "insert"
    ELSE IF users[s].admin # admin THEN "admin"
    ELSE IF details THEN "details" ELSE "nothing"

\* The callback up to the flush of upsert_user.
Answer(b) ==
    /\ callback[b].pc = "info" /\ LoopFree
    /\ \E told \in Told(b), details \in BOOLEAN :
        LET s == callback[b].subject
            admin == IsAdmin(told)
            write == Write(s, admin, details)
        IN /\ Allowed(told)
           /\ callback' = [c \in Browsers |->
                  IF c = b
                  THEN [callback[b] EXCEPT !.pc = IF write = "nothing" THEN "respond" ELSE "flush",
                            !.claimed = "none", !.admin = admin, !.write = write,
                            !.beside = {callback[d].admin : d \in Beside(b, s)}]
                  ELSE [callback[c] EXCEPT
                            !.beside = IF c \in Beside(b, s) THEN @ \cup {admin} ELSE @]]
    /\ UNCHANGED <<groups, users, cookies, lock, failing>>

\* 403.
Denied(b) ==
    /\ callback[b].pc = "info" /\ LoopFree
    /\ \E told \in Told(b) : ~Allowed(told)
    /\ Move(b, NoCallback)
    /\ UNCHANGED <<groups, users, cookies, lock, failing>>

Ids == {users[s].id : s \in {t \in Subjects : users[t] # None}}

\* SQLite numbers a row one above the largest.
NextIds == {n \in 1 .. Cardinality(Subjects) + 1 :
               /\ \A i \in Ids : i < n
               /\ n = 1 \/ n - 1 \in Ids}

\* Slip: the flush does not number a new row.
FlushUnnumbered(b) ==
    /\ callback[b].pc = "flush" /\ lock = None
    /\ callback[b].write = "insert" => users[callback[b].subject] = None
    /\ lock' = b
    /\ Move(b, [callback[b] EXCEPT !.pc = "respond"])
    /\ UNCHANGED <<groups, users, cookies, failing>>

\* Slip: subjects are not unique.
FlushAnyway(b) ==
    /\ callback[b].pc = "flush" /\ lock = None
    /\ lock' = b
    /\ \E n \in NextIds :
        Move(b, [callback[b] EXCEPT !.pc = "respond",
                     !.id = IF callback[b].write = "insert" THEN n ELSE 0])
    /\ UNCHANGED <<groups, users, cookies, failing>>

\* The INSERT or UPDATE takes the lock.
Flush(b) ==
    /\ callback[b].pc = "flush" /\ lock = None
    /\ callback[b].write = "insert" => users[callback[b].subject] = None
    /\ lock' = b
    /\ \E n \in NextIds :
        Move(b, [callback[b] EXCEPT !.pc = "respond",
                     !.id = IF callback[b].write = "insert" THEN n ELSE 0])
    /\ UNCHANGED <<groups, users, cookies, failing>>

\* Another callback has made the row: the subject is unique, 500.
Duplicate(b) ==
    /\ callback[b].pc = "flush" /\ lock = None
    /\ callback[b].write = "insert" /\ users[callback[b].subject] # None
    /\ Move(b, NoCallback)
    /\ UNCHANGED <<groups, users, cookies, lock, failing>>

\* Slip: no busy timeout.
BusyForEver(b) ==
    /\ callback[b].pc = "flush" /\ lock = b
    /\ Move(b, NoCallback)
    /\ UNCHANGED <<groups, users, cookies, lock, failing>>

\* SQLite's busy timeout ends the wait, 500.
Busy(b) ==
    /\ callback[b].pc = "flush" /\ lock # None
    /\ Move(b, NoCallback)
    /\ UNCHANGED <<groups, users, cookies, lock, failing>>

\* The redirect to the start page, with the session.
Respond(b) ==
    /\ callback[b].pc = "respond" /\ LoopFree
    /\ cookies' = [cookies EXCEPT ![b] = [subject |-> callback[b].subject,
                                          admin |-> callback[b].admin]]
    /\ Move(b, [callback[b] EXCEPT !.pc = "commit"])
    /\ UNCHANGED <<groups, users, lock, failing>>

\* get_session commits.
Commit(b) ==
    /\ callback[b].pc = "commit"
    /\ LET c == callback[b] IN
        \/ c.write = "insert" /\ users' = [users EXCEPT ![c.subject] = [id |-> c.id, admin |-> c.admin]]
        \/ c.write = "admin" /\ users' = [users EXCEPT ![c.subject].admin = c.admin]
        \/ c.write \in {"details", "nothing"} /\ users' = users
    /\ lock' = IF lock = b THEN None ELSE lock
    /\ Move(b, NoCallback)
    /\ UNCHANGED <<groups, cookies, failing>>

\* A reader (a backup, say) keeps the commit waiting too long: rolled back.
CommitFails(b) ==
    /\ failing /\ callback[b].pc = "commit" /\ lock = b
    /\ lock' = None
    /\ Move(b, NoCallback)
    /\ UNCHANGED <<groups, users, cookies, failing>>

Logout(b) ==
    /\ cookies[b] # None /\ LoopFree
    /\ cookies' = [cookies EXCEPT ![b] = None]
    /\ UNCHANGED <<groups, users, callback, lock, failing>>

\* The application dies and starts again.
Crash ==
    /\ failing
    /\ callback' = [b \in Browsers |-> NoCallback]
    /\ lock' = None
    /\ UNCHANGED <<groups, users, cookies, failing>>

Step(b) == \/ Token(b) \/ TokenFails(b) \/ Answer(b) \/ Denied(b) \/ Flush(b)
           \/ Duplicate(b) \/ Busy(b) \/ Respond(b) \/ Commit(b) \/ CommitFails(b)

Next == Regroup \/ Crash \/ \E b \in Browsers : Login(b) \/ Step(b) \/ Logout(b)

Spec == Init /\ [][Next]_vars

\* Awaits end, by the HTTP client's timeout if by nothing else, and the wait
\* for the lock by SQLite's; ready coroutines are run in turn (see KeyRequests).
FairSpec ==
    /\ Spec
    /\ \A b \in Browsers :
        /\ SF_vars(Token(b) \/ TokenFails(b))
        /\ SF_vars(Answer(b) \/ Denied(b))
        /\ WF_vars(Flush(b) \/ Duplicate(b) \/ Busy(b))
        /\ SF_vars(Respond(b))
        /\ WF_vars(Commit(b))

------------------------------------------------------------------------------
(* Properties.                                                              *)

\* An account is never lost or made twice: whatever sign-ins of a subject
\* meet, its row stays and keeps its id, to which its keys belong, and no
\* other subject has that id (upsert_user).
AccountsKept ==
    [][\A s \in Subjects :
        users[s] # None =>
            /\ users'[s] # None /\ users'[s].id = users[s].id
            /\ \A t \in Subjects \ {s} : users'[t] # None => users'[t].id # users[s].id]_vars

\* The flag that a sign-in leaves is one that it was told or that an overlapping
\* one of the subject was told, never one of before: a sign-in that has found
\* nothing to write may leave another one's, but not a withdrawn one (upsert_user).
FlagWasTold ==
    [][\A b \in Browsers :
        LET c == callback[b] IN
        Commit(b) => /\ users'[c.subject] # None
                     /\ users'[c.subject].admin \in {c.admin} \cup c.beside]_vars

\* Whoever comes back from the provider is answered, although a callback that
\* waits for the lock stops the loop that the lock's holder may need.
SignInsEnd == \A b \in Browsers : callback[b].pc = "token" ~> callback[b].pc = "idle"

\* While nothing fails, the user of a session is found (deps.py:24), but for the
\* time from the response to the commit of the sign-in that made the account.
SessionsHaveAccounts ==
    ~failing => \A b \in Browsers :
        cookies[b] # None /\ users[cookies[b].subject] = None =>
            \E c \in Browsers : /\ callback[c].pc = "commit" /\ callback[c].write = "insert"
                                /\ callback[c].subject = cookies[b].subject
=============================================================================
