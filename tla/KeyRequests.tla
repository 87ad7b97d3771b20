----------------------------- MODULE KeyRequests -----------------------------
(***************************************************************************)
(* One user's API keys: the requests of routers/keys.py that create,       *)
(* rotate, revoke and rename them, the two tables they keep, and LiteLLM,  *)
(* which holds the actual tokens.                                          *)
(*                                                                         *)
(* create, rotate and revoke are coroutines of one event loop: they give   *)
(* way to each other only while they await LiteLLM, and a database wait    *)
(* stops the loop.  rename runs in a thread.  A session's INSERT or UPDATE *)
(* takes SQLite's write lock and keeps it to the end of the request, even  *)
(* across an await; a released savepoint that opened the transaction       *)
(* commits it.  The response goes out before the commit.                   *)
(*                                                                         *)
(* A call to LiteLLM that fails may have been lost, may have been carried  *)
(* out, or may be carried out later.                                       *)
(***************************************************************************)
EXTENDS Naturals, FiniteSets

CONSTANTS
    None,
    Coroutines,     \* create, rotate and revoke requests
    Threads,        \* rename requests
    Kinds,          \* which of create, rotate and revoke are asked for
    Names,          \* normalized key names
    Idents,         \* identity ids
    Aliases,        \* key aliases (make_alias never makes one twice)
    Reliable,       \* whether a failed call has never had an effect
    MayCrash        \* whether the application can die

ASSUME KeysAssumption ==
    /\ Coroutines \cap Threads = {}
    /\ None \notin Coroutines \cup Threads \cup Names \cup Idents \cup Aliases
    /\ None \notin [ident : Idents, active : BOOLEAN]
    /\ Kinds \subseteq {"create", "rotate", "revoke"}
    /\ Reliable \in BOOLEAN
    /\ MayCrash \in BOOLEAN

VARIABLES
    names,  \* api_key_identities: the name of each identity, None if unused
    rows,   \* api_keys: identity and active flag by alias, None if no row
    lock,   \* who holds SQLite's write lock
    req,    \* what each request is doing
    wire,   \* calls LiteLLM has not handled yet
    live,   \* tokens LiteLLM accepts
    used,   \* aliases made so far
    shown,  \* aliases whose token a user was shown
    lost    \* history: shown keys whose rows were rolled back

vars == <<names, rows, lock, req, wire, live, used, shown, lost>>

Procs == Coroutines \cup Threads
KeyRow == [ident : Idents, active : BOOLEAN]
LostRow == [alias : Aliases, ident : Idents]
\* A call and the request that made it: two may ask for the same deletion.
Call == [op : {"generate", "delete"}, alias : Aliases, by : Coroutines]
Generate(c, a) == [op |-> "generate", alias |-> a, by |-> c]
Delete(c, a) == [op |-> "delete", alias |-> a, by |-> c]

\* Awaiting LiteLLM: mint, and the four places delete_keys is called from.
Awaits == {"mint", "dropNew", "dropOld", "cleanup", "dropKey"}
\* On the loop, between one await and the next.
Running == {"findName", "insertIdent", "insertKey", "markKey"}
Pcs == {"idle", "rename", "respond", "commit"} \cup Awaits \cup Running

\* How the transaction that is about to commit changes the key rows.
Outcomes == {"none", "create", "rotate", "audit", "revoke"}

Request == [pc    : Pcs,
            kind  : {"none", "create", "rotate", "revoke", "rename"},
            name  : Names \cup {None},      \* asked for by create, rename
            key   : Aliases \cup {None},    \* the row asked about
            ident : Idents \cup {None},
            new   : Aliases \cup {None},    \* the alias being minted
            out   : Outcomes]

NoRequest == [pc |-> "idle", kind |-> "none", name |-> None, key |-> None,
              ident |-> None, new |-> None, out |-> "none"]

TypeOK ==
    /\ names \in [Idents -> Names \cup {None}]
    /\ rows \in [Aliases -> KeyRow \cup {None}]
    /\ lock \in Procs \cup {None}
    /\ req \in [Procs -> Request]
    /\ wire \subseteq Call
    /\ live \subseteq Aliases
    /\ used \subseteq Aliases
    /\ shown \subseteq Aliases
    /\ lost \subseteq LostRow

Init ==
    /\ names = [i \in Idents |-> None]
    /\ rows = [a \in Aliases |-> None]
    /\ lock = None
    /\ req = [p \in Procs |-> NoRequest]
    /\ wire = {} /\ live = {} /\ used = {} /\ shown = {} /\ lost = {}

Taken(n) == \E i \in Idents : names[i] = n
TakenBeside(i, n) == \E j \in Idents \ {i} : names[j] = n

\* A coroutine runs only while no other one is between two awaits, where it
\* may be waiting for the lock.
LoopFree(p) == \A c \in Coroutines \ {p} : req[c].pc \notin Running

Move(p, change) == req' = [req EXCEPT ![p] = change]

------------------------------------------------------------------------------
(* Requests arrive.                                                         *)

\* create_key_for_user looks for the name, makes an alias and calls generate.
Create(c) ==
    /\ "create" \in Kinds /\ req[c].pc = "idle" /\ LoopFree(c)
    /\ \E n \in Names, a \in Aliases \ used :
        /\ ~Taken(n)
        /\ Move(c, [NoRequest EXCEPT !.pc = "mint", !.kind = "create",
                                     !.name = n, !.new = a])
        /\ used' = used \cup {a}
        /\ wire' = wire \cup {Generate(c, a)}
    /\ UNCHANGED <<names, rows, lock, live, shown, lost>>

\* Slip: mints and revokes side by side.
RotateAtOnce(c) ==
    /\ "rotate" \in Kinds /\ req[c].pc = "idle" /\ LoopFree(c)
    /\ \E k \in Aliases, a \in Aliases \ used :
        /\ rows[k] # None
        /\ Move(c, [NoRequest EXCEPT !.pc = "mint", !.kind = "rotate", !.key = k,
                                     !.ident = rows[k].ident, !.new = a])
        /\ used' = used \cup {a}
        /\ wire' = wire \cup {Generate(c, a), Delete(c, k)}
    /\ UNCHANGED <<names, rows, lock, live, shown, lost>>

\* Slip: the replacement is minted under the alias it replaces.
RotateInPlace(c) ==
    /\ "rotate" \in Kinds /\ req[c].pc = "idle" /\ LoopFree(c)
    /\ \E k \in Aliases :
        /\ rows[k] # None
        /\ Move(c, [NoRequest EXCEPT !.pc = "mint", !.kind = "rotate", !.key = k,
                                     !.ident = rows[k].ident, !.new = k])
        /\ wire' = wire \cup {Generate(c, k)}
    /\ UNCHANGED <<names, rows, lock, live, used, shown, lost>>

\* rotate_key: any row of the user, active or not.
Rotate(c) ==
    /\ "rotate" \in Kinds /\ req[c].pc = "idle" /\ LoopFree(c)
    /\ \E k \in Aliases, a \in Aliases \ used :
        /\ rows[k] # None
        /\ Move(c, [NoRequest EXCEPT !.pc = "mint", !.kind = "rotate", !.key = k,
                                     !.ident = rows[k].ident, !.new = a])
        /\ used' = used \cup {a}
        /\ wire' = wire \cup {Generate(c, a)}
    /\ UNCHANGED <<names, rows, lock, live, shown, lost>>

\* revoke_key: likewise.
Revoke(c) ==
    /\ "revoke" \in Kinds /\ req[c].pc = "idle" /\ LoopFree(c)
    /\ \E k \in Aliases :
        /\ rows[k] # None
        /\ Move(c, [NoRequest EXCEPT !.pc = "dropKey", !.kind = "revoke", !.key = k,
                                     !.out = IF rows[k].active THEN "revoke" ELSE "none"])
        /\ wire' = wire \cup {Delete(c, k)}
    /\ UNCHANGED <<names, rows, lock, live, used, shown, lost>>

\* rename_identity, up to its look for a duplicate.
Rename(t) ==
    /\ req[t].pc = "idle"
    /\ \E k \in Aliases, n \in Names :
        /\ rows[k] # None
        /\ ~TakenBeside(rows[k].ident, n)
        /\ Move(t, [NoRequest EXCEPT !.pc = "rename", !.kind = "rename",
                                     !.name = n, !.ident = rows[k].ident])
    /\ UNCHANGED <<names, rows, lock, wire, live, used, shown, lost>>

------------------------------------------------------------------------------
(* LiteLLM (external).                                                      *)

\* It handles a call, whether or not the caller still waits.
Handle(call) ==
    /\ call \in wire
    /\ wire' = wire \ {call}
    /\ live' = IF call.op = "generate" THEN live \cup {call.alias} ELSE live \ {call.alias}
    /\ UNCHANGED <<names, rows, lock, req, used, shown, lost>>

Awaited(p) ==
    CASE req[p].pc = "mint"                   -> Generate(p, req[p].new)
      [] req[p].pc \in {"dropNew", "cleanup"} -> Delete(p, req[p].new)
      [] req[p].pc \in {"dropOld", "dropKey"} -> Delete(p, req[p].key)

\* The call was answered with success.
Answered(p) ==
    /\ req[p].pc \in Awaits
    /\ LoopFree(p)
    /\ Awaited(p) \notin wire
    /\ req[p].pc = "mint" => req[p].new \in live
    /\ UNCHANGED wire

\* LiteLLMError: refused, or deleting what is not there; lost; answered but
\* the answer lost; or timed out, and still to be handled.  (An answer to the
\* mint or to a revocation that is no JSON ends the request the same way.)
Errs(p) ==
    /\ req[p].pc \in Awaits
    /\ LoopFree(p)
    /\ \/ wire' = wire \ {Awaited(p)} /\ (Reliable => Awaited(p) \in wire)
       \/ ~Reliable /\ UNCHANGED wire

------------------------------------------------------------------------------
(* Minting (create_key_for_user).                                           *)

Minted(p) ==
    /\ req[p].pc = "mint" /\ Answered(p)
    /\ Move(p, [req[p] EXCEPT !.pc = IF req[p].kind = "create"
                                     THEN "findName" ELSE "insertKey"])
    /\ UNCHANGED <<names, rows, lock, live, used, shown, lost>>

\* The answer holds no key value, so the alias is deleted again; and the same
\* when the name turns out to be taken.
DropNew(p) ==
    /\ Move(p, [req[p] EXCEPT !.pc = "dropNew"])
    /\ wire' = wire \cup {Delete(p, req[p].new)}

MintedNothing(p) ==
    /\ req[p].pc = "mint"
    /\ LoopFree(p)
    /\ Generate(p, req[p].new) \notin wire
    /\ DropNew(p)
    /\ UNCHANGED <<names, rows, lock, live, used, shown, lost>>

MintFails(p) ==
    /\ req[p].pc = "mint" /\ Errs(p)
    /\ Move(p, NoRequest)
    /\ UNCHANGED <<names, rows, lock, live, used, shown, lost>>

\* create_identity looks for the name again.
FindName(p) ==
    /\ req[p].pc = "findName"
    /\ IF Taken(req[p].name)
       THEN DropNew(p)
       ELSE Move(p, [req[p] EXCEPT !.pc = "insertIdent"]) /\ UNCHANGED wire
    /\ UNCHANGED <<names, rows, lock, live, used, shown, lost>>

\* Slip: create_identity's result is dropped.
InsertIdentForgotten(p) ==
    /\ req[p].pc = "insertIdent"
    /\ lock = None
    /\ ~Taken(req[p].name)
    /\ \E i \in Idents :
        /\ names[i] = None
        /\ names' = [names EXCEPT ![i] = req[p].name]
        /\ Move(p, [req[p] EXCEPT !.pc = "insertKey"])
    /\ UNCHANGED <<rows, lock, wire, live, used, shown, lost>>

\* Its savepoint is released, which commits: the name is taken from here on.
InsertIdent(p) ==
    /\ req[p].pc = "insertIdent"
    /\ lock = None
    /\ ~Taken(req[p].name)
    /\ \E i \in Idents :
        /\ names[i] = None
        /\ names' = [names EXCEPT ![i] = req[p].name]
        /\ Move(p, [req[p] EXCEPT !.pc = "insertKey", !.ident = i])
    /\ UNCHANGED <<rows, lock, wire, live, used, shown, lost>>

\* IntegrityError: rolled back to the savepoint, which keeps the lock.
NameTaken(p) ==
    /\ req[p].pc = "insertIdent"
    /\ lock = None
    /\ Taken(req[p].name)
    /\ lock' = p
    /\ DropNew(p)
    /\ UNCHANGED <<names, rows, live, used, shown, lost>>

\* The new row is flushed; a rotation then revokes the old token with the
\* lock in its hands.
InsertKey(p) ==
    /\ req[p].pc = "insertKey"
    /\ lock = None
    /\ lock' = p
    /\ IF req[p].kind = "rotate"
       THEN /\ Move(p, [req[p] EXCEPT !.pc = "dropOld"])
            /\ wire' = wire \cup {Delete(p, req[p].key)}
       ELSE /\ Move(p, [req[p] EXCEPT !.pc = "respond", !.out = "create"])
            /\ UNCHANGED wire
    /\ UNCHANGED <<names, rows, live, used, shown, lost>>

\* Whatever became of the deletion, the request ends with an error page.
NewDropped(p) ==
    /\ req[p].pc = "dropNew"
    /\ Answered(p) \/ Errs(p)
    /\ Move(p, [req[p] EXCEPT !.pc = "commit"])
    /\ UNCHANGED <<names, rows, lock, live, used, shown, lost>>

------------------------------------------------------------------------------
(* The rest of a rotation (rotate_key).                                     *)

OldDropped(p) ==
    /\ req[p].pc = "dropOld" /\ Answered(p)
    /\ Move(p, [req[p] EXCEPT !.pc = "respond", !.out = "rotate"])
    /\ UNCHANGED <<names, rows, lock, live, used, shown, lost>>

OldDropFails(p) ==
    /\ req[p].pc = "dropOld"
    /\ LoopFree(p)
    /\ \E w \in {wire, wire \ {Delete(p, req[p].key)}} :
        /\ Reliable => w # wire
        /\ wire' = w \cup {Delete(p, req[p].new)}
    /\ Move(p, [req[p] EXCEPT !.pc = "cleanup"])
    /\ UNCHANGED <<names, rows, lock, live, used, shown, lost>>

\* The replacement's row is deleted again, or kept inactive for audit.
CleanedUp(p) ==
    /\ req[p].pc = "cleanup" /\ Answered(p)
    /\ Move(p, [req[p] EXCEPT !.pc = "commit"])
    /\ UNCHANGED <<names, rows, lock, live, used, shown, lost>>

CleanupFails(p) ==
    /\ req[p].pc = "cleanup" /\ Errs(p)
    /\ Move(p, [req[p] EXCEPT !.pc = "commit", !.out = "audit"])
    /\ UNCHANGED <<names, rows, lock, live, used, shown, lost>>

\* A deletion was answered with success and a body that is no JSON: a ValueError,
\* which rotate_key does not catch and its route does.  Both rows stay active.
Misread(p) ==
    /\ ~Reliable
    /\ req[p].pc \in {"dropOld", "cleanup"} /\ Answered(p)
    /\ Move(p, [req[p] EXCEPT !.pc = "commit", !.out = "create"])
    /\ UNCHANGED <<names, rows, lock, live, used, shown, lost>>

------------------------------------------------------------------------------
(* The rest of a revocation (revoke_key) and of a rename.                   *)

KeyDropped(p) ==
    /\ req[p].pc = "dropKey" /\ Answered(p)
    /\ Move(p, [req[p] EXCEPT !.pc = IF req[p].out = "revoke" THEN "markKey" ELSE "commit"])
    /\ UNCHANGED <<names, rows, lock, live, used, shown, lost>>

\* Slip: marks the row even though the deletion failed.
MarkAnyway(p) ==
    /\ req[p].pc = "dropKey" /\ Errs(p)
    /\ Move(p, [req[p] EXCEPT !.pc = "markKey"])
    /\ UNCHANGED <<names, rows, lock, live, used, shown, lost>>

KeyDropFails(p) ==
    /\ req[p].pc = "dropKey" /\ Errs(p)
    /\ Move(p, NoRequest)
    /\ UNCHANGED <<names, rows, lock, live, used, shown, lost>>

MarkKey(p) ==
    /\ req[p].pc = "markKey"
    /\ lock = None
    /\ lock' = p
    /\ Move(p, [req[p] EXCEPT !.pc = "commit"])
    /\ UNCHANGED <<names, rows, wire, live, used, shown, lost>>

\* Slip: no unique constraint stands behind the look for a duplicate.
RenameUnchecked(t) ==
    /\ req[t].pc = "rename"
    /\ lock = None
    /\ names' = [names EXCEPT ![req[t].ident] = req[t].name]
    /\ Move(t, NoRequest)
    /\ UNCHANGED <<rows, lock, wire, live, used, shown, lost>>

\* The renamed identity is committed with its savepoint,
RenameIdent(t) ==
    /\ req[t].pc = "rename"
    /\ lock = None
    /\ ~TakenBeside(req[t].ident, req[t].name)
    /\ names' = [names EXCEPT ![req[t].ident] = req[t].name]
    /\ Move(t, NoRequest)
    /\ UNCHANGED <<rows, lock, wire, live, used, shown, lost>>

\* or the name has been taken meanwhile: as in NameTaken, the lock is kept.
RenameTaken(t) ==
    /\ req[t].pc = "rename"
    /\ lock = None
    /\ TakenBeside(req[t].ident, req[t].name)
    /\ lock' = t
    /\ Move(t, [req[t] EXCEPT !.pc = "commit"])
    /\ UNCHANGED <<names, rows, wire, live, used, shown, lost>>

------------------------------------------------------------------------------
(* Ending a request.                                                        *)

\* The page with the one-time reveal is sent; get_session has yet to commit.
Respond(p) ==
    /\ req[p].pc = "respond"
    /\ LoopFree(p)
    /\ shown' = shown \cup {req[p].new}
    /\ Move(p, [req[p] EXCEPT !.pc = "commit"])
    /\ UNCHANGED <<names, rows, lock, wire, live, used, lost>>

Revoked(r) == [r EXCEPT !.active = FALSE]

\* Slip: a rotation marks the wrong one of its two rows.
StoredSwapped(q) ==
    LET row == [ident |-> q.ident, active |-> q.out # "audit"] IN
    CASE q.out = "none"                -> rows
      [] q.out \in {"create", "audit"} -> [rows EXCEPT ![q.new] = row]
      [] q.out = "rotate" -> [rows EXCEPT ![q.new] = Revoked(row)]
      [] q.out = "revoke" -> [rows EXCEPT ![q.key] = Revoked(@)]

\* The key rows after the transaction of request q.
Stored(q) ==
    LET row == [ident |-> q.ident, active |-> q.out # "audit"] IN
    CASE q.out = "none"                -> rows
      [] q.out \in {"create", "audit"} -> [rows EXCEPT ![q.new] = row]
      [] q.out = "rotate" -> [rows EXCEPT ![q.new] = row, ![q.key] = Revoked(@)]
      [] q.out = "revoke" -> [rows EXCEPT ![q.key] = Revoked(@)]

Commit(p) ==
    /\ req[p].pc = "commit"
    /\ rows' = Stored(req[p])
    /\ lock' = IF lock = p THEN None ELSE lock
    /\ Move(p, NoRequest)
    /\ UNCHANGED <<names, wire, live, used, shown, lost>>

\* Requests about to commit the row of a key that a user has been shown.
Storing == {p \in Procs : req[p].pc = "commit" /\ req[p].new \in shown}

RowOf(p) == [alias |-> req[p].new, ident |-> req[p].ident]

\* A commit raises (a reader in its way, a full disk) and is rolled back; a
\* savepoint's release is one, too.
CommitFails(p) ==
    /\ \/ req[p].pc = "commit" /\ lock = p
       \/ req[p].pc \in {"insertIdent", "rename"} /\ lock = None
    /\ lock' = None
    /\ lost' = lost \cup {RowOf(q) : q \in Storing \cap {p}}
    /\ Move(p, NoRequest)
    /\ UNCHANGED <<names, rows, wire, live, used, shown>>

\* Slip: on the loop the lock is waited for without a timeout.
BusyInThreads(p) ==
    /\ req[p].pc = "rename"
    /\ lock \notin {None, p}
    /\ Move(p, NoRequest)
    /\ UNCHANGED <<names, rows, lock, wire, live, used, shown, lost>>

\* OperationalError, "database is locked": nothing here cleans up after it.
Busy(p) ==
    /\ req[p].pc \in {"insertIdent", "insertKey", "markKey", "rename"}
    /\ lock \notin {None, p}
    /\ Move(p, NoRequest)
    /\ UNCHANGED <<names, rows, lock, wire, live, used, shown, lost>>

\* The application dies; calls on the wire do not.
Crash ==
    /\ MayCrash
    /\ \E p \in Procs : req[p].pc # "idle"
    /\ req' = [p \in Procs |-> NoRequest]
    /\ lock' = None
    /\ lost' = lost \cup {RowOf(p) : p \in Storing}
    /\ UNCHANGED <<names, rows, wire, live, used, shown>>

------------------------------------------------------------------------------

Step(p) ==
    \/ Minted(p) \/ MintedNothing(p) \/ MintFails(p)
    \/ FindName(p) \/ InsertIdent(p) \/ NameTaken(p) \/ InsertKey(p) \/ NewDropped(p)
    \/ OldDropped(p) \/ OldDropFails(p) \/ CleanedUp(p) \/ CleanupFails(p)
    \/ Misread(p)
    \/ KeyDropped(p) \/ KeyDropFails(p) \/ MarkKey(p)
    \/ Respond(p) \/ Commit(p) \/ CommitFails(p) \/ Busy(p)

ThreadStep(t) ==
    RenameIdent(t) \/ RenameTaken(t) \/ Commit(t) \/ CommitFails(t) \/ Busy(t)

Next ==
    \/ \E c \in Coroutines : Create(c) \/ Rotate(c) \/ Revoke(c) \/ Step(c)
    \/ \E t \in Threads : Rename(t) \/ ThreadStep(t)
    \/ \E call \in wire : Handle(call)
    \/ Crash

Spec == Init /\ [][Next]_vars

\* Every await ends (the client's timeout) and every lock wait does (SQLite's);
\* the event loop runs its ready coroutines in turn, so none is passed over
\* for ever: hence strong fairness.
Fairness ==
    /\ \A c \in Coroutines : SF_vars(Step(c))
    /\ \A t \in Threads : WF_vars(ThreadStep(t))

FairSpec == Spec /\ Fairness
------------------------------------------------------------------------------
(* Safety.                                                                  *)

\* A key the page lists as gone does not work: once the row of a key that a
\* user was shown is inactive, LiteLLM no longer accepts its token, whatever
\* calls are still on their way (revoke_key: delete first, mark after).  A
\* replacement whose cleanup failed is inactive, too, and may well work, but
\* nobody was shown it.
RevokedKeysAreDead ==
    \A a \in shown : rows[a] # None /\ ~rows[a].active => a \notin live

\* A working key that a user was shown is on the user's page, where it can be
\* revoked, or will be when its request has committed; nothing but that
\* request's own commit, failing or cut off by a crash, takes it off.
NoHiddenKeys ==
    \A a \in shown \cap live :
        \/ rows[a] # None /\ rows[a].active
        \/ \E p \in Storing : req[p].new = a
        \/ \E i \in Idents : [alias |-> a, ident |-> i] \in lost

\* A rotation past its mint, whose replacement has not been given up.
Replacing(p) ==
    /\ req[p].kind = "rotate"
    /\ req[p].pc \in {"dropOld", "respond", "commit"}

\* The key is stored as one of identity i's, or was to be when its commit failed.
KeyOf(a, i) == (rows[a] # None /\ rows[a].ident = i) \/ [alias |-> a, ident |-> i] \in lost

\* A user who was shown a key of an identity always has a working one, shown
\* or about to be, through any concurrent rotations of it (rotate_key: mint
\* first, revoke after) and through commits that fail: what the user has then
\* works, though no page lists it.  Not so once LiteLLM carries out a deletion
\* it did not confirm, nor for a key that was revoked.
RotationKeepsAKey ==
    \A a \in shown : rows[a] # None =>
        \/ \E b \in shown \cap live : KeyOf(b, rows[a].ident)
        \/ \E p \in Coroutines :
             Replacing(p) /\ req[p].ident = rows[a].ident /\ req[p].new \in live

\* A name is one identity's, though create and rename look for it long before
\* they take it.
NamesApart ==
    \A i, j \in Idents : i # j => names[i] = None \/ names[i] # names[j]

Register == INSTANCE KeyRegister

\* What requests, late answers, failed commits and crashes make of names, rows
\* and tokens is a life of keys as the register has it: none comes back, changes
\* hands or is stored under a name that does not exist.
RegisterSpec == Register!Spec

(* Liveness, under Fairness.                                                *)

\* Every request comes to its end, although one that awaits LiteLLM may hold
\* the lock that another one stops the loop for.
RequestsEnd == \A p \in Procs : []<>(req[p].pc = "idle")

------------------------------------------------------------------------------
(* What the documentation says and the code does not do.                    *)

\* copilot-instructions.md: "Rotation must create the replacement before
\* revoking the old token, clean up failed replacements": one that ends before
\* its commit leaves no working replacement behind.
FailedReplacementsCleaned ==
    [][\A c \in Coroutines :
        req[c].kind = "rotate" /\ req[c].pc # "commit" /\ req'[c].pc = "idle"
            => req[c].new \notin live']_vars
=============================================================================
