# Verification of seko-ai

TLA+ models of seko-ai, the model-checking runs over them, and machine-checked proofs.
Everything is translated from the code under `src/src/seko_ai/`; `PROJECT.json` gives, for
each definition, the lines it stands for.

## The system

seko-ai is one FastAPI application over one SQLite file. It hands out LiteLLM keys, shows
usage, and watches whether the LLM API is available.

| Component | State | Operations | Models |
|---|---|---|---|
| availability and maintenance (`services/status.py`) | the one `service_state` row: status, failure count, last check, window, lease owners | record a probe, start/end a window, acquire/release a lease, expire a forgotten window | `ServiceState`, `StatusLedger`, `StatusSessions` |
| scheduler (`scheduler.py`) | when the loop wakes next | probe, guarded record | `StatusSessions` |
| operator commands (`management.py`) | none | `check-status`, `maintenance start/end/status [--owner]`, `backup` | `StatusSessions`; `backup` in `BackupSnapshots`, `BackupCommand` |
| status routes (`routers/status.py`) | none | page, banner, admin start/end | `StatusSessions` |
| notifications (`services/notifications.py`) | none (mail is out of the program's hands) | down, restored, maintenance start/end | the outage mails, in `ServiceState` and `StatusSessions` |
| API keys (`services/keys.py`, `routers/keys.py`) | `api_key_identities`, `api_keys`; the tokens themselves are LiteLLM's | create, rotate, revoke, rename | `KeyRegister`, `KeyRequests` |
| LiteLLM client (`services/litellm_client.py`) | none | generate, delete, paged activity | `KeyRequests` (the first two), `UsagePage` (the third) |
| database sessions (`db/__init__.py`) | SQLite's write lock, each session's copies | open, flush, commit, roll back | part of `StatusSessions`, `KeyRequests` and `SignIn` |
| usage (`services/usage.py`, `routers/usage.py`) | none | attribute LiteLLM's activity to users and keys | `UsageAttribution`, `UsagePage` |
| sign-in, users (`routers/auth.py`, `auth.py`, `services/users.py`, `deps.py`) | `users`, the session cookie | login, callback, logout | `SignIn` |
| the rest: app factory, configuration, health, metrics, guide, logging, templates, migrations, scripts | none that changes at run time | | not modelled, see below |

How they interact: the scheduler thread of every application process, operator commands in
processes of their own, and web requests in worker threads share the `service_state` row and
SQLite's write lock. Key requests are coroutines of one event loop and share the loop, the
write lock and LiteLLM. The usage page is one more coroutine: it reads the key rows that key
requests write, awaits LiteLLM, and attributes. Sign-in callbacks are coroutines too, and write
the `users` rows that later requests look up by the cookie. A backup is a process of its own
that reads the database through SQLite's locks and shares files with other backups.

What is hard about it (the full list, line by line, is `hazards` in `PROJECT.json`):

* *Who reads what when.* Schedulers and commands take the write lock before they read
  (`lock_state`); web requests do not. The ORM writes back only the columns a session
  changed, so two sessions' changes can be merged into a row neither intended.
* *Probe age.* A probe is taken before the lock is waited for, and mail is sent while the
  lock is held.
* *Mail before commit.* A crash or a busy timeout in between leaves a mail without a record.
* *Two stores, no common transaction.* A key exists in LiteLLM and in SQLite; every call to
  LiteLLM may fail without telling whether it took effect.
* *A lock held across an await.* A rotation flushes its new row, then awaits LiteLLM. Another
  coroutine's flush waits for that lock on the event loop the rotation needs. A sign-in's
  flush does the same.
* *Read, await, use.* The usage page attributes records made after it read the keys, and the
  activity grows between two of its pages.
* *Read beside an uncommitted write.* A sign-in compares what it was told with a row another
  sign-in is about to change, and writes only what differs.
* *Response before commit.* The key page and the session cookie go out first, and the commit may
  still fail and be rolled back (`get_session`).
* *One temporary file.* Backups to one destination, running, failing or dead, share it.

## Modules

| Module | What it is |
|---|---|
| `ServiceState` | the row and what every operation does to it, as functions from row to row |
| `StatusLedger` | abstract specification: the row changes by one whole operation at a time |
| `StatusSessions` | the sessions: lock, load, insert, apply, commit, busy timeout, crash, time |
| `MCStatus` + `MCStatus*.cfg` | instances of `StatusSessions` for TLC |
| `StatusProofs` | the inductive invariant of `StatusSessions`; types and freshness |
| `StatusTheorems` | its action properties, the owners invariant and the refinement |
| `KeyRegister` | abstract specification: what becomes of a name and a token, and in which order |
| `KeyRequests` | key requests, their transactions, the wire to LiteLLM |
| `MCKeys` + `MCKeys*.cfg` | instances of `KeyRequests` for TLC |
| `KeyProofs` | its inductive invariant; types, dead keys and unique names |
| `KeyTheorems` | shown keys are stored, rotations keep a key, and the refinement |
| `UsageAttribution` | whom and which logical key a record counts for, and the report, as functions |
| `UsagePage` | the page around it: keys read, activity awaited page by page, keys changing meanwhile |
| `MCUsage` + `MCUsage*.cfg` | instances of `UsagePage` for TLC |
| `UsageTheorems` | its inductive invariant, and four of its properties |
| `UsageCounts` | how often and for whom a record counts, and which token an active key is shown by |
| `BackupSnapshots` | abstract specification: the destination holds whole copies that never go back |
| `BackupCommand` | the `backup` commands beside the application, with their files |
| `MCBackup` + `MCBackup*.cfg` | instances of `BackupCommand` for TLC |
| `BackupTheorems` | one backup at a time implements the snapshots; any number leave no old copy |
| `SignIn` | logins, callbacks, the users rows and the cookies |
| `MCSignIn` + `MCSignIn*.cfg` | instances of `SignIn` for TLC |
| `SignInTheorems` | its inductive invariant, that accounts are kept and sessions have one, and whose word the admin flag is |

Operators introduced by a comment `Slip:` are small mistakes a programmer could make in the
definition that follows them. Each is a mutant: with it in place of the definition, the
property `PROJECT.json` pairs it with is violated. They are no part of the models.

### `ServiceState`

`EndMaintenance`, `StartMaintenance`, `AcquireMaintenance`, `ReleaseMaintenance`,
`ExpireMaintenance` and `RecordProbe` are the functions of `services/status.py` of the same
names; `Fold` is the hysteresis in `record_probe`, `OutageMail` the choice of mail in
`_transition`, `TooRecent` the guard in `check_status`. Timestamps are ages: the code only
compares `now - x` with a duration, so ages saturate at the largest value the comparison can
tell apart. An operation reads the clock once; `lag` is how long ago that was. The failure
count saturates at the threshold, beyond which no condition tells values apart. Display
fields (`last_detail`, `since`, `maintenance_message`) and the events table are left out: no
condition reads them.

### `StatusSessions`

`row` is the committed row, `lock` SQLite's write lock, `sess[p]` a session's place in its
handler together with the row as loaded (`base`) and as changed (`pend`). `Wake`, `Command`
and `Request` open sessions; `LockState` is `BEGIN IMMEDIATE`; `Load` and `Insert` are
`get_or_create_state`; `Apply` runs the operation on the copy and sends mail; `Commit`
stores the changed columns. `Busy` is SQLite's busy timeout, `Duplicate` the primary-key
violation of a second first row, `Crash` the death of the process. `told` is the last outage
mail, `manual` a history variable that says whether an operator holds the window. `Flip`
and `Tick` are the LLM and the clock. A scheduler's sleep counts down once its run has
ended; a command or request can be issued at any time.

### `KeyRegister` and `KeyRequests`

One user's keys; users share nothing but the lock and the loop. `names` and `rows` are the two
tables, `wire` the calls LiteLLM has not handled, `live` the tokens it accepts, `shown` the keys a user has
seen. Coroutines interleave only at awaits (`LoopFree`). A flush takes the lock and keeps it
to the commit; the savepoint in `create_identity` opens the transaction, so releasing it
commits the identity (`InsertIdent`, `RenameIdent`), while rolling back to it keeps the lock until
`get_session` ends (`NameTaken`, `RenameTaken`). The response leaves before the commit (`Respond`,
then `Commit`), and a commit that raises, a savepoint's included, is rolled back (`CommitFails`: a
reader in its way, a full disk). `lost` is history: the keys a user was shown whose rows went with
such a commit, or with a crash before it. A failed call may have been
lost, carried out, or be carried out later (`Errs`); with `Reliable` it has had no effect.
`Misread` is a deletion answered with a body that is not JSON: `rotate_key` does not catch
the `ValueError`, its route does, and the transaction commits with both rows active. The
error page commits too, so every request that does not raise ends in `Commit`.

`KeyRegister` keeps of all this the two tables, the tokens that work and those that were shown, and
says in which order a token may go through them: `Mint` it before anyone has it, `Show` it before
its row is there, `Store` it by itself (for the record only, inactive, if nobody was shown it) or
`Replace` another one that is dead, `Retire` it once it is dead. Requests, the lock, the wire and
crashes are not visible in it, and the refinement mapping is the identity on the four variables
(`Register == INSTANCE KeyRegister`). It does not say that a dead key gets marked or a minted one
stored: the program may fail, or stop, between the two.

### `UsageAttribution` and `UsagePage`

`ByToken`, `ByAlias` and `Descriptor` are the three results of `_key_index`; `Classify` is the
inner function of `attribute`, `Section` its totals, `Summary` and `Report` are `_summary` and
`collect`. A total is the *set of positions* of the records it adds up, so "counted twice" and
"counted nowhere" can be told apart whatever the amounts. A key stands for its token and for
its alias; `known` says whether the row has the token, `named` whether the record has the
alias. The order in which rows are displayed, labels and masking are left out, but not *which*
token a logical key is shown by (`mask`).

In `UsagePage`, `rows` is the `api_keys` table, `activity` LiteLLM's records in the order it
lists them, `load` the page: the rows it read, the page number it asks for and what it has
fetched. `Open` reads the rows, `Fetch` is one turn of the loop in `daily_activity`,
`FetchFails` an error of it, caught by `collect` or not. `Create`, `Rotate` and `Revoke` are the
commits of key requests, with the failed rotations that leave a row inactive or two rows
active; when those commits happen is `KeyRequests`' business, here they may happen at any time.
`opened` is a history variable. How LiteLLM pages is not in the repository: it is taken to
list its records in one order, to cut that list as it is at the time of each request, and never
to take a record back.

### `BackupSnapshots` and `BackupCommand`

A file is an inode, `temporary` and `destination` the inodes at the two paths, `files` the
version of the database each is a copy of (`NoCopy` if none: empty, or half written).
`Connect` opens both connections and so may create the temporary file; `Begin`, `Finish` and
`CopyFails` are SQLite's copy, `Moved` its refusal to write to a file that was renamed
(observed with Python's `sqlite3`); `Replace` and `NothingToReplace` are the rename, and
`Crash` may come anywhere. A failed copy is rolled back and leaves the temporary file. The
refinement mapping is `db <- db, published <- Promised`: the version at the destination where
operators run one backup at a time (`alone`), and nothing where they do not.

### `SignIn`

`groups` is what the identity provider says, `users` the table, `cookies` what browsers hold,
`callback[b]` what the callback of a browser is doing. `Token` and `Answer` are its two awaits'
answers; `Told` are the claims they can come to, since a failing userinfo call falls back to the
ID token. `Write` compares with the row, as the session does at its flush; `details` stands for
the name and address columns. `Flush` takes the lock on the event loop (`LoopFree`), `Duplicate`
is the unique subject, `Busy` SQLite's timeout. `Respond` sets the cookie, `Commit` follows in a
worker thread. `failing` says whether commits can fail and the process can die. `beside` is
history: what the callbacks of the subject were told that were between their read and their commit
when this one read, or read since.

## Runs

| Run | Question | Bounds |
|---|---|---|
| `sessions` | are leases kept, outages mailed, operations atomic, with crashes? does the owners column tell whose window it is? | 1 process, 2 commands, 2 owners, threshold 2 |
| `routes` | which guarantees survive a request that reads without the lock? | 1 process, 1 command, 1 request, no leases |
| `liveness` | are outages, recoveries and forgotten windows dealt with, do sessions end? are probes of two processes kept apart? | 2 processes, 1 command, threshold 2, no crashes |
| `operator` | *violated*: a release never ends an operator's window | 1 command, 1 request |
| `restored` | *violated*: an outage mail is followed by a restoration mail | 1 process, 1 command |
| `keys_unreliable` | with lost and late calls, failing commits and crashes: is a revoked key dead, is a working one listed, do the requests implement the register? | 2 coroutines, 3 keys, 2 identities |
| `keys_rotations` | with calls that fail cleanly, and failing commits: does a rotation cost a user the key? are names unique? does every request end? | 2 coroutines, 1 rename, 3 keys, 2 identities |
| `keys_orphan` | *violated*: a failed rotation leaves no working replacement | 2 coroutines, 3 keys |
| `usage` | beside keys made, rotated, revoked and used: is any record missed, how many are counted twice, and whose is each? | 2 users, 2 logical keys, 2 tokens, 2 records on pages of one |
| `backup` | do backups, one at a time, implement the snapshots? how old can a copy be that one of two at once publishes? | 2 commands, 3 files, 4 versions |
| `backup_shared` | *violated*: no reader sees a partial file | 2 commands, 2 versions |
| `signin` | do racing, failing and dying sign-ins keep the account? is its flag what one of them was told? is every sign-in answered, and does every session have its account? | 1 subject, 2 browsers |

Why these bounds are enough to be of interest: two sessions and a third bystander give every
pairwise race and a lock holder besides; a threshold of 2 separates a first failure from the
last; two owners make the first release different from the last. A session's clock reading is
current (lag 0) in the passing runs, as more lets their states multiply; the action properties
are proved for every lag, and the violated runs have a lag of 1. With three keys a key can be
rotated twice, or two identities held and one of them rotated. Renames are in `keys_rotations`
only: they touch names alone, which `NamesApart` is about, and that renames implement the
register is left to the theorem. The numbers of aliases, names
and identities bound `KeyRequests`; `Idents` is never smaller than `Names`, since the program
never runs out of ids. Two tokens let a logical key have a revoked and an active one, in either
order; `u1` is an admin and `u2` is not; `k1`'s token is known and `k2`'s is not, and `k2`'s
alias has a service's prefix, so that every branch of the classification, and their order,
matters. Two records on pages of one are enough for the second page to be fetched after a
record was pushed onto it. Three files are one at each path and one that a connection still
holds. Two callbacks are all that can be beside each other for one subject; that ids of
different subjects stay apart is proved (`AccountsAreKept`), and not exercised by the run.

`alone` (in `BackupCommand`) and `failing` (in `SignIn`) are chosen in the initial state and
never change: one run covers both cases, and a property about one of them says so.

`UsagePage` and `BackupCommand` may stop at the bounds of their counters, and a run of
`KeyRequests` whose aliases are used up may have nothing left to do: these set
`CHECK_DEADLOCK FALSE`. `StatusSessions` and `SignIn` are checked for deadlock. Symmetry is used
in safety runs only.

### Fairness

`StatusSessions`: a session that was opened runs on, a scheduler whose sleep is over wakes
(`status_loop` survives every exception), time passes. No command, request or change of the
LLM's health is owed. Weak fairness is enough: nothing but a session's own step, or the lock,
keeps it from going on, and `Busy` ends the wait for the lock.

`KeyRequests`: every await ends, by the HTTP client's timeout if by nothing else, and every
lock wait ends by SQLite's. A coroutine is ready again and again rather than always, since
others run in between; asyncio runs ready coroutines in the order they became ready, so none
is passed over for ever: strong fairness. A rename runs in a thread that nothing keeps from going
on: weak fairness. LiteLLM owes nothing, and no commit has to succeed.

`SignIn`: the same, with weak fairness for the flush and the commit, which run in a thread that
nothing else delays. Nobody has to sign in. `UsagePage` and `BackupCommand` state no liveness:
an activity that grows by a page per fetch may keep the page going for ever, and a backup
waits as long as SQLite's locks make it.

### Disagreements between documentation and code

* **An automation can end an operator's window** (`operator`). `docs/configuration.md:111`
  says leases make that impossible. The admin route does not call `lock_state`: it reads the
  row before a lease is granted, opens "its" window afterwards, and writes only the columns
  it changed. The lease stays in the row and its release closes the window.
* **A promised mail is not sent** (`restored`). The outage mail ends with "You'll get another
  email when service is restored." A recovery inside a maintenance window that was opened
  after the outage is not mailed, then or later.
* **A failed rotation can leave a working, unrecorded token** (`keys_orphan`).
  `.github/copilot-instructions.md:46` asks that failed replacements be cleaned up. If the
  replacement's INSERT runs into a locked database, nothing deletes the token. Two rotations
  at once are enough: one holds the lock and awaits LiteLLM, the other waits for the lock on
  the event loop, so neither moves until the busy timeout ends the second.
* **A reader can see a partial backup** (`backup_shared`). `management.py:122` says it never does.
  Two commands with one destination share the temporary file: one renames it while the other
  writes to it. One at a time, the promise holds, through crashes and failures.

Other things the code does that a reader may not expect. No document is plain enough about
them to be contradicted, so the properties state what does hold:

* *Usage can be counted twice.* The activity has several pages, and a record made while they are
  fetched pushes another from a page already fetched onto the next, where it counts again.
  Nothing is ever missed (`NothingMissed`), and there are no more second counts than new records
  (`OvercountBounded`).
* *The later of two sign-ins can lose.* An admin who lost the group and signs in beside an older,
  uncommitted sign-in finds the row already saying "no admin", writes nothing, and the older one
  then commits "admin". `FlagWasTold` therefore lets the flag be what any of the overlapping
  sign-ins was told; with nobody beside it, a sign-in leaves the flag it was told itself.
* *A shown key may have no row.* The page goes out before the commit, so a commit that fails, or a
  crash before it, leaves a key that works and that no page lists (`NoHiddenKeys` names this
  exception and no other). After a rotation it is then the only working key of its identity:
  `RotationKeepsAKey` says that the user has it, not that it is listed.
* *A key that was never shown may stay behind.* If neither the old key's deletion nor the cleanup
  succeeds, the replacement's row is inactive while its token may work; `RevokedKeysAreDead` is
  about keys that a user was shown.

## Proofs

### Status

For all sets of sessions and owners and all settings that satisfy the ASSUMEs (`None` is no
session, integer or row; the sorts of sessions are disjoint; threshold, half interval,
maximum hours and lag are natural numbers):

| Theorem | States |
|---|---|
| `Invariance` | the inductive invariant `IInv` |
| `TypeCorrect` | `[]TypeOK` |
| `LockedSessionsFresh` | `[]LockedFresh` |
| `RecordsApart` | `RecordsKeepApart` |
| `LeasesKept` | `LeaseKept` |
| `OutagesMailed` | `OutagesAreMailed` |
| `OwnersTell` | `[]OwnersTellWhose`, if there are no web requests |
| `SessionsImplementLedger` | `LedgerSpec`, if there are no web requests |

`IInv` is `TypeOK` and, for every session, `Consistent`: an idle session, or one still
waiting to lock, does not hold the lock; a scheduler or command past its lock
holds it; whoever holds it works on the committed row; the changed copy is the operation performed on that copy with
the clock reading `lag` ago; schedulers only probe and requests never do. `LockedFresh`
alone is not inductive: nothing in it says that a session about to load already holds the
lock, nor that what is committed is the operation on what was read. The one hard case is
`Tick`: rows, copies and clock readings grow older together while sessions are under way, so
the operation on an older copy must be the older result of the operation (`PerformOlder` and
the lemmas before it), which holds because ages saturate only beyond every comparison.

The action properties follow because a step that changes the row is a commit or a tick
(`RowChanges`, `LockedCommit`). `OutagesMailed` needs a further invariant, `MailSent`, that a
session ready to commit was the last to send mail. The refinement maps a commit to `Operate`,
a tick to `Tick` and every other step to a stutter. The web requests must be excluded from it,
and from `OwnersTell`: the `operator` run shows how they break both.

### Keys

For all sets of requests, names, identities and aliases (`KeysAssumption`: `None` is none of them
and no row, a request is a coroutine or a thread), and for every way a call can fail unless the
table says otherwise:

| Theorem | States |
|---|---|
| `Invariance` | the inductive invariant `IInv` |
| `TypeCorrect` | `[]TypeOK` |
| `RevokedDead` | `[]RevokedKeysAreDead` |
| `NamesUnique` | `[]NamesApart` |
| `RequestsKeepTheRegister` | `RegisterSpec` |
| `NothingHidden` | `[]NoHiddenKeys` |
| `RotationsKeepAKey` | `[]RotationKeepsAKey`, if the application does not die, a failed call has had no effect, and nobody revokes |

`RevokedKeysAreDead` alone says nothing of a row that is about to be marked. `IInv` adds that a
deletion stays on the wire until it takes effect, so that the key is dead when its row is marked
(`DropsFirst`); that nothing can bring it back, since a mint on its way, awaited or given up, is of
a key without a row that nobody was shown (`MintsPending`); that an alias belongs to one
request, has no row before that request's commit, and is shown only when all that is left is to
commit it as active (`NewKeysNew`); that aliases are not made twice (`AliasesUsed`); and what the
fields of a request can be at each point (`RequestsFit`, `KeysHaveRows`). Most steps leave
keys alone, and one lemma (`QuietStep`, `Proceed`) serves them all.

The refinement needs two more invariants: an identity that a row or a request names has a name
(`IdentsNamed`; the identity is committed before its first key and never deleted), and a rotation
commits after its page has gone out (`ReplacementsShown`). LiteLLM's handling of a call is then
`Mint`, `Die` or a stutter, the page is `Show`, a commit is `Store`, `Replace`, `Retire` or a
stutter, a released savepoint is `Name`, and all else is a stutter.

The hypotheses of `RotationsKeepAKey` are the constants of the run `keys_rotations`, and each is
needed. A crash after the old key's deletion, before the page, leaves nothing that works. A
deletion that LiteLLM carried out without confirming it makes the program give up the replacement
as well. A revocation takes the last key by intent. That no commit fails is *not* among them: the
page with the new key has gone out by then, so the user has a key that works.

`NothingHidden` follows from `ShownKeysStored`: a shown key has a row, or its request is
committing, or its row was rolled back (`lost`). For `RotationsKeepAKey` the invariant `KInv` adds
that a call is on the wire only while it is awaited (`WireAwaited`), that a wanted replacement
works (`NewKeysWork`), that a lost key is nobody's any more, so that no request deletes it
(`LostGone`), and that every identity with a shown key has a working one or a rotation whose old
key is gone and which can no longer fail to serve it (`ShownKeysServed`). The last is what makes
concurrent rotations of one key come out right: the one that kills the key is itself the next to
serve its identity.

### Usage

For all sets of users, logical keys, keys and models, any page size and any bound of the
activity (`PageAssumption`, `AttributionAssumption`):

| Theorem | States |
|---|---|
| `PageInvariance` | the inductive invariant |
| `TypeCorrect` | `[]TypeOK` |
| `NoRecordMissed` | `[]NothingMissed` |
| `StaleRowsMisleadNobody` | `[]StaleRowsDoNotMislead` |
| `UsageFollowsRotations` | `[]UsageSpansRotations` |
| `SecondCountsPaid` | `[]OvercountBounded` |
| `EachCountedOnce` | `[]CountedOnce` |
| `MasksWereActive` | `[]MaskWasActive` |

The invariant is `TypeOK`, that there are finitely many rows, that no key has two (`KeysApart`),
that the rows the page read are still there but for their `active` (`RowsKept`), and that every
record there was at the start and is not fetched yet is at or after the first position of the
page asked for (`RestAhead`); `NothingMissed` alone says nothing before the last page.
`RestAhead` survives `Use` because an insertion only moves records back. The two other
properties follow from `KeysApart` and `RowsKept`: a row that a page read still has the same
owner and identity, and no other row can have taken its key.

`OvercountBounded` is not inductive either: a record may be pushed behind the page asked for long
before it is fetched again. `OvercountPaid` counts ahead: the second counts so far, *plus* the
fetched records that stand at or after the next page and so will be fetched again, are no more
than the records made since the page was opened. A new record pushes at most one fetched record
over the boundary, and fetching a page turns as many of the pending ones into second counts as it
holds. `CountedOnce` needs no history: for any rows and activity the four cases of `classify` exclude
each other and cover everything, and the key under which a user's record is shown is one that
`_summary` does not hide. `MaskWasActive` needs that the newest active row exists: row ids are
bounded by the number of rows (`RowIdsBounded`), and a bounded set of numbers has a greatest. It
speaks of the rows as they were read; a token that has been rotated since is shown as active until
the page is opened again.

### Backup

For any sets of commands and files and any number of versions; what is promised is promised
where `alone` holds:

| Theorem | States |
|---|---|
| `OneBackupPlaced` | `[]Placed` |
| `OneBackupImplementsSnapshots` | `SnapshotSpec` |
| `BackupsAreFresh` | `BackupIsFresh`, however many backups run |

The invariant is the types, `Placed`, and that where backups run one at a time only one does
(`OneRuns`). `Placed` is what a rename needs to publish a whole copy that is no older than the
one it replaces. The refinement maps the rename to `Publish`, a commit of the application to
`Commit`, and all else to a stutter. Of two at once nothing of the kind holds (`backup_shared`).

`BackupIsFresh` does hold of any number. Its invariant is that one copy at a time is written to a
file (`CopiesApart`, SQLite's lock), and that the file at the temporary path holds nothing older than
the start of a command that has finished its copy, or whose file is not there any more; nor would
a failing copy bring anything older back (`CopiesFresh`).

### Sign-in

For any finite set of subjects and any set of browsers:

| Theorem | States |
|---|---|
| `SignInInvariance` | the inductive invariant |
| `TypeCorrect` | `[]TypeOK` |
| `AccountsAreKept` | `AccountsKept` |
| `SessionsBacked` | `[]SessionsHaveAccounts`, if nothing fails (`~failing`) |
| `FlagAlwaysTold` | `FlagWasTold` |

The invariant adds to the types that a callback with something to write holds the lock from its
flush on (`WritersHoldLock`), that its subject and id are then still new if it inserts
(`NewRowsNew`) and its row exists if it does not (`OldRowsExist`), and that ids differ
(`IdsApart`). The lock is the heart of it: it is why nobody can take the id between the flush
that picks it and the commit.

`FlagWasTold` relates a step to what callbacks read long before it. Of two callbacks of one subject
that have both read and not committed, each knows what the other was told (`OverlapsNoted`), so
whoever commits to the row while another one is under way leaves a flag that the other one knows
of; and one that writes no flag always finds its own there, or one it knows of (`FlagStands`).

### Only model-checked

Every invariant and action property of a passing run is proved, and so are the three refinements.
Left to TLC are the liveness properties (`OutageNoticed`, `RecoveryNoticed`, `WindowCleared`,
`SessionsEnd`, `RequestsEnd`, `SignInsEnd`): fairness and ENABLED are beyond the prover. The four
violations are counterexamples, and need no proof.

## Not modelled, and why

Configuration and the app factory have no state of their own; settings are CONSTANTS. Health,
metrics and guide pages only read. Logging, templates, wording and delivery of mail to each
recipient affect no state. Migrations and shell scripts run once, alone. HTTP probes are
reduced to their outcome. Only SQLite is modelled: `docs/configuration.md` supports nothing
else. In `KeyRequests`, names are compared as normalized; `normalize_name`'s rejections change
nothing. One server process is assumed for key requests, sign-ins and the usage page, as the
container runs it.

In `UsageAttribution`, amounts are abstracted to the records they come from (the additions are
plain integer sums; `_num`'s conversion of odd values is left out), and rows without an identity
are left out: the migration gave every row one, and no code makes one without. In `SignIn`,
every claim names its subject (a token without one is refused and changes nothing), and what
later requests do with the cookie is not modelled: the guards in `auth.py` and `deps.py` only
read, and the admin flag in a cookie lasts until the next sign-in. Accounts are never deleted by
the program. `backup`'s refusal of databases that are not SQLite files changes nothing.

## Plan

Done: status, keys, usage, backup and sign-in are modelled and checked, with an abstract
specification of status, keys and backup, and their safety is proved. What is left:

1. *The safety half of liveness.* What can be proved without ENABLED: that no step but its own
   takes a waiting session or request back (a coroutine stays ready, a scheduler's sleep only
   shrinks), which is what the fairness is applied to.
2. *Weaker hypotheses.* `RotationsKeepAKey` for identities that nobody revokes, instead of a system
   in which nobody revokes at all.
3. *Keys without names to show for them*: identities committed ahead of their key row.
