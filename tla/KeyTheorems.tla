----------------------------- MODULE KeyTheorems -----------------------------
(***************************************************************************)
(* Two promises about keys a user was shown: none of them works without    *)
(* standing on the user's page, and a rotation never leaves its identity   *)
(* without a working one.  And that the requests implement KeyRegister.    *)
(***************************************************************************)
EXTENDS KeyProofs

USE KeysAssumption

\* A shown key has a row, is about to get it, or has lost it.
ShownKeysStored ==
    \A a \in shown :
        \/ rows[a] # None
        \/ \E p \in Storing : req[p].new = a
        \/ \E i \in Idents : [alias |-> a, ident |-> i] \in lost

\* Where a failed call has had no effect: a call is on its way only as long
\* as it is awaited.
WireAwaited ==
    \A call \in wire : req[call.by].pc \in Awaits /\ call = Awaited(call.by)

\* Past its mint, and as long as it is wanted, the new key works.
Minting == {"findName", "insertIdent", "insertKey", "dropOld", "respond"}

NewKeysWork ==
    \A p \in Procs :
        /\ req[p].pc \in Minting => req[p].new \in live
        /\ req[p].pc = "commit" /\ req[p].out \in {"create", "rotate"} =>
               req[p].new \in live /\ req[p].new \in shown

NoRevocations == \A p \in Procs : req[p].kind # "revoke"

\* The rotation's replacement cannot be given up any more: the old key is gone.
Sure(p) ==
    /\ req[p].kind = "rotate"
    /\ \/ req[p].pc = "dropOld" /\ Delete(p, req[p].key) \notin wire
       \/ req[p].pc = "respond"
       \/ req[p].pc = "commit" /\ req[p].out = "rotate"

\* The identity i has a working key, shown or about to be.
Served(i) ==
    \/ \E b \in shown \cap live : KeyOf(b, i)
    \/ \E p \in Coroutines : Sure(p) /\ req[p].ident = i

ShownKeysServed == \A a \in shown : rows[a] # None => Served(rows[a].ident)

\* A key whose row was lost is out of every request's reach.
LostGone ==
    \A x \in lost :
        /\ x.alias \in shown /\ rows[x.alias] = None
        /\ \A p \in Procs : req[p].new # x.alias

KInv ==
    /\ IInv
    /\ WireAwaited
    /\ NewKeysWork
    /\ NoRevocations
    /\ ShownKeysServed
    /\ LostGone

------------------------------------------------------------------------------
(* A key that was shown is stored.                                          *)

\* Only a page and a commit touch the rows, what was shown, or a request that
\* is storing a key; unless its row is lost.
LEMMA CommitsAlone ==
    ASSUME IInv, [Next]_vars
    PROVE  \/ \E p \in Coroutines : Respond(p)
           \/ \E p \in Procs : Commit(p)
           \/ /\ UNCHANGED <<rows, shown>> /\ lost \subseteq lost'
              /\ \A q \in Storing : req'[q] = req[q] \/ RowOf(q) \in lost'
  <1> DEFINE Apart == /\ UNCHANGED <<rows, shown>> /\ lost \subseteq lost'
                      /\ \A q \in Storing : req'[q] = req[q] \/ RowOf(q) \in lost'
  <1>1. ASSUME NEW p \in Procs, NEW new, Move(p, new), req[p].pc # "commit",
               UNCHANGED <<rows, shown, lost>>
        PROVE  Apart
    BY <1>1 DEF Move, IInv, TypeOK, Storing
  <1>2. ASSUME NEW p \in Procs, CommitFails(p) PROVE Apart
    <2>1. /\ UNCHANGED <<rows, shown>>
          /\ lost' = lost \cup {RowOf(q) : q \in Storing \cap {p}}
          /\ \A q \in Procs \ {p} : req'[q] = req[q]
      BY <1>2 DEF CommitFails, Move, IInv, TypeOK
    <2>2. ASSUME NEW q \in Storing PROVE req'[q] = req[q] \/ RowOf(q) \in lost'
      BY <2>1 DEF Storing
    <2> QED
      BY <2>1, <2>2
  <1>3. CASE Crash
    BY <1>3 DEF Crash
  <1> HIDE DEF Apart
  <1>4. ASSUME NEW c \in Coroutines, Create(c) \/ Rotate(c) \/ Revoke(c) PROVE Apart
    BY <1>1, <1>4 DEF Create, Rotate, Revoke, Procs
  <1>5. ASSUME NEW c \in Coroutines, Step(c), ~Respond(c), ~Commit(c) PROVE Apart
    BY <1>1, <1>2, <1>5 DEF Step, Procs, Minted, MintedNothing, MintFails, FindName, InsertIdent,
          NameTaken, InsertKey, NewDropped, OldDropped, OldDropFails, CleanedUp, CleanupFails,
          Misread, KeyDropped, KeyDropFails, MarkKey, Busy, DropNew
  <1>6. ASSUME NEW t \in Threads, Rename(t) \/ ThreadStep(t), ~Commit(t) PROVE Apart
    BY <1>1, <1>2, <1>6 DEF Rename, ThreadStep, RenameIdent, RenameTaken, Busy, Procs
  <1>7. CASE (\E call \in wire : Handle(call)) \/ UNCHANGED vars
    BY <1>7 DEF Handle, vars, Apart, Storing
  <1>8. Apart => /\ UNCHANGED <<rows, shown>> /\ lost \subseteq lost'
                 /\ \A q \in Storing : req'[q] = req[q] \/ RowOf(q) \in lost'
    BY DEF Apart
  <1>9. CASE \E t \in Threads : Rename(t) \/ ThreadStep(t)
    BY <1>6, <1>8, <1>9 DEF Procs
  <1>10. CASE \E c \in Coroutines : Create(c) \/ Rotate(c) \/ Revoke(c) \/ Step(c)
    BY <1>4, <1>5, <1>8, <1>10 DEF Procs
  <1> QED
    BY <1>3, <1>7, <1>8, <1>9, <1>10 DEF Next, Apart

LEMMA StoredInv ==
    ASSUME IInv, ShownKeysStored, [Next]_vars
    PROVE  ShownKeysStored'
  <1>1. CASE \E p \in Coroutines : Respond(p)
    <2>1. PICK p \in Coroutines : Respond(p)
      BY <1>1
    <2>2. /\ shown' = shown \cup {req[p].new} /\ rows' = rows /\ lost' = lost /\ p \in Procs
          /\ req[p].pc = "respond" /\ req[p] \in Request
          /\ req' = [req EXCEPT ![p] = [req[p] EXCEPT !.pc = "commit"]]
      BY <2>1, Facts DEF Respond, Move, Procs
    <2>3. /\ req'[p].pc = "commit" /\ req'[p].new = req[p].new
          /\ \A q \in Procs \ {p} : req'[q] = req[q]
      BY <2>2 DEF IInv, TypeOK, Request
    <2>4. p \in Storing' /\ Storing \subseteq Storing'
      BY <2>2, <2>3 DEF Storing
    <2>5. \A q \in Storing : req'[q] = req[q]
      BY <2>2, <2>3 DEF Storing
    <2> QED
      BY <2>2, <2>3, <2>4, <2>5 DEF ShownKeysStored
  <1>2. CASE \E p \in Procs : Commit(p)
    <2>1. PICK p \in Procs : Commit(p)
      BY <1>2
    <2>2. /\ rows' = Stored(req[p]) /\ shown' = shown /\ lost' = lost
          /\ req[p].pc = "commit"
          /\ \A q \in Procs \ {p} : req'[q] = req[q]
      BY <2>1 DEF Commit, Move, IInv, TypeOK
    <2>3. /\ \A a \in Aliases : rows[a] # None => rows'[a] # None
          /\ req[p].out \in {"create", "rotate"} =>
               rows'[req[p].new] = [ident |-> req[p].ident, active |-> TRUE]
      BY <2>2, StoredRows
    <2>4. SUFFICES ASSUME NEW a \in shown
                   PROVE  \/ rows'[a] # None
                          \/ \E q \in Storing' : req'[q].new = a
                          \/ \E i \in Idents : [alias |-> a, ident |-> i] \in lost
      BY <2>2 DEF ShownKeysStored
    <2>5. a \in Aliases /\ a # None
      BY DEF IInv, TypeOK
    <2>6. CASE rows[a] # None
      BY <2>3, <2>5, <2>6
    <2>7. CASE req[p].new = a
      <3>1. req[p].out \in {"create", "rotate"}
        BY <2>2, <2>5, <2>7 DEF IInv, NewKeysNew
      <3>2. req[p].ident \in Idents
        BY <2>2, <3>1, Facts DEF Fits
      <3>3. [ident |-> req[p].ident, active |-> TRUE] \in [ident : Idents, active : BOOLEAN]
        BY <3>2
      <3> QED
        BY <2>3, <2>7, <3>1, <3>3
    <2>8. CASE \E q \in Storing \ {p} : req[q].new = a
      <3>1. PICK q \in Storing \ {p} : req[q].new = a
        BY <2>8
      <3>2. q \in Storing' /\ req'[q] = req[q]
        BY <2>2, <3>1 DEF Storing
      <3> QED
        BY <3>1, <3>2
    <2> QED
      BY <2>6, <2>7, <2>8 DEF ShownKeysStored
  <1>3. CASE /\ UNCHANGED <<rows, shown>> /\ lost \subseteq lost'
             /\ \A q \in Storing : req'[q] = req[q] \/ RowOf(q) \in lost'
    <2> SUFFICES ASSUME NEW q \in Storing, RowOf(q) \notin lost'
                 PROVE  q \in Storing' /\ req'[q].new = req[q].new
      <3>1. \A q \in Storing : RowOf(q) = [alias |-> req[q].new, ident |-> req[q].ident]
                                /\ req[q].ident \in Idents
        BY StoringRows DEF RowOf, LostRow
      <3> QED
        BY <1>3, <3>1 DEF ShownKeysStored
    <2> QED
      BY <1>3 DEF Storing
  <1> QED
    BY <1>1, <1>2, <1>3, CommitsAlone

\* A working key that a user was shown is listed as active, so that it can be
\* revoked, or will be when get_session has committed; nothing hides it but
\* that commit itself, when it raises or the application dies before it.
THEOREM NothingHidden == Spec => []NoHiddenKeys
  <1>1. Init => ShownKeysStored
    BY DEF Init, ShownKeysStored
  <1>2. IInv /\ ShownKeysStored /\ [Next]_vars => ShownKeysStored'
    BY StoredInv
  <1>3. IInv /\ ShownKeysStored => NoHiddenKeys
    BY DEF IInv, RevokedKeysAreDead, ShownKeysStored, NoHiddenKeys
  <1> QED
    BY <1>1, <1>2, <1>3, Invariance, PTL DEF Spec

------------------------------------------------------------------------------
(* A rotation keeps a key.                                                  *)

\* A step of one request that leaves rows and tokens alone.
LEMMA ServedStep ==
    ASSUME KInv, IInv', NEW p \in Procs, NEW new \in Request, Move(p, new),
           UNCHANGED <<rows, live, shown, lost>>,
           new.kind # "revoke",
           new.new \in {None, req[p].new} \/ new.new \notin shown,
           new.pc \in Minting => new.new \in live,
           new.pc = "commit" => new.out \notin {"create", "rotate"},
           Sure(p) => Sure(p)' /\ new.ident = req[p].ident,
           \A call \in wire' : call.by # p => call \in wire,
           \A call \in wire' : call.by = p => new.pc \in Awaits /\ call = Awaited(p)'
    PROVE  KInv'
  <1>1. \A q \in Procs : req'[q] = IF q = p THEN new ELSE req[q]
    BY DEF Move, KInv, IInv, TypeOK
  <1>2. WireAwaited'
    <2> SUFFICES ASSUME NEW call \in wire'
                 PROVE  req'[call.by].pc \in Awaits /\ call = Awaited(call.by)'
      BY DEF WireAwaited
    <2>1. call.by \in Procs
      BY DEF IInv, TypeOK, Call, Procs
    <2>2. CASE call.by = p
      BY <1>1, <2>2
    <2>3. CASE call.by # p
      <3>1. call = Awaited(call.by) /\ req'[call.by] = req[call.by]
            /\ req[call.by].pc \in Awaits
        BY <1>1, <2>1, <2>3 DEF KInv, WireAwaited
      <3>2. Awaited(call.by)' = Awaited(call.by)
        BY <3>1 DEF Awaited, Awaits, Generate, Delete
      <3> QED
        BY <3>1, <3>2
    <2> QED
      BY <2>2, <2>3
  <1>3. NewKeysWork' /\ NoRevocations'
    BY <1>1 DEF KInv, NewKeysWork, NoRevocations
  <1>4. \A q \in Coroutines : Sure(q) => Sure(q)' /\ req'[q].ident = req[q].ident
    <2> SUFFICES ASSUME NEW q \in Coroutines, Sure(q), q # p
                 PROVE  Sure(q)' /\ req'[q].ident = req[q].ident
      BY <1>1
    <2>1. req'[q] = req[q]
      BY <1>1 DEF Procs
    <2>2. Delete(q, req[q].key) \in wire' => Delete(q, req[q].key) \in wire
      BY DEF Delete
    <2> QED
      BY <2>1, <2>2 DEF Sure
  <1>5. ShownKeysServed'
    BY <1>4 DEF KInv, ShownKeysServed, Served, KeyOf
  <1>6. LostGone'
    BY <1>1 DEF KInv, LostGone, IInv, TypeOK
  <1> QED
    BY <1>2, <1>3, <1>5, <1>6 DEF KInv

\* What is left on the wire of a request whose await ends, or that awaits nothing.
LEMMA NoneLeft ==
    ASSUME KInv, Reliable, NEW p
    PROVE  /\ req[p].pc \notin Awaits => \A call \in wire : call.by # p
           /\ Answered(p) \/ Errs(p) => wire' \subseteq wire /\ \A call \in wire' : call.by # p
           /\ Awaited(p) \notin wire => \A call \in wire : call.by # p
  BY DEF KInv, WireAwaited, Answered, Errs

LEMMA ArrivalsServed ==
    ASSUME KInv, IInv', "revoke" \notin Kinds, Reliable,
           NEW c \in Coroutines, Create(c) \/ Rotate(c) \/ Revoke(c)
    PROVE  KInv'
  <1>1. c \in Procs /\ req[c].pc = "idle" /\ "idle" \notin Awaits
    BY DEF Create, Rotate, Revoke, Procs, Awaits
  <1>2. PICK a \in Aliases, new \in Request :
            /\ new.kind # "revoke" /\ new.pc = "mint" /\ new.new = a /\ a \notin used
            /\ Move(c, new)
            /\ wire' = wire \cup {Generate(c, a)}
            /\ UNCHANGED <<rows, live, shown, lost>>
    <2>1. CASE Create(c)
      <3>1. PICK n \in Names, a \in Aliases \ used :
                /\ Move(c, [NoRequest EXCEPT !.pc = "mint", !.kind = "create",
                                             !.name = n, !.new = a])
                /\ wire' = wire \cup {Generate(c, a)}
        BY <2>1 DEF Create
      <3> DEFINE new == [NoRequest EXCEPT !.pc = "mint", !.kind = "create", !.name = n,
                                          !.new = a]
      <3>2. new \in Request /\ new.kind # "revoke" /\ new.pc = "mint" /\ new.new = a
        BY DEF NoRequest, Request, Pcs, Awaits, Outcomes
      <3> QED
        BY <2>1, <3>1, <3>2 DEF Create
    <2>2. CASE Rotate(c)
      <3>1. PICK k \in Aliases, a \in Aliases \ used :
                /\ rows[k] # None
                /\ Move(c, [NoRequest EXCEPT !.pc = "mint", !.kind = "rotate", !.key = k,
                                             !.ident = rows[k].ident, !.new = a])
                /\ wire' = wire \cup {Generate(c, a)}
        BY <2>2 DEF Rotate
      <3> DEFINE new == [NoRequest EXCEPT !.pc = "mint", !.kind = "rotate", !.key = k,
                                          !.ident = rows[k].ident, !.new = a]
      <3>2. rows[k].ident \in Idents
        BY <3>1 DEF KInv, IInv, TypeOK, KeyRow
      <3>3. new \in Request /\ new.kind # "revoke" /\ new.pc = "mint" /\ new.new = a
        BY <3>2 DEF NoRequest, Request, Pcs, Awaits, Outcomes
      <3> QED
        BY <2>2, <3>1, <3>3 DEF Rotate
    <2> QED
      BY <2>1, <2>2 DEF Revoke
  <1>3. Awaited(c)' = Generate(c, a)
    <2>1. req'[c] = new
      BY <1>1, <1>2 DEF Move, KInv, IInv, TypeOK
    <2> QED
      BY <1>2, <2>1 DEF Awaited, Generate
  <1>4. \A call \in wire : call.by # c
    BY <1>1, NoneLeft
  <1>5. ~Sure(c)
    BY <1>1 DEF Sure
  <1>6. new.pc \in Awaits /\ new.pc \notin Minting /\ new.pc # "commit"
    BY <1>2 DEF Minting, Awaits
  <1>7. /\ \A call \in wire' : call.by # c => call \in wire
        /\ \A call \in wire' : call.by = c => call = Awaited(c)'
    BY <1>2, <1>3, <1>4 DEF Generate
  <1>8. new.new \notin shown
    BY <1>2 DEF KInv, IInv, AliasesUsed
  <1> QED
    BY <1>1, <1>2, <1>5, <1>6, <1>7, <1>8, ServedStep

\* A step that takes a request to pc, its wire cleared or left with a deletion.
LEMMA ServedMove ==
    ASSUME KInv, IInv', Reliable, NEW p \in Coroutines, NEW pc \in Pcs, NEW new \in Request,
           Move(p, new), new.pc = pc,
           new.kind = req[p].kind, new.key = req[p].key, new.new = req[p].new,
           UNCHANGED <<rows, live, shown, lost>>,
           pc \in Minting => req[p].new \in live,
           pc = "commit" => new.out \notin {"create", "rotate"},
           Sure(p) => pc = "respond" /\ new.ident = req[p].ident,
           \A call \in wire' : \/ call.by # p /\ call \in wire
                               \/ pc \in {"dropNew", "cleanup"} /\ call = Delete(p, req[p].new)
                               \/ pc = "dropOld" /\ call = Delete(p, req[p].key)
    PROVE  KInv'
  <1>1. p \in Procs
    BY DEF Procs
  <1>2. req'[p] = new
    BY <1>1 DEF Move, KInv, IInv, TypeOK
  <1>3. /\ pc \in {"dropNew", "cleanup"} => Awaited(p)' = Delete(p, req[p].new)
        /\ pc = "dropOld" => Awaited(p)' = Delete(p, req[p].key)
    BY <1>2 DEF Awaited, Delete
  <1>4. Sure(p) => Sure(p)' /\ new.ident = req[p].ident
    BY <1>2 DEF Sure
  <1>5. new.kind # "revoke"
    BY <1>1 DEF KInv, NoRevocations
  <1>6. /\ \A call \in wire' : call.by # p => call \in wire
        /\ \A call \in wire' : call.by = p => new.pc \in Awaits /\ call = Awaited(p)'
    BY <1>3 DEF Delete, Awaits
  <1>7. /\ new.pc \in Minting => new.new \in live
        /\ new.pc = "commit" => new.out \notin {"create", "rotate"}
    OBVIOUS
  <1> QED
    BY <1>1, <1>4, <1>5, <1>6, <1>7, ServedStep

LEMMA ServedGivesUp ==
    ASSUME KInv, IInv', NEW p \in Procs, Move(p, NoRequest), UNCHANGED <<rows, live, shown, lost>>,
           req[p].pc \notin {"dropOld", "respond", "commit"},
           wire' \subseteq wire, \A call \in wire' : call.by # p
    PROVE  KInv'
  <1>1. /\ NoRequest \in Request /\ NoRequest.kind # "revoke" /\ NoRequest.new = None
        /\ NoRequest.pc \notin Minting /\ NoRequest.pc # "commit"
    BY DEF NoRequest, Request, Pcs, Outcomes, Minting
  <1>2. ~Sure(p)
    BY DEF Sure
  <1> QED
    BY <1>1, <1>2, ServedStep

\* The same for a request with no call left, of which only pc and outcome change.
LEMMA ServedTo ==
    ASSUME KInv, IInv', Reliable, NEW p \in Coroutines, NEW pc \in Pcs, NEW out \in Outcomes,
           Move(p, [req[p] EXCEPT !.pc = pc, !.out = out]),
           UNCHANGED <<rows, live, shown, lost>>,
           pc \in Minting => req[p].new \in live,
           pc = "commit" => out \notin {"create", "rotate"},
           Sure(p) => pc = "respond",
           wire' \subseteq wire, \A call \in wire' : call.by # p
    PROVE  KInv'
  <1> DEFINE new == [req[p] EXCEPT !.pc = pc, !.out = out]
  <1>1. req[p] \in Request
    BY Facts DEF KInv, Procs
  <1>2. /\ new \in Request /\ new.pc = pc /\ new.out = out /\ Move(p, new)
        /\ new.kind = req[p].kind /\ new.key = req[p].key /\ new.new = req[p].new
        /\ new.ident = req[p].ident
    BY <1>1 DEF Request
  <1> HIDE DEF new
  <1> QED
    BY <1>2, ServedMove

\* A step that has the new alias deleted.
LEMMA DropServed ==
    ASSUME KInv, IInv', Reliable, NEW p \in Coroutines, NEW pc \in {"dropNew", "cleanup"},
           Move(p, [req[p] EXCEPT !.pc = pc]), UNCHANGED <<rows, live, shown, lost>>, ~Sure(p),
           \A call \in wire' : \/ call = Delete(p, req[p].new)
                               \/ call.by # p /\ call \in wire
    PROVE  KInv'
  <1> DEFINE new == [req[p] EXCEPT !.pc = pc]
  <1>1. req[p] \in Request /\ pc \in Pcs \ Minting
    BY Facts DEF KInv, Procs, Pcs, Awaits, Minting
  <1>2. /\ new \in Request /\ new.pc = pc /\ Move(p, new)
        /\ new.kind = req[p].kind /\ new.key = req[p].key /\ new.new = req[p].new
    BY <1>1 DEF Request
  <1> HIDE DEF new
  <1> QED
    BY <1>1, <1>2, ServedMove

LEMMA MintServed ==
    ASSUME KInv, IInv', Reliable, NEW p \in Coroutines,
           Minted(p) \/ MintedNothing(p) \/ MintFails(p)
    PROVE  KInv'
  <1>1. /\ p \in Procs /\ req[p].pc = "mint" /\ req[p] \in Request /\ req[p].out \in Outcomes
        /\ Awaited(p) = Generate(p, req[p].new)
    BY Facts DEF KInv, Procs, Minted, MintedNothing, MintFails, Awaited, Request
  <1>2. UNCHANGED <<rows, live, shown, lost>>
    BY DEF Minted, MintedNothing, MintFails
  <1>3. ~Sure(p)
    BY <1>1 DEF Sure
  <1>4. CASE Minted(p)
    <2> DEFINE pc == IF req[p].kind = "create" THEN "findName" ELSE "insertKey"
    <2>1. Move(p, [req[p] EXCEPT !.pc = pc, !.out = req[p].out]) /\ req[p].new \in live
      BY <1>1, <1>4, SameRecord DEF Minted, Answered, Pcs, Running
    <2>2. pc \in Pcs /\ pc # "commit"
      BY DEF Pcs, Running
    <2>3. wire' \subseteq wire /\ \A call \in wire' : call.by # p
      BY <1>4, NoneLeft DEF Minted
    <2>4. req[p].out \in Outcomes
      BY <1>1
    <2> HIDE DEF pc
    <2> QED
      BY <1>2, <1>3, <2>1, <2>2, <2>3, <2>4, ServedTo
  <1>5. CASE MintedNothing(p)
    <2>1. \A call \in wire : call.by # p
      BY <1>1, <1>5, NoneLeft DEF MintedNothing
    <2>2. /\ Move(p, [req[p] EXCEPT !.pc = "dropNew"])
          /\ \A call \in wire' : \/ call = Delete(p, req[p].new)
                                 \/ call.by # p /\ call \in wire
      BY <1>5, <2>1 DEF MintedNothing, DropNew
    <2> QED
      BY <1>2, <1>3, <2>2, DropServed
  <1>6. CASE MintFails(p)
    BY <1>1, <1>2, <1>6, NoneLeft, ServedGivesUp DEF MintFails
  <1> QED
    BY <1>4, <1>5, <1>6

LEMMA IdentServed ==
    ASSUME KInv, IInv', Reliable, NEW p \in Coroutines,
           FindName(p) \/ InsertIdent(p) \/ NameTaken(p)
    PROVE  KInv'
  <1>1. /\ p \in Procs /\ req[p].pc \in {"findName", "insertIdent"} /\ req[p] \in Request
        /\ req[p].out \in Outcomes
        /\ UNCHANGED <<rows, live, shown, lost>>
        /\ ~Sure(p)
        /\ \A call \in wire : call.by # p
    BY Facts, NoneLeft DEF KInv, Procs, FindName, InsertIdent, NameTaken, Sure, Awaits, Request
  <1>2. req[p].new \in live
    BY <1>1 DEF KInv, NewKeysWork, Minting
  <1>3. CASE DropNew(p)
    <2>1. /\ Move(p, [req[p] EXCEPT !.pc = "dropNew"])
          /\ \A call \in wire' : \/ call = Delete(p, req[p].new)
                                 \/ call.by # p /\ call \in wire
      BY <1>1, <1>3 DEF DropNew
    <2> QED
      BY <1>1, <2>1, DropServed
  <1>4. CASE Move(p, [req[p] EXCEPT !.pc = "insertIdent"]) /\ UNCHANGED wire
    <2>1. "insertIdent" \in Pcs
      BY DEF Pcs, Running
    <2>2. Move(p, [req[p] EXCEPT !.pc = "insertIdent", !.out = req[p].out])
      BY <1>1, <1>4, <2>1, SameRecord
    <2>3. wire' \subseteq wire /\ \A call \in wire' : call.by # p
      BY <1>1, <1>4
    <2> QED
      BY <1>1, <1>2, <2>1, <2>2, <2>3, ServedTo
  <1>5. CASE InsertIdent(p)
    <2>1. PICK i \in Idents : Move(p, [req[p] EXCEPT !.pc = "insertKey", !.ident = i])
      BY <1>5 DEF InsertIdent
    <2>2. "insertKey" \in Pcs /\ UNCHANGED wire
      BY <1>5 DEF Pcs, Running, InsertIdent
    <2> DEFINE new == [req[p] EXCEPT !.pc = "insertKey", !.ident = i]
    <2>3. /\ new \in Request /\ new.pc = "insertKey" /\ Move(p, new)
          /\ new.kind = req[p].kind /\ new.key = req[p].key /\ new.new = req[p].new
      BY <1>1, <2>1, <2>2 DEF Request
    <2> HIDE DEF new
    <2> QED
      BY <1>1, <1>2, <2>2, <2>3, ServedMove
  <1> QED
    BY <1>3, <1>4, <1>5 DEF FindName, NameTaken

LEMMA KeyRowServed ==
    ASSUME KInv, IInv', Reliable, NEW p \in Coroutines,
           InsertKey(p) \/ NewDropped(p) \/ CleanedUp(p) \/ CleanupFails(p)
    PROVE  KInv'
  <1>1. /\ p \in Procs /\ req[p] \in Request /\ Fits(req[p]) /\ req[p].out \in Outcomes
        /\ UNCHANGED <<rows, live, shown, lost>>
        /\ ~Sure(p)
    BY Facts DEF KInv, Procs, InsertKey, NewDropped, CleanedUp, CleanupFails, Sure,
                Request
  <1>2. CASE InsertKey(p)
    <2>1. req[p].new \in live /\ \A call \in wire : call.by # p
      BY <1>1, <1>2, NoneLeft DEF KInv, InsertKey, NewKeysWork, Minting, Awaits
    <2>2. "respond" \in Pcs /\ "dropOld" \in Pcs /\ "create" \in Outcomes
      BY DEF Pcs, Awaits, Outcomes
    <2>3. CASE /\ Move(p, [req[p] EXCEPT !.pc = "dropOld"])
               /\ wire' = wire \cup {Delete(p, req[p].key)}
      <3> DEFINE new == [req[p] EXCEPT !.pc = "dropOld"]
      <3>1. /\ new \in Request /\ new.pc = "dropOld" /\ Move(p, new)
            /\ new.kind = req[p].kind /\ new.key = req[p].key /\ new.new = req[p].new
        BY <1>1, <2>2, <2>3 DEF Request
      <3>2. \A call \in wire' : \/ call = Delete(p, req[p].key)
                                \/ call.by # p /\ call \in wire
        BY <2>1, <2>3
      <3> HIDE DEF new
      <3> QED
        BY <1>1, <2>1, <2>2, <3>1, <3>2, ServedMove
    <2>4. CASE Move(p, [req[p] EXCEPT !.pc = "respond", !.out = "create"]) /\ UNCHANGED wire
      <3>1. wire' \subseteq wire /\ \A call \in wire' : call.by # p
        BY <2>1, <2>4
      <3> QED
        BY <1>1, <2>1, <2>2, <2>4, <3>1, ServedTo
    <2> QED
      BY <1>2, <2>3, <2>4 DEF InsertKey
  <1>3. CASE NewDropped(p) \/ CleanedUp(p) \/ CleanupFails(p)
    <2>1. wire' \subseteq wire /\ \A call \in wire' : call.by # p
      BY <1>3, NoneLeft DEF NewDropped, CleanedUp, CleanupFails
    <2>2. "commit" \in Pcs \ Minting /\ "audit" \in Outcomes
      BY DEF Pcs, Outcomes, Minting
    <2>3. CASE Move(p, [req[p] EXCEPT !.pc = "commit"]) /\ req[p].pc \in {"dropNew", "cleanup"}
      <3>1. req[p].out = "none"
        BY <1>1, <2>3 DEF Fits
      <3>2. Move(p, [req[p] EXCEPT !.pc = "commit", !.out = req[p].out])
        BY <1>1, <2>2, <2>3, SameRecord
      <3> QED
        BY <1>1, <2>1, <2>2, <3>1, <3>2, ServedTo
    <2>4. CASE Move(p, [req[p] EXCEPT !.pc = "commit", !.out = "audit"])
      BY <1>1, <2>1, <2>2, <2>4, ServedTo
    <2> QED
      BY <1>3, <2>3, <2>4 DEF NewDropped, CleanedUp, CleanupFails
  <1> QED
    BY <1>2, <1>3

LEMMA OldServed ==
    ASSUME KInv, IInv', Reliable, NEW p \in Coroutines, OldDropped(p) \/ OldDropFails(p)
    PROVE  KInv'
  <1>1. /\ p \in Procs /\ req[p].pc = "dropOld" /\ req[p] \in Request /\ req[p].out \in Outcomes
        /\ UNCHANGED <<rows, live, shown, lost>>
        /\ Awaited(p) = Delete(p, req[p].key)
    BY Facts DEF KInv, Procs, OldDropped, OldDropFails, Awaited, Request
  <1>2. CASE OldDropped(p)
    <2>1. /\ Move(p, [req[p] EXCEPT !.pc = "respond", !.out = "rotate"])
          /\ wire' \subseteq wire /\ \A call \in wire' : call.by # p
      BY <1>2, NoneLeft DEF OldDropped
    <2>2. "respond" \in Pcs /\ "rotate" \in Outcomes
      BY DEF Pcs, Outcomes
    <2>3. req[p].new \in live
      BY <1>1 DEF KInv, NewKeysWork, Minting
    <2> QED
      BY <1>1, <2>1, <2>2, <2>3, ServedTo
  <1>3. CASE OldDropFails(p)
    <2>1. /\ Move(p, [req[p] EXCEPT !.pc = "cleanup"])
          /\ Delete(p, req[p].key) \in wire
          /\ wire' = (wire \ {Delete(p, req[p].key)}) \cup {Delete(p, req[p].new)}
      BY <1>3 DEF OldDropFails
    <2>2. ~Sure(p)
      BY <1>1, <2>1 DEF Sure
    <2>3. \A call \in wire' : \/ call = Delete(p, req[p].new)
                              \/ call.by # p /\ call \in wire
      BY <1>1, <2>1 DEF KInv, WireAwaited
    <2> QED
      BY <1>1, <2>1, <2>2, <2>3, DropServed
  <1> QED
    BY <1>2, <1>3

\* The steps of a request but its page and its commit.
LEMMA StepServed ==
    ASSUME KInv, IInv', Reliable, NEW p \in Coroutines, Step(p), ~Respond(p), ~Commit(p),
           ~CommitFails(p)
    PROVE  KInv'
  <1>1. CASE Minted(p) \/ MintedNothing(p) \/ MintFails(p)
    BY <1>1, MintServed
  <1>2. CASE FindName(p) \/ InsertIdent(p) \/ NameTaken(p)
    BY <1>2, IdentServed
  <1>3. CASE InsertKey(p) \/ NewDropped(p) \/ CleanedUp(p) \/ CleanupFails(p)
    BY <1>3, KeyRowServed
  <1>4. CASE OldDropped(p) \/ OldDropFails(p)
    BY <1>4, OldServed
  <1>5. CASE Misread(p)
    BY <1>5 DEF Misread
  <1>6. CASE KeyDropped(p) \/ KeyDropFails(p) \/ MarkKey(p)
    <2>1. req[p].pc \in {"dropKey", "markKey"} /\ Fits(req[p])
      BY <1>6, Facts DEF KInv, KeyDropped, KeyDropFails, MarkKey, Procs
    <2> QED
      BY <2>1 DEF Fits, KInv, NoRevocations, Procs
  <1>7. CASE Busy(p)
    <2>1. /\ req[p].pc \in {"insertIdent", "insertKey", "markKey", "rename"} /\ p \in Procs
          /\ Move(p, NoRequest) /\ UNCHANGED <<rows, live, shown, lost>> /\ wire' = wire
      BY <1>7 DEF Busy, Procs
    <2>2. \A call \in wire : call.by # p
      BY <2>1, NoneLeft DEF Awaits
    <2> QED
      BY <2>1, <2>2, ServedGivesUp
  <1> QED
    BY <1>1, <1>2, <1>3, <1>4, <1>5, <1>6, <1>7 DEF Step

LEMMA ThreadServed ==
    ASSUME KInv, IInv', NEW t \in Threads,
           Rename(t) \/ RenameIdent(t) \/ RenameTaken(t) \/ Busy(t)
    PROVE  KInv'
  <1>1. t \in Procs /\ t \notin Coroutines /\ req[t].pc \in {"idle", "rename"}
    BY DEF Procs, Rename, RenameIdent, RenameTaken, Busy, KInv, IInv, RequestsFit
  <1>2. /\ wire' = wire /\ UNCHANGED <<rows, live, shown, lost>>
        /\ \A call \in wire : call.by # t
    BY <1>1 DEF Rename, RenameIdent, RenameTaken, Busy, KInv, IInv, TypeOK, Call
  <1>3. CASE Move(t, NoRequest)
    BY <1>1, <1>2, <1>3, ServedGivesUp
  <1>4. CASE Rename(t)
    <2>1. PICK k \in Aliases, n \in Names :
              /\ rows[k] # None
              /\ Move(t, [NoRequest EXCEPT !.pc = "rename", !.kind = "rename",
                                           !.name = n, !.ident = rows[k].ident])
      BY <1>4 DEF Rename
    <2> DEFINE new == [NoRequest EXCEPT !.pc = "rename", !.kind = "rename",
                                        !.name = n, !.ident = rows[k].ident]
    <2>2. rows[k].ident \in Idents
      BY <2>1 DEF KInv, IInv, TypeOK, KeyRow
    <2>3. new \in Request /\ new.kind = "rename" /\ new.pc = "rename" /\ Move(t, new)
          /\ new.new = None
      BY <2>1, <2>2 DEF NoRequest, Request, Pcs, Outcomes
    <2>4. ~Sure(t)
      BY <1>1 DEF Sure
    <2> HIDE DEF new
    <2> QED
      BY <1>1, <1>2, <2>3, <2>4, ServedStep DEF Minting
  <1>5. CASE RenameTaken(t)
    <2> DEFINE new == [req[t] EXCEPT !.pc = "commit"]
    <2>1. req[t] \in Request /\ Fits(req[t]) /\ req[t].pc = "rename"
      BY <1>1, <1>5, Facts DEF KInv, RenameTaken
    <2>2. /\ new \in Request /\ new.kind = "rename" /\ new.pc = "commit" /\ Move(t, new)
          /\ new.new = req[t].new /\ new.out = "none"
      BY <1>5, <2>1 DEF RenameTaken, Request, Pcs, Fits
    <2>3. ~Sure(t)
      BY <1>1 DEF Sure
    <2> HIDE DEF new
    <2> QED
      BY <1>1, <1>2, <2>2, <2>3, ServedStep DEF Minting
  <1> QED
    BY <1>3, <1>4, <1>5 DEF RenameIdent, Busy

\* LiteLLM deletes a key only of a rotation that has a working replacement.
LEMMA HandleServed ==
    ASSUME KInv, IInv', NEW call \in wire, Handle(call)
    PROVE  KInv'
  <1> DEFINE q == call.by
  <1>1. /\ q \in Coroutines /\ q \in Procs /\ call.alias \in Aliases
        /\ req[q].pc \in Awaits /\ call = Awaited(q)
    BY DEF KInv, IInv, TypeOK, Call, Procs, WireAwaited
  <1>2. /\ wire' = wire \ {call} /\ UNCHANGED <<rows, req, shown, lost>>
        /\ live' = IF call.op = "generate" THEN live \cup {call.alias}
                   ELSE live \ {call.alias}
    BY DEF Handle
  <1>3. WireAwaited' /\ NoRevocations' /\ LostGone'
    BY <1>2 DEF KInv, WireAwaited, NoRevocations, Awaited, LostGone
  <1>4. call.op # "generate" =>
            \/ /\ req[q].pc \in {"dropNew", "cleanup"}
               /\ call.alias = req[q].new
            \/ /\ req[q].pc = "dropOld"
               /\ call = Delete(q, req[q].key) /\ call.alias = req[q].key
    <2>1. Fits(req[q]) /\ req[q].pc # "dropKey"
      BY <1>1, Facts DEF KInv, NoRevocations, Fits
    <2> QED
      BY <1>1, <2>1 DEF Awaited, Awaits, Generate, Delete
  <1>5. req[q].pc = "dropOld" =>
            /\ req[q].kind = "rotate" /\ req[q].key \in Aliases
            /\ rows[req[q].key] # None /\ rows[req[q].key].ident = req[q].ident
    BY <1>1, Facts DEF KInv, Fits
  <1>6. req[q].pc \in {"dropNew", "cleanup"} =>
            /\ req[q].new # None
            /\ rows[req[q].new] = None
            /\ \A p \in Procs \ {q} : req[p].new # req[q].new
    BY <1>1, Facts DEF KInv, Fits, HasNew, IInv, NewKeysNew
  <1>7. NewKeysWork'
    <2> SUFFICES ASSUME NEW p \in Procs, \/ req[p].pc \in Minting
                                         \/ /\ req[p].pc = "commit"
                                            /\ req[p].out \in {"create", "rotate"}
                 PROVE  req[p].new \in live'
      BY <1>2 DEF KInv, NewKeysWork
    <2>1. req[p].new \in live /\ req[p].new # None /\ rows[req[p].new] = None
      BY Facts DEF KInv, NewKeysWork, Fits, HasNew, Minting, IInv, NewKeysNew
    <2>2. p = q => req[q].pc = "dropOld"
      BY <1>1 DEF Awaits, Minting
    <2> QED
      BY <1>2, <1>4, <1>5, <1>6, <2>1, <2>2
  <1>8. \A p \in Coroutines : Sure(p) => Sure(p)'
    BY <1>2 DEF Sure, Delete
  <1>9. ShownKeysServed'
    <2> SUFFICES ASSUME NEW a \in shown, rows[a] # None
                 PROVE  Served(rows[a].ident)'
      BY <1>2 DEF ShownKeysServed, Served
    <2>1. Served(rows[a].ident)
      BY DEF KInv, ShownKeysServed
    <2>2. ASSUME NEW b \in shown \cap live, KeyOf(b, rows[a].ident), b \notin live'
          PROVE  Sure(q)' /\ req[q].ident = rows[a].ident
      <3>1. call.op # "generate" /\ b = call.alias
        BY <1>2, <2>2
      <3>2. [alias |-> b, ident |-> rows[a].ident] \in lost => rows[b] = None /\ b # req[q].new
        BY <1>1 DEF KInv, LostGone
      <3>3. req[q].pc = "dropOld" /\ call = Delete(q, req[q].key) /\ b = req[q].key
        BY <1>4, <1>6, <2>2, <3>1, <3>2 DEF KeyOf
      <3>4. rows[b] # None /\ rows[b].ident = rows[a].ident
        BY <1>5, <2>2, <3>2, <3>3 DEF KeyOf
      <3> QED
        BY <1>2, <1>5, <3>3, <3>4 DEF Sure
    <2>3. ASSUME NEW b \in shown \cap live, KeyOf(b, rows[a].ident), b \in live'
          PROVE  b \in shown' \cap live' /\ KeyOf(b, rows[a].ident)'
      BY <1>2, <2>3 DEF KeyOf
    <2> QED
      BY <1>1, <1>2, <1>8, <2>1, <2>2, <2>3 DEF Served
  <1> QED
    BY <1>3, <1>7, <1>9 DEF KInv

LEMMA RespondServed ==
    ASSUME KInv, IInv', Reliable, NEW p \in Coroutines, Respond(p)
    PROVE  KInv'
  <1> DEFINE new == [req[p] EXCEPT !.pc = "commit"]
  <1>1. /\ p \in Procs /\ req[p].pc = "respond" /\ req[p] \in Request /\ Fits(req[p])
        /\ shown' = shown \cup {req[p].new} /\ UNCHANGED <<rows, wire, live, lost>>
        /\ \A q \in Procs : req'[q] = IF q = p THEN new ELSE req[q]
    BY Facts DEF Respond, Move, Procs, KInv, IInv, TypeOK
  <1>2. /\ new.pc = "commit" /\ new.new = req[p].new /\ new.key = req[p].key
        /\ new.kind = req[p].kind /\ new.ident = req[p].ident /\ new.out = req[p].out
    BY <1>1 DEF Request
  <1> HIDE DEF new
  <1>3. req[p].new # None /\ req[p].new \in live /\ rows[req[p].new] = None
    BY <1>1 DEF Fits, HasNew, KInv, NewKeysWork, Minting, IInv, NewKeysNew
  <1>4. \A call \in wire : call.by # p
    BY <1>1, NoneLeft DEF Awaits
  <1>5. WireAwaited'
    <2> SUFFICES ASSUME NEW call \in wire
                 PROVE  req'[call.by].pc \in Awaits /\ call = Awaited(call.by)'
      BY <1>1 DEF WireAwaited
    <2>1. req'[call.by] = req[call.by]
      BY <1>1, <1>4 DEF KInv, IInv, TypeOK, Call, Procs
    <2>2. req[call.by].pc \in Awaits /\ call = Awaited(call.by)
      BY DEF KInv, WireAwaited
    <2> QED
      BY <2>1, <2>2 DEF Awaited, Generate, Delete
  <1>6. NewKeysWork'
    BY <1>1, <1>2, <1>3 DEF KInv, NewKeysWork, Minting
  <1>7. NoRevocations'
    BY <1>1, <1>2 DEF KInv, NoRevocations
  <1>8. \A q \in Coroutines : Sure(q) => Sure(q)' /\ req'[q].ident = req[q].ident
    <2>1. CASE req[p].kind = "rotate"
      <3>1. req[p].out = "rotate"
        BY <1>1, <2>1 DEF Fits
      <3> QED
        BY <1>1, <1>2, <3>1 DEF Sure, Procs
    <2>2. CASE req[p].kind # "rotate"
      BY <1>1, <1>2, <2>2 DEF Sure, Procs
    <2> QED
      BY <2>1, <2>2
  <1>9. ShownKeysServed'
    <2> SUFFICES ASSUME NEW a \in shown, rows[a] # None
                 PROVE  Served(rows[a].ident)'
      BY <1>1, <1>3 DEF ShownKeysServed, Served
    <2>1. Served(rows[a].ident)
      BY DEF KInv, ShownKeysServed
    <2> QED
      BY <1>1, <1>8, <2>1 DEF Served, KeyOf
  <1>10. LostGone'
    BY <1>1, <1>2 DEF KInv, LostGone
  <1> QED
    BY <1>5, <1>6, <1>7, <1>9, <1>10 DEF KInv

LEMMA CommitServed ==
    ASSUME KInv, IInv', Reliable, NEW p \in Procs, Commit(p)
    PROVE  KInv'
  <1>1. /\ req[p].pc = "commit" /\ Fits(req[p])
        /\ rows' = Stored(req[p]) /\ UNCHANGED <<wire, live, shown, lost>>
        /\ \A q \in Procs : req'[q] = IF q = p THEN NoRequest ELSE req[q]
    BY Facts DEF Commit, Move, KInv, IInv, TypeOK
  <1>2. /\ \A a \in Aliases : rows[a] # None => rows'[a] # None /\ rows'[a].ident = rows[a].ident
        /\ \A a \in Aliases : rows[a] = None /\ rows'[a] # None =>
             a = req[p].new /\ req[p].out \in {"create", "rotate", "audit"}
        /\ req[p].out \in {"create", "rotate"} =>
             rows'[req[p].new] = [ident |-> req[p].ident, active |-> TRUE]
    BY <1>1, StoredRows DEF KInv
  <1>3. NoRequest.pc = "idle" /\ NoRequest.kind = "none" /\ NoRequest.new = None
    BY DEF NoRequest
  <1>4. \A call \in wire : call.by # p
    BY <1>1, NoneLeft DEF Awaits
  <1>5. WireAwaited'
    <2> SUFFICES ASSUME NEW call \in wire
                 PROVE  req'[call.by].pc \in Awaits /\ call = Awaited(call.by)'
      BY <1>1 DEF WireAwaited
    <2>1. req'[call.by] = req[call.by]
      BY <1>1, <1>4 DEF KInv, IInv, TypeOK, Call, Procs
    <2>2. req[call.by].pc \in Awaits /\ call = Awaited(call.by)
      BY DEF KInv, WireAwaited
    <2> QED
      BY <2>1, <2>2 DEF Awaited, Generate, Delete
  <1>6. NewKeysWork' /\ NoRevocations'
    BY <1>1, <1>3 DEF KInv, NewKeysWork, Minting, NoRevocations
  <1>7. \A q \in Coroutines \ {p} : Sure(q) => Sure(q)' /\ req'[q].ident = req[q].ident
    BY <1>1 DEF Sure, Procs
  <1>8. ASSUME req[p].out \in {"create", "rotate"}, NEW i \in Idents, i = req[p].ident
        PROVE  Served(i)'
    <2>1. req[p].new \in shown' \cap live'
      BY <1>1, <1>8 DEF KInv, NewKeysWork
    <2>2. [ident |-> i, active |-> TRUE] \in [ident : Idents, active : BOOLEAN]
      OBVIOUS
    <2>3. rows'[req[p].new] = [ident |-> i, active |-> TRUE]
      BY <1>2, <1>8
    <2>4. PICK b \in shown' \cap live' : rows'[b] = [ident |-> i, active |-> TRUE]
      BY <2>1, <2>3
    <2>5. rows'[b] # None
      BY <2>2, <2>4
    <2>6. rows'[b].ident = i
      BY <2>4
    <2> QED
      BY <2>5, <2>6 DEF Served, KeyOf
  <1>9. ShownKeysServed'
    <2> SUFFICES ASSUME NEW a \in shown, rows'[a] # None, NEW i, i = rows'[a].ident
                 PROVE  Served(i)'
      BY <1>1 DEF ShownKeysServed
    <2>1. a \in Aliases /\ i \in Idents
      BY DEF KInv, IInv, TypeOK, KeyRow
    <2>2. CASE rows[a] = None
      <3>1. a = req[p].new /\ a # None
        BY <1>2, <2>1, <2>2
      <3>2. req[p].out \in {"create", "rotate"}
        BY <1>1, <3>1 DEF KInv, IInv, NewKeysNew
      <3>3. i = req[p].ident
        BY <1>2, <3>1, <3>2
      <3> QED
        BY <1>8, <2>1, <3>2, <3>3
    <2>3. CASE rows[a] # None
      <3>1. rows[a].ident = i /\ Served(i)
        BY <1>2, <2>1, <2>3 DEF KInv, ShownKeysServed
      <3>2. ASSUME NEW b \in shown \cap live, KeyOf(b, i)
            PROVE  Served(i)'
        BY <1>1, <1>2, <3>2 DEF Served, KeyOf, KInv, IInv, TypeOK
      <3>3. ASSUME Sure(p), req[p].ident = i PROVE Served(i)'
        BY <1>1, <1>8, <2>1, <3>3 DEF Sure
      <3>4. ASSUME NEW q \in Coroutines \ {p}, Sure(q), req[q].ident = i PROVE Served(i)'
        BY <1>7, <3>4 DEF Served
      <3> QED
        BY <3>1, <3>2, <3>3, <3>4 DEF Served
    <2> QED
      BY <2>2, <2>3
  <1>10. LostGone'
    <2> SUFFICES ASSUME NEW x \in lost
                 PROVE  rows'[x.alias] = None /\ \A q \in Procs : req'[q].new # x.alias
      BY <1>1 DEF KInv, LostGone
    <2>1. x.alias \in Aliases /\ x.alias # None
      BY DEF KInv, IInv, TypeOK, LostRow
    <2>2. rows[x.alias] = None /\ \A q \in Procs : req[q].new # x.alias
      BY DEF KInv, LostGone
    <2> QED
      BY <1>1, <1>2, <1>3, <2>1, <2>2
  <1> QED
    BY <1>5, <1>6, <1>9, <1>10 DEF KInv

\* A failed commit takes the new row with it, but not the working key.
LEMMA CommitFailsServed ==
    ASSUME KInv, IInv', Reliable, NEW p \in Procs, CommitFails(p)
    PROVE  KInv'
  <1>1. /\ Fits(req[p]) /\ UNCHANGED <<rows, wire, live, shown>>
        /\ Move(p, NoRequest) /\ req[p].pc \in {"commit", "insertIdent", "rename"}
        /\ lost' = lost \cup {RowOf(q) : q \in Storing \cap {p}}
        /\ \A q \in Procs : req'[q] = IF q = p THEN NoRequest ELSE req[q]
    BY Facts DEF CommitFails, Move, KInv, IInv, TypeOK
  <1>2. \A call \in wire : call.by # p
    BY <1>1, NoneLeft DEF Awaits
  <1>3. CASE p \notin Storing /\ req[p].pc # "commit"
    <2>1. lost' = lost
      BY <1>1, <1>3
    <2> QED
      BY <1>1, <1>2, <1>3, <2>1, ServedGivesUp
  <1>4. CASE req[p].pc = "commit"
    <2>1. NoRequest.pc = "idle" /\ NoRequest.kind = "none" /\ NoRequest.new = None
      BY DEF NoRequest
    <2>2. WireAwaited'
      <3> SUFFICES ASSUME NEW call \in wire
                   PROVE  req'[call.by].pc \in Awaits /\ call = Awaited(call.by)'
        BY <1>1 DEF WireAwaited
      <3>1. req'[call.by] = req[call.by]
        BY <1>1, <1>2 DEF KInv, IInv, TypeOK, Call, Procs
      <3>2. req[call.by].pc \in Awaits /\ call = Awaited(call.by)
        BY DEF KInv, WireAwaited
      <3> QED
        BY <3>1, <3>2 DEF Awaited, Generate, Delete
    <2>3. NewKeysWork' /\ NoRevocations'
      BY <1>1, <2>1 DEF KInv, NewKeysWork, Minting, NoRevocations
    <2>4. Sure(p) => /\ p \in Storing /\ req[p].new \in shown \cap live
                     /\ RowOf(p) = [alias |-> req[p].new, ident |-> req[p].ident]
                     /\ RowOf(p) \in lost'
      BY <1>1, <1>4 DEF Sure, Storing, KInv, NewKeysWork, RowOf
    <2>5. \A q \in Coroutines \ {p} : Sure(q) => Sure(q)' /\ req'[q].ident = req[q].ident
      BY <1>1 DEF Sure, Procs
    <2>6. ShownKeysServed'
      <3> SUFFICES ASSUME NEW a \in shown, rows[a] # None
                   PROVE  Served(rows[a].ident)'
        BY <1>1 DEF ShownKeysServed, Served, KeyOf
      <3>1. Served(rows[a].ident)
        BY DEF KInv, ShownKeysServed
      <3>2. ASSUME NEW b \in shown \cap live, KeyOf(b, rows[a].ident)
            PROVE  Served(rows[a].ident)'
        BY <1>1, <3>2 DEF Served, KeyOf
      <3>3. ASSUME Sure(p), req[p].ident = rows[a].ident
            PROVE  Served(rows[a].ident)'
        BY <1>1, <2>4, <3>3 DEF Served, KeyOf
      <3> QED
        BY <1>1, <2>5, <3>1, <3>2, <3>3 DEF Served
    <2>7. LostGone'
      <3> SUFFICES ASSUME NEW x \in lost'
                   PROVE  /\ x.alias \in shown /\ rows[x.alias] = None
                          /\ \A q \in Procs : req'[q].new # x.alias
        BY <1>1 DEF LostGone
      <3>1. CASE x \in lost
        <4>1. x.alias # None
          BY <3>1 DEF KInv, IInv, TypeOK, LostRow
        <4> QED
          BY <1>1, <2>1, <3>1, <4>1 DEF KInv, LostGone
      <3>2. CASE x \notin lost
        <4>1. p \in Storing /\ x = RowOf(p)
          BY <1>1, <3>2
        <4>2. x.alias = req[p].new
          BY <4>1 DEF RowOf
        <4>3. req[p].new # None /\ req[p].new \in shown
          BY <4>1 DEF Storing, KInv, IInv, TypeOK
        <4> QED
          BY <1>1, <2>1, <4>2, <4>3 DEF KInv, IInv, NewKeysNew
      <3> QED
        BY <3>1, <3>2
    <2> QED
      BY <2>2, <2>3, <2>6, <2>7 DEF KInv
  <1> QED
    BY <1>1, <1>3, <1>4 DEF Storing

LEMMA NextServed ==
    ASSUME Reliable, ~MayCrash, "revoke" \notin Kinds
    PROVE  KInv /\ [Next]_vars => KInv'
  <1> SUFFICES ASSUME KInv, [Next]_vars PROVE KInv'
    OBVIOUS
  <1>1. IInv'
    BY NextInv DEF KInv
  <1>2. ASSUME NEW c \in Coroutines, Create(c) \/ Rotate(c) \/ Revoke(c) PROVE KInv'
    BY <1>1, <1>2, ArrivalsServed
  <1>3. ASSUME NEW c \in Coroutines, Step(c) PROVE KInv'
    BY <1>1, <1>3, StepServed, RespondServed, CommitServed, CommitFailsServed DEF Procs
  <1>4. ASSUME NEW t \in Threads, Rename(t) \/ ThreadStep(t) PROVE KInv'
    BY <1>1, <1>4, ThreadServed, CommitServed, CommitFailsServed DEF Procs, ThreadStep
  <1>5. ASSUME NEW call \in wire, Handle(call) PROVE KInv'
    BY <1>1, <1>5, HandleServed
  <1>6. CASE UNCHANGED vars
    <2>1. WireAwaited' /\ NewKeysWork' /\ NoRevocations'
      BY <1>6 DEF vars, KInv, WireAwaited, Awaited, NewKeysWork, NoRevocations
    <2>2. ShownKeysServed'
      BY <1>6 DEF vars, KInv, ShownKeysServed, Served, Sure, KeyOf
    <2>3. LostGone'
      BY <1>6 DEF vars, KInv, LostGone
    <2> QED
      BY <1>1, <2>1, <2>2, <2>3 DEF KInv
  <1>7. ~Crash
    BY DEF Crash
  <1> QED
    BY <1>2, <1>3, <1>4, <1>5, <1>6, <1>7 DEF Next

\* A user who was shown a key of an identity is never without a working one
\* while it is rotated, by any number of rotations at once (rotate_key mints
\* first and deletes after), also when a rotation's commit fails; given that a
\* failed call has had no effect, that nobody revokes the identity's keys, and
\* that the application does not die.
THEOREM RotationsKeepAKey ==
    ASSUME Reliable, ~MayCrash, "revoke" \notin Kinds
    PROVE  Spec => []RotationKeepsAKey
  <1>1. Init => KInv
    <2>1. Init => WireAwaited /\ NewKeysWork /\ NoRevocations /\ ShownKeysServed /\ LostGone
      BY DEF Init, WireAwaited, NewKeysWork, NoRevocations, ShownKeysServed, LostGone,
             Minting, NoRequest
    <2> QED
      BY <2>1, InitInv DEF KInv
  <1>2. KInv /\ [Next]_vars => KInv'
    BY NextServed
  <1>3. KInv => RotationKeepsAKey
    <2> SUFFICES ASSUME KInv, NEW a \in shown, rows[a] # None,
                        ~ \E b \in shown \cap live : KeyOf(b, rows[a].ident)
                 PROVE  \E p \in Coroutines :
                            Replacing(p) /\ req[p].ident = rows[a].ident /\ req[p].new \in live
      BY DEF RotationKeepsAKey
    <2>1. PICK p \in Coroutines : Sure(p) /\ req[p].ident = rows[a].ident
      BY DEF KInv, ShownKeysServed, Served
    <2>2. Replacing(p) /\ req[p].new \in live
      BY <2>1 DEF Sure, Replacing, KInv, NewKeysWork, Minting, Procs
    <2> QED
      BY <2>1, <2>2
  <1> QED
    BY <1>1, <1>2, <1>3, PTL DEF Spec

------------------------------------------------------------------------------
(* The requests keep what KeyRegister promises.                             *)

\* An identity that a row or a request names has a name, which it keeps or
\* changes for another one: the foreign key, and no identity is deleted.
IdentsNamed ==
    /\ \A a \in Aliases : rows[a] # None => names[rows[a].ident] # None
    /\ \A p \in Procs : req[p].ident # None => names[req[p].ident] # None

\* A rotation commits after its page has gone out.
ReplacementsShown ==
    \A p \in Procs : req[p].pc = "commit" /\ req[p].out = "rotate" => req[p].new \in shown

\* What a request's own step does to the identity it names, and how it comes
\* to commit a rotation.
LEMMA StepNames ==
    ASSUME IInv, NEW c \in Coroutines, Step(c)
    PROVE  /\ \A p \in Procs \ {c} : req'[p] = req[p]
           /\ \/ req'[c].ident \in {None, req[c].ident}
              \/ names'[req'[c].ident] # None
           /\ req'[c].pc = "commit" /\ req'[c].out = "rotate" => req'[c].new \in shown'
  <1>1. /\ c \in Procs /\ req \in [Procs -> Request] /\ req[c] \in Request /\ Fits(req[c])
        /\ req[c].new # None => req[c].new \in used
    BY Facts DEF Procs, IInv, TypeOK
  <1>2. NoRequest.ident = None /\ NoRequest.pc = "idle"
    BY DEF NoRequest
  <1>11. ASSUME NEW pc, NEW out, Move(c, [req[c] EXCEPT !.pc = pc, !.out = out])
         PROVE  /\ \A p \in Procs \ {c} : req'[p] = req[p]
                /\ req'[c].ident = req[c].ident /\ req'[c].pc = pc /\ req'[c].out = out
    <2>1. /\ \A p \in Procs \ {c} : req'[p] = req[p]
          /\ req'[c] = [req[c] EXCEPT !.pc = pc, !.out = out]
      BY <1>1, <1>11 DEF Move
    <2> QED
      BY <1>1, <2>1 DEF Request
  <1>3. CASE Minted(c) \/ MintedNothing(c) \/ MintFails(c) \/ FindName(c)
    BY <1>1, <1>2, <1>3 DEF Minted, MintedNothing, MintFails, FindName, DropNew, Move, Request
  <1>4. CASE InsertIdent(c)
    <2>1. PICK i \in Idents :
              /\ names' = [names EXCEPT ![i] = req[c].name]
              /\ Move(c, [req[c] EXCEPT !.pc = "insertKey", !.ident = i])
      BY <1>4 DEF InsertIdent
    <2>2. req[c].name # None /\ names \in [Idents -> Names \cup {None}]
      BY <1>1, <1>4 DEF InsertIdent, Fits, IInv, TypeOK
    <2>3. req'[c] = [req[c] EXCEPT !.pc = "insertKey", !.ident = i]
      BY <1>1, <2>1 DEF Move
    <2>4. req'[c].ident = i /\ req'[c].pc = "insertKey" /\ names'[i] = req[c].name
      BY <1>1, <2>1, <2>2, <2>3 DEF Request
    <2>5. \A p \in Procs \ {c} : req'[p] = req[p]
      BY <1>1, <2>1 DEF Move
    <2> QED
      BY <2>2, <2>4, <2>5
  <1>5. CASE NameTaken(c) \/ InsertKey(c) \/ KeyDropFails(c) \/ CommitFails(c) \/ Busy(c)
    <2>1. CASE NameTaken(c)
      BY <1>1, <2>1 DEF NameTaken, DropNew, Move, Request
    <2>3. CASE InsertKey(c) /\ req[c].kind = "rotate"
      BY <1>1, <2>3 DEF InsertKey, Move, Request
    <2>4. CASE InsertKey(c) /\ req[c].kind # "rotate"
      <3>1. Move(c, [req[c] EXCEPT !.pc = "respond", !.out = "create"])
        BY <2>4 DEF InsertKey
      <3> QED
        BY <1>11, <3>1
    <2>2. CASE KeyDropFails(c) \/ CommitFails(c) \/ Busy(c)
      BY <1>1, <1>2, <2>2 DEF KeyDropFails, CommitFails, Busy, Move
    <2> QED
      BY <1>5, <2>1, <2>2, <2>3, <2>4
  <1>10. CASE MarkKey(c)
    <2>1. req[c].out # "rotate"
      BY <1>1, <1>10 DEF Fits, MarkKey
    <2> QED
      BY <1>1, <1>10, <2>1 DEF MarkKey, Move, Request
  <1>6. CASE OldDropFails(c)
    BY <1>1, <1>6 DEF OldDropFails, Move, Request
  <1>7. CASE NewDropped(c) \/ OldDropped(c) \/ CleanedUp(c) \/ CleanupFails(c) \/ Misread(c)
    <2>1. req[c].pc \in {"dropNew", "cleanup"} => req[c].out = "none"
      BY <1>1 DEF Fits
    <2>2. CASE NewDropped(c) \/ CleanedUp(c)
      BY <1>1, <2>1, <2>2 DEF NewDropped, CleanedUp, Move, Request
    <2>3. CASE OldDropped(c)
      BY <1>1, <2>3 DEF OldDropped, Move, Request
    <2>4. CASE CleanupFails(c) \/ Misread(c)
      <3>1. \E out \in {"audit", "create"} :
                Move(c, [req[c] EXCEPT !.pc = "commit", !.out = out])
        BY <2>4 DEF CleanupFails, Misread
      <3> QED
        BY <1>11, <3>1
    <2> QED
      BY <1>7, <2>2, <2>3, <2>4
  <1>8. CASE KeyDropped(c)
    <2>1. req[c].pc = "dropKey" => req[c].out # "rotate"
      BY <1>1 DEF Fits
    <2> QED
      BY <1>1, <1>8, <2>1 DEF KeyDropped, Move, Request
  <1>9. CASE Respond(c) \/ Commit(c)
    BY <1>1, <1>2, <1>9 DEF Respond, Commit, Move, Request
  <1> QED
    BY <1>3, <1>4, <1>5, <1>6, <1>7, <1>8, <1>9, <1>10, <1>1 DEF Step

\* The same of every step of the system.
LEMMA RequestNames ==
    ASSUME IInv, [Next]_vars, NEW p \in Procs
    PROVE  /\ \/ req'[p].ident \in {None, req[p].ident}
              \/ \E k \in Aliases : rows[k] # None /\ req'[p].ident = rows[k].ident
              \/ names'[req'[p].ident] # None
           /\ \/ req'[p] = req[p]
              \/ req'[p].pc = "commit" /\ req'[p].out = "rotate" => req'[p].new \in shown'
  <1>1. req \in [Procs -> Request]
    BY DEF IInv, TypeOK
  <1>2. NoRequest.ident = None /\ NoRequest.pc = "idle"
    BY DEF NoRequest
  <1>3. ASSUME NEW c \in Procs, NEW q, Move(c, q), p # c PROVE req'[p] = req[p]
    BY <1>1, <1>3 DEF Move
  <1>4. ASSUME NEW c \in Procs, Create(c) \/ Revoke(c) \/ Rotate(c) \/ Rename(c), p = c
        PROVE  /\ req'[p].pc # "commit"
               /\ \/ req'[p].ident = None
                  \/ \E k \in Aliases : rows[k] # None /\ req'[p].ident = rows[k].ident
    <2>1. ASSUME NEW q, Move(c, q) PROVE req'[p] = q
      BY <1>1, <1>4, <2>1 DEF Move
    <2>2. CASE Create(c)
      BY <2>1, <2>2 DEF Create, NoRequest
    <2>3. CASE Revoke(c)
      <3>1. PICK k \in Aliases :
                Move(c, [NoRequest EXCEPT !.pc = "dropKey", !.kind = "revoke", !.key = k,
                             !.out = IF rows[k].active THEN "revoke" ELSE "none"])
        BY <2>3 DEF Revoke
      <3>2. req'[p] = [NoRequest EXCEPT !.pc = "dropKey", !.kind = "revoke", !.key = k,
                           !.out = IF rows[k].active THEN "revoke" ELSE "none"]
        BY <2>1, <3>1
      <3> QED
        BY <3>2 DEF NoRequest
    <2>4. CASE Rotate(c)
      BY <2>1, <2>4 DEF Rotate, NoRequest
    <2>5. CASE Rename(c)
      BY <2>1, <2>5 DEF Rename, NoRequest
    <2> QED
      BY <1>4, <2>2, <2>3, <2>4, <2>5
  <1>10. ASSUME NEW c \in Procs, Create(c) \/ Revoke(c) \/ Rotate(c) \/ Rename(c), p # c
         PROVE  req'[p] = req[p]
    BY <1>3, <1>10 DEF Create, Revoke, Rotate, Rename
  <1>5. ASSUME NEW c \in Coroutines, Step(c)
        PROVE  /\ req'[p].ident \in {None, req[p].ident} \/ names'[req'[p].ident] # None
               /\ \/ req'[p] = req[p]
                  \/ req'[p].pc = "commit" /\ req'[p].out = "rotate" => req'[p].new \in shown'
    BY <1>5, StepNames
  <1>6. ASSUME NEW t \in Threads, ThreadStep(t)
        PROVE  \/ req'[p] = req[p] \/ req'[p] = NoRequest
               \/ req'[p].ident = req[p].ident /\ req'[p].out # "rotate"
    <2>1. CASE RenameTaken(t)
      <3>1. req[t].pc = "rename" /\ req[t].out # "rotate" /\ req[t] \in Request /\ t \in Procs
        BY <2>1, Facts DEF RenameTaken, Fits, Procs
      <3>2. \A q \in Procs :
                req'[q] = IF q = t THEN [req[t] EXCEPT !.pc = "commit"] ELSE req[q]
        BY <1>1, <2>1, <3>1 DEF RenameTaken, Move
      <3> QED
        BY <3>1, <3>2 DEF Request
    <2>2. CASE RenameIdent(t) \/ Commit(t) \/ CommitFails(t) \/ Busy(t)
      BY <1>1, <2>2 DEF RenameIdent, Commit, CommitFails, Busy, Move, Procs
    <2> QED
      BY <1>6, <2>1, <2>2 DEF ThreadStep
  <1>7. ASSUME NEW call \in wire, Handle(call) PROVE req' = req
    BY <1>7 DEF Handle
  <1>8. CASE Crash
    BY <1>2, <1>8 DEF Crash
  <1>9. CASE UNCHANGED vars
    BY <1>9 DEF vars
  <1> QED
    BY <1>2, <1>3, <1>4, <1>5, <1>6, <1>7, <1>8, <1>9, <1>10 DEF Next, Procs

\* Rows change when a transaction commits, and then as its request says.
LEMMA RowsWritten ==
    ASSUME IInv, [Next]_vars
    PROVE  rows' = rows \/ \E p \in Procs : Commit(p)
  <1>1. ASSUME NEW c \in Coroutines, Create(c) \/ Rotate(c) \/ Revoke(c) \/ Step(c)
        PROVE  rows' = rows \/ Commit(c)
    BY <1>1 DEF Create, Rotate, Revoke, Step, Minted, MintedNothing, MintFails, FindName,
                InsertIdent, NameTaken, InsertKey, NewDropped, OldDropped, OldDropFails,
                CleanedUp, CleanupFails, Misread, KeyDropped, KeyDropFails, MarkKey, Respond,
                CommitFails, Busy
  <1> QED
    BY <1>1 DEF Next, vars, Procs, Rename, ThreadStep, RenameIdent, RenameTaken, CommitFails,
                Busy, Handle, Crash

LEMMA InitNamed == Init => IdentsNamed /\ ReplacementsShown
  BY DEF Init, IdentsNamed, ReplacementsShown, NoRequest

LEMMA NextNamed ==
    IInv /\ IdentsNamed /\ ReplacementsShown /\ [Next]_vars =>
        IdentsNamed' /\ ReplacementsShown'
  <1> SUFFICES ASSUME IInv, IdentsNamed, ReplacementsShown, [Next]_vars
               PROVE  IdentsNamed' /\ ReplacementsShown'
    OBVIOUS
  <1>1. \A i \in Idents : names[i] # None => names'[i] # None
    BY NamesWritten DEF IInv, TypeOK
  <1>2. /\ \A a \in Aliases : rows[a] # None => rows[a].ident \in Idents
        /\ \A p \in Procs : req[p].ident \in Idents \cup {None}
    BY DEF IInv, TypeOK, KeyRow, Request
  <1>3. ASSUME NEW a \in Aliases, rows'[a] # None PROVE names'[rows'[a].ident] # None
    <2>1. CASE rows' = rows
      BY <1>1, <1>2, <1>3, <2>1 DEF IdentsNamed
    <2>2. ASSUME NEW p \in Procs, Commit(p) PROVE names'[rows'[a].ident] # None
      <3>1. p \in Procs /\ req[p].pc = "commit" /\ rows' = Stored(req[p])
        BY <2>2 DEF Commit, Procs
      <3>2. CASE rows[a] # None
        BY <1>1, <1>2, <3>1, <3>2, StoredRows DEF IdentsNamed
      <3>3. CASE rows[a] = None
        <4>1. a = req[p].new /\ req[p].out \in {"create", "rotate", "audit"}
          BY <1>3, <3>1, <3>3, StoredRows
        <4>2. req[p].ident \in Idents
          BY <3>1, <4>1, Facts DEF Fits
        <4>3. rows'[a].ident = req[p].ident
          <5>1. CASE req[p].out = "audit"
            <6>1. rows' = [rows EXCEPT ![a] = [ident |-> req[p].ident, active |-> FALSE]]
              BY <3>1, <4>1, <5>1 DEF Stored
            <6>2. rows \in [Aliases -> KeyRow \cup {None}]
              BY DEF IInv, TypeOK
            <6> QED
              BY <6>1, <6>2
          <5>2. CASE req[p].out \in {"create", "rotate"}
            <6>1. rows'[a] = [ident |-> req[p].ident, active |-> TRUE]
              BY <3>1, <4>1, <5>2, StoredRows
            <6> QED
              BY <6>1
          <5> QED
            BY <4>1, <5>1, <5>2
        <4> QED
          BY <1>1, <3>1, <4>2, <4>3 DEF IdentsNamed
      <3> QED
        BY <3>2, <3>3
    <2> QED
      BY <2>1, <2>2, RowsWritten
  <1>4. ASSUME NEW p \in Procs, req'[p].ident # None PROVE names'[req'[p].ident] # None
    BY <1>1, <1>2, <1>4, RequestNames DEF IdentsNamed
  <1>5. shown \subseteq shown'
    <2>1. \A p \in Procs : CommitFails(p) => shown' = shown
      BY DEF CommitFails
    <2>2. ASSUME NEW c \in Coroutines, Create(c) \/ Rotate(c) \/ Revoke(c) \/ Step(c)
          PROVE  shown \subseteq shown'
      BY <2>1, <2>2 DEF Create, Rotate, Revoke, Step, Minted, MintedNothing, MintFails, FindName,
                  InsertIdent, NameTaken, InsertKey, NewDropped, OldDropped, OldDropFails,
                  CleanedUp, CleanupFails, Misread, KeyDropped, KeyDropFails, MarkKey, Respond,
                  Commit, Busy, Procs
    <2>3. ASSUME NEW t \in Threads, Rename(t) \/ ThreadStep(t)
          PROVE  shown \subseteq shown'
      BY <2>1, <2>3 DEF Rename, ThreadStep, RenameIdent, RenameTaken, Commit, Busy, Procs
    <2>4. CASE (\E call \in wire : Handle(call)) \/ Crash \/ UNCHANGED vars
      <3>1. CASE Crash
        BY <3>1 DEF Crash
      <3> QED
        BY <2>4, <3>1 DEF Handle, vars
    <2> QED
      BY <2>2, <2>3, <2>4 DEF Next
  <1>6. ReplacementsShown'
    BY <1>5, RequestNames DEF ReplacementsShown
  <1> QED
    BY <1>3, <1>4, <1>6 DEF IdentsNamed

\* A commit is the register's Store, Replace or Retire, or changes nothing.
LEMMA CommitRegisters ==
    ASSUME IInv, IdentsNamed, ReplacementsShown, NEW p \in Procs, Commit(p)
    PROVE  [Register!Next]_<<names, rows, live, shown>>
  <1> DEFINE q == req[p]
  <1>1. /\ p \in Procs /\ q \in Request /\ Fits(q) /\ q.pc = "commit"
        /\ rows' = Stored(q)
        /\ UNCHANGED <<names, live, shown>>
    BY Facts DEF Commit, Procs
  <1>2. /\ q.out \in {"create", "rotate", "audit"} =>
               /\ q.new \in Aliases /\ q.ident \in Idents
               /\ rows[q.new] = None
               /\ names[q.ident] # None
        /\ q.out \in {"rotate", "revoke"} =>
               q.key \in Aliases /\ rows[q.key] # None /\ q.key \notin live
        /\ q.out = "rotate" => rows[q.key].ident = q.ident /\ q.new \in shown
        /\ q.out = "audit" => q.new \notin shown
    BY <1>1, Facts DEF Fits, IInv, NewKeysNew, DropsFirst, IdentsNamed, ReplacementsShown
  <1>3. CASE q.out = "none"
    BY <1>1, <1>3 DEF Stored
  <1>4. CASE q.out \in {"create", "audit"}
    <2>1. rows' = [rows EXCEPT ![q.new] = [ident |-> q.ident, active |-> q.out # "audit"]]
      BY <1>1, <1>4 DEF Stored
    <2> HIDE DEF q
    <2>2. q.new \in shown => (q.out # "audit")
      BY <1>2
    <2> DEFINE active == q.out # "audit"
    <2>3. active \in BOOLEAN
      OBVIOUS
    <2>4. rows' = [rows EXCEPT ![q.new] = [ident |-> q.ident, active |-> active]]
      BY <2>1
    <2>5. q.new \in shown => active
      BY <2>2
    <2> HIDE DEF active
    <2>6. Register!Store
      <3>1. q.new \in Aliases /\ q.ident \in Idents /\ rows[q.new] = None /\ names[q.ident] # None
        BY <1>2, <1>4
      <3> QED
        BY <1>1, <2>3, <2>4, <2>5, <3>1, Zenon DEF Register!Store
    <2> QED
      BY <2>6 DEF Register!Next
  <1>5. CASE q.out = "rotate"
    <2>1. rows' = [rows EXCEPT ![q.new] = [ident |-> rows[q.key].ident, active |-> TRUE],
                               ![q.key].active = FALSE]
      BY <1>1, <1>2, <1>5 DEF Stored, Revoked
    <2> HIDE DEF q
    <2>2. Register!Replace
      BY <1>1, <1>2, <1>5, <2>1 DEF Register!Replace
    <2> QED
      BY <2>2 DEF Register!Next
  <1>6. CASE q.out = "revoke"
    <2>1. rows' = [rows EXCEPT ![q.key].active = FALSE]
      BY <1>1, <1>6 DEF Stored, Revoked
    <2> HIDE DEF q
    <2>2. Register!Retire
      BY <1>1, <1>2, <1>6, <2>1 DEF Register!Retire
    <2> QED
      BY <2>2 DEF Register!Next
  <1> QED
    BY <1>1, <1>3, <1>4, <1>5, <1>6 DEF Request, Outcomes

LEMMA NextRegisters ==
    IInv /\ IdentsNamed /\ ReplacementsShown /\ [Next]_vars =>
        [Register!Next]_<<names, rows, live, shown>>
  <1> SUFFICES ASSUME IInv, IdentsNamed, ReplacementsShown, [Next]_vars
               PROVE  [Register!Next]_<<names, rows, live, shown>>
    OBVIOUS
  <1>1. CASE \E p \in Procs : Commit(p)
    BY <1>1, CommitRegisters
  <1>2. CASE \E p \in Coroutines : Respond(p)
    <2>1. PICK p \in Coroutines : Respond(p)
      BY <1>2
    <2>2. p \in Procs /\ req[p].new \in Aliases
      BY <2>1, Facts DEF Respond, Fits, HasNew, Procs
    <2>3. rows[req[p].new] = None
      BY <2>2 DEF IInv, NewKeysNew
    <2>4. Register!Show
      BY <2>1, <2>2, <2>3 DEF Respond, Register!Show
    <2> QED
      BY <2>4 DEF Register!Next
  <1>3. CASE \E call \in wire : Handle(call)
    <2>1. PICK call \in wire : Handle(call)
      BY <1>3
    <2>2. call.alias \in Aliases
      BY DEF IInv, TypeOK, Call
    <2>3. CASE call.op = "generate"
      <3>1. rows[call.alias] = None /\ call.alias \notin shown
        BY <2>3 DEF IInv, MintsPending
      <3>2. Register!Mint
        BY <2>1, <2>2, <2>3, <3>1 DEF Handle, Register!Mint
      <3> QED
        BY <3>2 DEF Register!Next
    <2>4. CASE call.op # "generate" /\ call.alias \in live
      <3>1. Register!Die
        BY <2>1, <2>4 DEF Handle, Register!Die
      <3> QED
        BY <3>1 DEF Register!Next
    <2>5. CASE call.op # "generate" /\ call.alias \notin live
      <3>1. live' = live
        BY <2>1, <2>5 DEF Handle
      <3> QED
        BY <2>1, <3>1 DEF Handle
    <2> QED
      BY <2>3, <2>4, <2>5
  <1>4. CASE UNCHANGED <<rows, live, shown>>
    <2>1. CASE names' = names
      BY <1>4, <2>1
    <2>2. ASSUME NEW i \in Idents, NEW n \in Names,
                 ~Taken(n), names' = [names EXCEPT ![i] = n]
          PROVE  Register!Next
      <3>1. Register!Name
        BY <1>4, <2>2 DEF Register!Name, Taken
      <3> QED
        BY <3>1 DEF Register!Next
    <2> QED
      BY <2>1, <2>2, NamesWritten
  <1>5. ASSUME NEW c \in Coroutines, Create(c) \/ Rotate(c) \/ Revoke(c) \/ Step(c),
               ~Commit(c), ~Respond(c)
        PROVE  UNCHANGED <<rows, live, shown>>
    BY <1>5 DEF Create, Rotate, Revoke, Step, Minted, MintedNothing, MintFails, FindName,
                InsertIdent, NameTaken, InsertKey, NewDropped, OldDropped, OldDropFails,
                CleanedUp, CleanupFails, Misread, KeyDropped, KeyDropFails, MarkKey, CommitFails, Busy
  <1>6. ASSUME NEW t \in Threads, Rename(t) \/ ThreadStep(t), ~Commit(t)
        PROVE  UNCHANGED <<rows, live, shown>>
    BY <1>6 DEF Rename, ThreadStep, RenameIdent, RenameTaken, CommitFails, Busy
  <1>7. CASE Crash \/ UNCHANGED vars
    BY <1>4, <1>7 DEF Crash, vars
  <1> QED
    BY <1>1, <1>2, <1>3, <1>4, <1>5, <1>6, <1>7 DEF Next, Procs

\* However requests, crashes, failed commits, lock waits and LiteLLM's late
\* answers interleave, what becomes of names, rows and tokens is a life of keys
\* as KeyRegister has it: a token is made, shown, stored and retired in that
\* order and once, and stored only under a name (create_key_for_user,
\* rotate_key, revoke_key).
THEOREM RequestsKeepTheRegister == Spec => RegisterSpec
  <1>1. Init => Register!Init
    BY DEF Init, Register!Init
  <1>2. Spec => [](IdentsNamed /\ ReplacementsShown)
    BY InitNamed, NextNamed, Invariance, PTL DEF Spec
  <1> QED
    BY <1>1, <1>2, NextRegisters, Invariance, PTL DEF Spec, RegisterSpec, Register!Spec,
       Register!registerVars
=============================================================================
