------------------------------ MODULE KeyProofs ------------------------------
(***************************************************************************)
(* Proofs about KeyRequests, for any number of requests, names and keys,   *)
(* and for every way a call to LiteLLM can fail: types, unique names, and  *)
(* that a key listed as gone is dead.                                      *)
(***************************************************************************)
EXTENDS KeyRequests, TLAPS

USE KeysAssumption

\* From its mint to the page that shows it, a request has a new alias.
HasNew == {"mint", "findName", "insertIdent", "insertKey", "dropNew", "dropOld", "cleanup",
           "respond"}

\* A request's fields by how far it is.
Fits(q) ==
    /\ q.pc = "idle" => q = NoRequest
    /\ q.kind = "none" => q = NoRequest
    /\ q.kind \in {"create", "rename"} => q.name \in Names /\ q.key = None
    /\ q.kind \in {"revoke", "rename"} => q.new = None
    /\ q.kind \in {"rotate", "revoke"} => q.key \in Aliases
    /\ q.kind \in {"rotate", "rename"} => q.ident \in Idents
    /\ q.pc \in HasNew => q.kind \in {"create", "rotate"} /\ q.new \in Aliases
    /\ q.pc \in {"findName", "insertIdent"} => q.kind = "create"
    /\ q.pc \in {"dropOld", "cleanup"} => q.kind = "rotate"
    /\ q.pc \in {"dropKey", "markKey"} => q.kind = "revoke"
    /\ q.pc = "rename" => q.kind = "rename"
    /\ q.pc \in {"insertKey", "cleanup"} => q.ident \in Idents
    /\ q.out # "none" => q.pc \in {"respond", "commit", "dropKey", "markKey"}
    /\ q.pc = "respond" => q.out = IF q.kind = "create" THEN "create" ELSE "rotate"
    /\ q.pc = "markKey" => q.out = "revoke"
    /\ q.out \in {"create", "rotate", "audit"} =>
           q.kind \in {"create", "rotate"} /\ q.new \in Aliases /\ q.ident \in Idents
    /\ q.out \in {"rotate", "audit"} => q.kind = "rotate"
    /\ q.out = "revoke" => q.kind = "revoke"

RequestsFit ==
    /\ \A p \in Procs : Fits(req[p])
    /\ \A t \in Threads : req[t].pc \in {"idle", "rename", "commit"}

\* The key a request is about has a row, which rows never stop having.
KeysHaveRows ==
    \A p \in Procs : req[p].key # None =>
        /\ rows[req[p].key] # None
        /\ req[p].kind = "rotate" => rows[req[p].key].ident = req[p].ident

\* An alias is one request's, has no row before its commit, and is shown only
\* when all that is left to do is to commit its row as an active one.
NewKeysNew ==
    \A p \in Procs : req[p].new # None =>
        /\ req[p].new \in used
        /\ rows[req[p].new] = None
        /\ \A q \in Procs \ {p} : req[q].new # req[p].new
        /\ req[p].new \in shown => req[p].pc = "commit" /\ req[p].out \in {"create", "rotate"}

\* What has been made an alias is never made one again.
AliasesUsed ==
    /\ \A a \in Aliases : rows[a] # None => a \in used
    /\ shown \subseteq used
    /\ \A call \in wire : call.alias \in used

\* A mint on its way, awaited or forgotten, is of a key that nobody has yet.
MintsPending ==
    \A call \in wire : call.op = "generate" =>
        /\ rows[call.alias] = None
        /\ call.alias \notin shown
        /\ \A p \in Procs : req[p].new = call.alias => p = call.by /\ req[p].pc = "mint"

\* A key is dead before its row is marked: its deletion is on the wire until
\* it takes effect.
DropsFirst ==
    \A p \in Procs :
        /\ req[p].pc \in {"dropOld", "dropKey"} =>
               Delete(p, req[p].key) \in wire \/ req[p].key \notin live
        /\ req[p].pc \in {"respond", "markKey", "commit"} /\ req[p].out \in {"rotate", "revoke"} =>
               req[p].key \notin live

IInv ==
    /\ TypeOK
    /\ RequestsFit
    /\ KeysHaveRows
    /\ NewKeysNew
    /\ AliasesUsed
    /\ MintsPending
    /\ DropsFirst
    /\ RevokedKeysAreDead

------------------------------------------------------------------------------
(* What one request does by itself.                                         *)

LEMMA InitInv == Init => IInv
  <1> SUFFICES ASSUME Init PROVE IInv
    OBVIOUS
  <1>1. NoRequest \in Request /\ Fits(NoRequest)
    BY DEF NoRequest, Request, Pcs, Outcomes, Fits, HasNew
  <1>2. TypeOK
    BY <1>1 DEF Init, TypeOK
  <1>3. RequestsFit
    BY <1>1 DEF Init, RequestsFit, Procs, NoRequest
  <1>4. KeysHaveRows /\ NewKeysNew /\ DropsFirst
    BY DEF Init, KeysHaveRows, NewKeysNew, DropsFirst, Procs, NoRequest
  <1> QED
    BY <1>2, <1>3, <1>4 DEF Init, IInv, AliasesUsed, MintsPending, RevokedKeysAreDead

\* A step of one request that leaves keys alone keeps the invariant, if it
\* fits, takes only its own calls from the wire and adds only deletions.
LEMMA QuietStep ==
    ASSUME IInv, NEW p \in Procs, NEW new \in Request, Move(p, new), Fits(new),
           p \in Threads => new.pc \in {"idle", "rename", "commit"},
           names' \in [Idents -> Names \cup {None}], lock' \in Procs \cup {None},
           UNCHANGED <<rows, live, used, shown>>, lost' \subseteq LostRow,
           req[p].pc = "commit" => new.new = None,
           new.new # None => new.new = req[p].new /\ Generate(p, new.new) \notin wire',
           new.key # None => /\ rows[new.key] # None
                             /\ new.kind = "rotate" => rows[new.key].ident = new.ident,
           \A call \in wire' \ wire : call \in Call /\ call.op = "delete" /\ call.alias \in used,
           \A call \in wire \ wire' : call.by = p,
           new.pc \in {"dropOld", "dropKey"} => Delete(p, new.key) \in wire' \/ new.key \notin live,
           new.pc \in {"respond", "markKey", "commit"} /\ new.out \in {"rotate", "revoke"} =>
               new.key \notin live
    PROVE  IInv'
  <1>1. \A q \in Procs : req'[q] = IF q = p THEN new ELSE req[q]
    BY DEF Move, IInv, TypeOK
  <1>2. TypeOK'
    BY DEF Move, IInv, TypeOK
  <1>3. RequestsFit'
    BY <1>1 DEF IInv, RequestsFit, Procs
  <1>4. KeysHaveRows'
    BY <1>1 DEF IInv, KeysHaveRows
  <1>5. NewKeysNew'
    BY <1>1 DEF IInv, NewKeysNew
  <1>6. AliasesUsed'
    BY DEF IInv, AliasesUsed
  <1>7. MintsPending'
    <2> SUFFICES ASSUME NEW call \in wire', call.op = "generate"
                 PROVE  /\ rows[call.alias] = None
                        /\ call.alias \notin shown
                        /\ \A q \in Procs : req'[q].new = call.alias =>
                               q = call.by /\ req'[q].pc = "mint"
      BY DEF MintsPending
    <2>1. call \in wire /\ call.alias \in Aliases /\ call.alias # None
      BY DEF IInv, TypeOK, Call
    <2>2. ASSUME new.new = call.alias PROVE FALSE
      <3>1. p = call.by
        BY <2>1, <2>2 DEF IInv, MintsPending
      <3>2. call = Generate(p, new.new)
        BY <2>1, <2>2, <3>1 DEF IInv, TypeOK, Call, Generate
      <3> QED
        BY <2>1, <2>2, <3>2
    <2> QED
      BY <1>1, <2>1, <2>2 DEF IInv, MintsPending
  <1>8. DropsFirst'
    <2> SUFFICES ASSUME NEW q \in Procs \ {p}, req[q].pc \in {"dropOld", "dropKey"},
                        req[q].key \in live
                 PROVE  Delete(q, req[q].key) \in wire'
      BY <1>1 DEF IInv, DropsFirst
    <2>1. Delete(q, req[q].key) \in wire
      BY DEF IInv, DropsFirst
    <2> QED
      BY <2>1 DEF Delete
  <1>9. RevokedKeysAreDead'
    BY DEF IInv, RevokedKeysAreDead
  <1> QED
    BY <1>2, <1>3, <1>4, <1>5, <1>6, <1>7, <1>8, <1>9 DEF IInv

\* What holds of any request under way.
LEMMA Facts ==
    ASSUME IInv, NEW p \in Procs
    PROVE  /\ req[p] \in Request /\ Fits(req[p])
           /\ req[p].key # None => /\ rows[req[p].key] # None
                                   /\ req[p].kind = "rotate" =>
                                          rows[req[p].key].ident = req[p].ident
           /\ req[p].new # None => req[p].new \in used
           /\ req[p].key # None => req[p].key \in used
           /\ req[p].pc # "mint" /\ req[p].new # None => Generate(p, req[p].new) \notin wire
  <1>1. req[p] \in Request /\ Fits(req[p])
    BY DEF IInv, TypeOK, RequestsFit
  <1>2. req[p].key # None => req[p].key \in used
    BY <1>1 DEF IInv, KeysHaveRows, AliasesUsed, Request
  <1>3. req[p].pc # "mint" /\ req[p].new # None => Generate(p, req[p].new) \notin wire
    BY DEF IInv, MintsPending, Generate
  <1> QED
    BY <1>1, <1>2, <1>3 DEF IInv, KeysHaveRows, NewKeysNew

LEMMA GivesUp ==
    ASSUME IInv, NEW p \in Procs, Move(p, NoRequest),
           UNCHANGED <<rows, live, used, shown>>, lost' \subseteq LostRow,
           names' \in [Idents -> Names \cup {None}], lock' \in Procs \cup {None},
           wire' \subseteq wire, \A call \in wire \ wire' : call.by = p
    PROVE  IInv'
  <1>1. NoRequest \in Request /\ Fits(NoRequest)
    BY DEF NoRequest, Request, Pcs, Outcomes, Fits, HasNew
  <1>2. NoRequest.new = None /\ NoRequest.key = None /\ NoRequest.pc = "idle"
    BY DEF NoRequest
  <1> QED
    BY <1>1, <1>2, QuietStep

\* What an awaited call can have come to.
LEMMA Await ==
    ASSUME IInv, NEW p \in Coroutines, Answered(p) \/ Errs(p)
    PROVE  /\ wire' \subseteq wire
           /\ \A call \in wire \ wire' : call.by = p
           /\ Answered(p) => wire' = wire /\ Awaited(p) \notin wire
  <1>1. req[p].pc \in Awaits => Awaited(p).by = p
    BY DEF Awaits, Awaited, Generate, Delete
  <1> QED
    BY <1>1 DEF Answered, Errs

\* A step that takes a request under way to pc, with the outcome out.
LEMMA Proceed ==
    ASSUME IInv, NEW p \in Coroutines, NEW pc \in Pcs, NEW out \in Outcomes,
           Move(p, [req[p] EXCEPT !.pc = pc, !.out = out]),
           Fits([req[p] EXCEPT !.pc = pc, !.out = out]),
           names' = names, lock' \in Procs \cup {None},
           UNCHANGED <<rows, live, used, shown, lost>>,
           req[p].pc # "commit", pc # "mint",
           req[p].new # None => Generate(p, req[p].new) \notin wire',
           \A call \in wire' \ wire : call \in Call /\ call.op = "delete" /\ call.alias \in used,
           \A call \in wire \ wire' : call.by = p,
           pc \in {"dropOld", "dropKey"} =>
               Delete(p, req[p].key) \in wire' \/ req[p].key \notin live,
           pc \in {"respond", "markKey", "commit"} /\ out \in {"rotate", "revoke"} =>
               req[p].key \notin live
    PROVE  IInv'
  <1> DEFINE new == [req[p] EXCEPT !.pc = pc, !.out = out]
  <1>1. p \in Procs /\ p \notin Threads
    BY DEF Procs
  <1>0. req[p] \in Request
    BY <1>1, Facts
  <1>2. new \in Request
    BY <1>0 DEF Request
  <1>3. /\ new.pc = pc /\ new.out = out /\ new.new = req[p].new /\ new.key = req[p].key
        /\ new.kind = req[p].kind /\ new.ident = req[p].ident
    BY <1>0 DEF Request
  <1>4. Fits(new) /\ Move(p, new)
    OBVIOUS
  <1> HIDE DEF new
  <1> QED
    BY <1>1, <1>2, <1>3, <1>4, Facts, QuietStep DEF IInv, TypeOK

\* The same, where the outcome stays what it is.
LEMMA SameRecord ==
    ASSUME NEW q \in Request, NEW pc \in Pcs
    PROVE  [q EXCEPT !.pc = pc] = [q EXCEPT !.pc = pc, !.out = q.out]
  BY DEF Request

\* Deletions a request may ask for.
LEMMA DeleteCalls ==
    ASSUME IInv, NEW p \in Coroutines
    PROVE  /\ req[p].new # None => /\ Delete(p, req[p].new) \in Call
                                   /\ Delete(p, req[p].new).alias \in used
           /\ req[p].key # None => /\ Delete(p, req[p].key) \in Call
                                   /\ Delete(p, req[p].key).alias \in used
           /\ \A a : /\ Delete(p, a).op = "delete" /\ Delete(p, a).by = p
                     /\ \A b : Delete(p, a) # Generate(p, b)
  <1>1. p \in Procs
    BY DEF Procs
  <1> QED
    BY <1>1, Facts DEF Delete, Generate, Call, Request

LEMMA MintedInv == ASSUME IInv, NEW p \in Coroutines, Minted(p) PROVE IInv'
  <1> DEFINE pc == IF req[p].kind = "create" THEN "findName" ELSE "insertKey"
  <1>1. p \in Procs /\ req[p].pc = "mint" /\ req[p] \in Request /\ Fits(req[p])
    BY Facts DEF Procs, Minted
  <1>2. Move(p, [req[p] EXCEPT !.pc = pc, !.out = req[p].out])
    BY <1>1, SameRecord DEF Minted, Pcs, Running
  <1>3. Generate(p, req[p].new) \notin wire
    BY <1>1 DEF Minted, Answered, Awaited
  <1>4. Fits([req[p] EXCEPT !.pc = pc, !.out = req[p].out])
    BY <1>1 DEF Request, Fits, HasNew, NoRequest
  <1>5. pc \in {"findName", "insertKey"} /\ pc \in Pcs /\ req[p].out \in Outcomes
    BY <1>1 DEF Pcs, Running, Request
  <1>6. req[p].out = "none"
    BY <1>1 DEF Fits
  <1>7. UNCHANGED <<names, rows, lock, wire, live, used, shown, lost>>
    BY DEF Minted, Answered
  <1> HIDE DEF pc
  <1> QED
    BY <1>1, <1>2, <1>3, <1>4, <1>5, <1>6, <1>7, Proceed DEF IInv, TypeOK

LEMMA MintFailsInv == ASSUME IInv, NEW p \in Coroutines, MintFails(p) PROVE IInv'
  BY Await, GivesUp DEF MintFails, Procs, IInv, TypeOK

\* The alias is to be deleted again.
LEMMA DropNewInv ==
    ASSUME IInv, NEW p \in Coroutines, DropNew(p),
           req[p].pc \in {"mint", "findName", "insertIdent"},
           Generate(p, req[p].new) \notin wire,
           lock' \in Procs \cup {None}, UNCHANGED <<names, rows, live, used, shown, lost>>
    PROVE  IInv'
  <1>1. p \in Procs /\ req[p] \in Request /\ Fits(req[p])
    BY Facts DEF Procs
  <1>2. Move(p, [req[p] EXCEPT !.pc = "dropNew", !.out = req[p].out])
    BY <1>1, SameRecord DEF DropNew, Pcs, Awaits
  <1>3. Fits([req[p] EXCEPT !.pc = "dropNew", !.out = req[p].out])
    BY <1>1 DEF Request, Fits, HasNew, NoRequest
  <1>4. req[p].new # None
    BY <1>1 DEF Fits, HasNew
  <1>5. "dropNew" \in Pcs /\ req[p].out \in Outcomes
    BY <1>1 DEF Pcs, Awaits, Request
  <1>6. wire' = wire \cup {Delete(p, req[p].new)}
    BY DEF DropNew
  <1>7. /\ Generate(p, req[p].new) \notin wire'
        /\ \A call \in wire' \ wire : call \in Call /\ call.op = "delete" /\ call.alias \in used
        /\ \A call \in wire \ wire' : call.by = p
    BY <1>4, <1>6, DeleteCalls
  <1>8. req[p].pc # "commit" /\ names' = names
    OBVIOUS
  <1>9. UNCHANGED <<rows, live, used, shown, lost>>
    OBVIOUS
  <1>10. req[p].out = "none"
    BY <1>1 DEF Fits
  <1> QED
    BY <1>2, <1>3, <1>5, <1>7, <1>8, <1>9, <1>10, Proceed

LEMMA MintedNothingInv == ASSUME IInv, NEW p \in Coroutines, MintedNothing(p) PROVE IInv'
  BY DropNewInv DEF MintedNothing, IInv, TypeOK

LEMMA FindNameInv == ASSUME IInv, NEW p \in Coroutines, FindName(p) PROVE IInv'
  <1>1. p \in Procs /\ req[p].pc = "findName" /\ req[p] \in Request /\ Fits(req[p])
    BY Facts DEF Procs, FindName
  <1>2. req[p].new # None /\ Generate(p, req[p].new) \notin wire
    BY <1>1, Facts DEF Fits, HasNew
  <1>3. CASE DropNew(p)
    BY <1>1, <1>2, <1>3, DropNewInv DEF FindName, IInv, TypeOK
  <1>4. CASE Move(p, [req[p] EXCEPT !.pc = "insertIdent"]) /\ UNCHANGED wire
    <2>1. Move(p, [req[p] EXCEPT !.pc = "insertIdent", !.out = req[p].out])
      BY <1>1, <1>4, SameRecord DEF Pcs, Running
    <2>2. Fits([req[p] EXCEPT !.pc = "insertIdent", !.out = req[p].out])
      BY <1>1 DEF Request, Fits, HasNew, NoRequest
    <2>3. "insertIdent" \in Pcs /\ req[p].out \in Outcomes
      BY <1>1 DEF Pcs, Running, Request
    <2> QED
      BY <1>1, <1>2, <1>4, <2>1, <2>2, <2>3, Proceed DEF FindName, IInv, TypeOK
  <1> QED
    BY <1>3, <1>4 DEF FindName

LEMMA InsertIdentInv == ASSUME IInv, NEW p \in Coroutines, InsertIdent(p) PROVE IInv'
  <1>1. p \in Procs /\ p \notin Threads /\ req[p].pc = "insertIdent" /\ req[p] \in Request
        /\ Fits(req[p])
    BY Facts DEF Procs, InsertIdent
  <1>2. PICK i \in Idents :
            /\ names' = [names EXCEPT ![i] = req[p].name]
            /\ Move(p, [req[p] EXCEPT !.pc = "insertKey", !.ident = i])
    BY DEF InsertIdent
  <1> DEFINE new == [req[p] EXCEPT !.pc = "insertKey", !.ident = i]
  <1>3. /\ new.pc = "insertKey" /\ new.out = "none" /\ new.new = req[p].new
        /\ new.key = req[p].key /\ new.kind = "create" /\ req[p].kind = "create"
    BY <1>1 DEF Request, Fits
  <1>4. new \in Request /\ Fits(new)
    BY <1>1 DEF Request, Pcs, Running, Fits, HasNew, NoRequest
  <1>5. names' \in [Idents -> Names \cup {None}]
    BY <1>1, <1>2 DEF IInv, TypeOK, Request
  <1>6. Move(p, new) /\ UNCHANGED <<rows, lock, wire, live, used, shown, lost>>
    BY <1>2 DEF InsertIdent
  <1> HIDE DEF new
  <1> QED
    BY <1>1, <1>3, <1>4, <1>5, <1>6, Facts, QuietStep DEF IInv, TypeOK

LEMMA NameTakenInv == ASSUME IInv, NEW p \in Coroutines, NameTaken(p) PROVE IInv'
  <1>1. p \in Procs /\ req[p].pc = "insertIdent" /\ Fits(req[p])
    BY Facts DEF Procs, NameTaken
  <1>2. Generate(p, req[p].new) \notin wire
    BY <1>1, Facts DEF Fits, HasNew
  <1> QED
    BY <1>1, <1>2, DropNewInv DEF NameTaken

LEMMA InsertKeyInv == ASSUME IInv, NEW p \in Coroutines, InsertKey(p) PROVE IInv'
  <1>1. p \in Procs /\ req[p].pc = "insertKey" /\ req[p] \in Request /\ Fits(req[p])
    BY Facts DEF Procs, InsertKey
  <1>2. req[p].new # None /\ Generate(p, req[p].new) \notin wire
    BY <1>1, Facts DEF Fits, HasNew
  <1>3. lock' \in Procs \cup {None} /\ UNCHANGED <<names, rows, live, used, shown, lost>>
    BY <1>1 DEF InsertKey
  <1>4. CASE req[p].kind = "rotate"
    <2>1. Move(p, [req[p] EXCEPT !.pc = "dropOld", !.out = req[p].out])
      BY <1>1, <1>4, SameRecord DEF InsertKey, Pcs, Awaits
    <2>2. Fits([req[p] EXCEPT !.pc = "dropOld", !.out = req[p].out])
      BY <1>1, <1>4 DEF Request, Fits, HasNew, NoRequest
    <2>3. "dropOld" \in Pcs /\ req[p].out \in Outcomes /\ req[p].out = "none"
      BY <1>1 DEF Pcs, Awaits, Request, Fits
    <2>4. wire' = wire \cup {Delete(p, req[p].key)} /\ req[p].key # None
      BY <1>1, <1>4 DEF InsertKey, Fits
    <2>5. /\ Generate(p, req[p].new) \notin wire'
          /\ \A call \in wire' \ wire : call \in Call /\ call.op = "delete" /\ call.alias \in used
          /\ \A call \in wire \ wire' : call.by = p
          /\ Delete(p, req[p].key) \in wire'
      BY <1>2, <2>4, DeleteCalls
    <2> QED
      BY <1>1, <1>3, <2>1, <2>2, <2>3, <2>5, Proceed
  <1>5. CASE req[p].kind # "rotate"
    <2>1. Move(p, [req[p] EXCEPT !.pc = "respond", !.out = "create"]) /\ UNCHANGED wire
      BY <1>5 DEF InsertKey
    <2>2. Fits([req[p] EXCEPT !.pc = "respond", !.out = "create"])
      BY <1>1, <1>5 DEF Request, Fits, HasNew, NoRequest
    <2>3. "respond" \in Pcs /\ "create" \in Outcomes
      BY DEF Pcs, Outcomes
    <2> QED
      BY <1>1, <1>2, <1>3, <2>1, <2>2, <2>3, Proceed
  <1> QED
    BY <1>4, <1>5

\* An await that ends takes the request to its next place.
LEMMA AwaitEnds ==
    ASSUME IInv, NEW p \in Coroutines, Answered(p) \/ Errs(p), req[p].pc # "mint",
           NEW pc \in {"respond", "commit", "markKey"}, NEW out \in Outcomes,
           Move(p, [req[p] EXCEPT !.pc = pc, !.out = out]),
           Fits([req[p] EXCEPT !.pc = pc, !.out = out]),
           out \in {"rotate", "revoke"} =>
               Answered(p) /\ req[p].pc \in {"dropOld", "dropKey"},
           UNCHANGED <<names, rows, lock, live, used, shown, lost>>
    PROVE  IInv'
  <1>1. p \in Procs /\ req[p].pc \in Awaits
    BY DEF Procs, Answered, Errs
  <1>2. /\ wire' \subseteq wire
        /\ \A call \in wire \ wire' : call.by = p
        /\ Answered(p) => Awaited(p) \notin wire
    BY Await
  <1>3. ASSUME out \in {"rotate", "revoke"} PROVE req[p].key \notin live
    <2>1. Awaited(p) = Delete(p, req[p].key)
      BY <1>3 DEF Awaited
    <2> QED
      BY <1>1, <1>2, <1>3, <2>1 DEF IInv, DropsFirst
  <1>4. req[p].new # None => Generate(p, req[p].new) \notin wire'
    BY <1>1, <1>2, Facts
  <1>5. pc \in Pcs /\ pc \notin {"mint", "dropOld", "dropKey"} /\ req[p].pc # "commit"
    BY <1>1 DEF Pcs, Running, Awaits
  <1>6. lock' \in Procs \cup {None}
    BY DEF IInv, TypeOK
  <1> QED
    BY <1>2, <1>3, <1>4, <1>5, <1>6, Proceed

LEMMA NewDroppedInv == ASSUME IInv, NEW p \in Coroutines, NewDropped(p) PROVE IInv'
  <1>1. p \in Procs /\ req[p].pc = "dropNew" /\ req[p] \in Request /\ Fits(req[p])
    BY Facts DEF Procs, NewDropped
  <1>2. Move(p, [req[p] EXCEPT !.pc = "commit", !.out = req[p].out])
    BY <1>1, SameRecord DEF NewDropped, Pcs
  <1>3. Fits([req[p] EXCEPT !.pc = "commit", !.out = req[p].out])
    BY <1>1 DEF Request, Fits, HasNew, NoRequest
  <1>4. req[p].out \in Outcomes /\ req[p].out = "none"
    BY <1>1 DEF Request, Fits
  <1> QED
    BY <1>1, <1>2, <1>3, <1>4, AwaitEnds DEF NewDropped

LEMMA OldDroppedInv == ASSUME IInv, NEW p \in Coroutines, OldDropped(p) PROVE IInv'
  <1>1. p \in Procs /\ req[p].pc = "dropOld" /\ req[p] \in Request /\ Fits(req[p])
    BY Facts DEF Procs, OldDropped
  <1>2. Fits([req[p] EXCEPT !.pc = "respond", !.out = "rotate"])
    BY <1>1 DEF Request, Fits, HasNew, NoRequest
  <1> QED
    BY <1>1, <1>2, AwaitEnds DEF OldDropped, Outcomes

LEMMA OldDropFailsInv == ASSUME IInv, NEW p \in Coroutines, OldDropFails(p) PROVE IInv'
  <1>1. p \in Procs /\ req[p].pc = "dropOld" /\ req[p] \in Request /\ Fits(req[p])
    BY Facts DEF Procs, OldDropFails
  <1>2. req[p].new # None /\ Generate(p, req[p].new) \notin wire
    BY <1>1, Facts DEF Fits, HasNew
  <1>3. Move(p, [req[p] EXCEPT !.pc = "cleanup", !.out = req[p].out])
    BY <1>1, SameRecord DEF OldDropFails, Pcs, Awaits
  <1>4. Fits([req[p] EXCEPT !.pc = "cleanup", !.out = req[p].out])
    BY <1>1 DEF Request, Fits, HasNew, NoRequest
  <1>5. "cleanup" \in Pcs /\ req[p].out \in Outcomes /\ req[p].out = "none"
    BY <1>1 DEF Pcs, Awaits, Request, Fits
  <1>6. PICK w \in {wire, wire \ {Delete(p, req[p].key)}} :
            wire' = w \cup {Delete(p, req[p].new)}
    BY DEF OldDropFails
  <1>7. /\ Generate(p, req[p].new) \notin wire'
        /\ \A call \in wire' \ wire : call \in Call /\ call.op = "delete" /\ call.alias \in used
        /\ \A call \in wire \ wire' : call.by = p
    BY <1>2, <1>6, DeleteCalls
  <1>8. lock' \in Procs \cup {None} /\ UNCHANGED <<names, rows, live, used, shown, lost>>
    BY DEF OldDropFails, IInv, TypeOK
  <1> QED
    BY <1>1, <1>3, <1>4, <1>5, <1>7, <1>8, Proceed

LEMMA CleanupInv ==
    ASSUME IInv, NEW p \in Coroutines, CleanedUp(p) \/ CleanupFails(p) \/ Misread(p)
    PROVE  IInv'
  <1>1. p \in Procs /\ req[p].pc \in {"dropOld", "cleanup"} /\ req[p] \in Request
        /\ Fits(req[p])
    BY Facts DEF Procs, CleanedUp, CleanupFails, Misread
  <1>2. \A out \in {"none", "audit", "create"} :
            (out = "create" \/ req[p].pc = "cleanup") =>
                Fits([req[p] EXCEPT !.pc = "commit", !.out = out])
    BY <1>1 DEF Request, Fits, HasNew, NoRequest
  <1>3. req[p].out = "none"
    BY <1>1 DEF Fits
  <1>4. PICK out \in {"none", "audit", "create"} :
            /\ out = "create" \/ req[p].pc = "cleanup"
            /\ Move(p, [req[p] EXCEPT !.pc = "commit", !.out = out])
    BY <1>1, <1>3, SameRecord DEF CleanedUp, CleanupFails, Misread, Pcs
  <1>5. /\ Answered(p) \/ Errs(p)
        /\ UNCHANGED <<names, rows, lock, live, used, shown, lost>>
    BY DEF CleanedUp, CleanupFails, Misread
  <1>6. out \in Outcomes /\ req[p].pc # "mint"
    BY <1>1 DEF Outcomes
  <1> QED
    BY <1>2, <1>4, <1>5, <1>6, AwaitEnds

LEMMA KeyDroppedInv == ASSUME IInv, NEW p \in Coroutines, KeyDropped(p) PROVE IInv'
  <1> DEFINE pc == IF req[p].out = "revoke" THEN "markKey" ELSE "commit"
  <1>1. p \in Procs /\ req[p].pc = "dropKey" /\ req[p] \in Request /\ Fits(req[p])
    BY Facts DEF Procs, KeyDropped
  <1>2. Move(p, [req[p] EXCEPT !.pc = pc, !.out = req[p].out])
    BY <1>1, SameRecord DEF KeyDropped, Pcs, Running
  <1>3. Fits([req[p] EXCEPT !.pc = pc, !.out = req[p].out])
    BY <1>1 DEF Request, Fits, HasNew, NoRequest
  <1>4. req[p].out \in Outcomes /\ pc \in {"respond", "commit", "markKey"}
    BY <1>1 DEF Request
  <1>5. Answered(p) /\ UNCHANGED <<names, rows, lock, live, used, shown, lost>>
    BY DEF KeyDropped
  <1> HIDE DEF pc
  <1> QED
    BY <1>1, <1>2, <1>3, <1>4, <1>5, AwaitEnds

LEMMA KeyDropFailsInv == ASSUME IInv, NEW p \in Coroutines, KeyDropFails(p) PROVE IInv'
  BY Await, GivesUp DEF KeyDropFails, Procs, IInv, TypeOK

LEMMA MarkKeyInv == ASSUME IInv, NEW p \in Coroutines, MarkKey(p) PROVE IInv'
  <1>1. p \in Procs /\ req[p].pc = "markKey" /\ req[p] \in Request /\ Fits(req[p])
    BY Facts DEF Procs, MarkKey
  <1>2. Move(p, [req[p] EXCEPT !.pc = "commit", !.out = req[p].out])
    BY <1>1, SameRecord DEF MarkKey, Pcs
  <1>3. Fits([req[p] EXCEPT !.pc = "commit", !.out = req[p].out])
    BY <1>1 DEF Request, Fits, HasNew, NoRequest
  <1>4. "commit" \in Pcs /\ req[p].out \in Outcomes /\ req[p].out = "revoke"
    BY <1>1 DEF Pcs, Request, Fits
  <1>5. req[p].new = None /\ req[p].key \notin live
    BY <1>1, <1>4 DEF Fits, IInv, DropsFirst
  <1>6. lock' \in Procs \cup {None} /\ UNCHANGED <<names, rows, wire, live, used, shown, lost>>
    BY <1>1 DEF MarkKey
  <1> QED
    BY <1>1, <1>2, <1>3, <1>4, <1>5, <1>6, Proceed

LEMMA RenameIdentInv == ASSUME IInv, NEW t \in Threads, RenameIdent(t) PROVE IInv'
  <1>1. t \in Procs /\ req[t].pc = "rename" /\ req[t].name \in Names
    BY Facts DEF Procs, RenameIdent, Fits
  <1> QED
    BY <1>1, GivesUp DEF RenameIdent, IInv, TypeOK

LEMMA RenameTakenInv == ASSUME IInv, NEW t \in Threads, RenameTaken(t) PROVE IInv'
  <1>1. t \in Procs /\ req[t].pc = "rename" /\ req[t] \in Request /\ Fits(req[t])
    BY Facts DEF Procs, RenameTaken
  <1> DEFINE new == [req[t] EXCEPT !.pc = "commit"]
  <1>2. /\ new.pc = "commit" /\ new.out = "none" /\ new.new = None /\ new.key = req[t].key
        /\ new.kind = "rename"
    BY <1>1 DEF Request, Fits
  <1>3. new \in Request /\ Fits(new)
    BY <1>1 DEF Request, Pcs, Fits, HasNew, NoRequest
  <1>4. /\ Move(t, new) /\ lock' \in Procs \cup {None}
        /\ UNCHANGED <<names, rows, wire, live, used, shown, lost>>
    BY <1>1 DEF RenameTaken
  <1> HIDE DEF new
  <1> QED
    BY <1>1, <1>2, <1>3, <1>4, Facts, QuietStep DEF IInv, TypeOK

LEMMA BusyInv == ASSUME IInv, NEW p \in Procs, Busy(p) PROVE IInv'
  BY GivesUp DEF Busy, IInv, TypeOK

------------------------------------------------------------------------------
(* Requests that arrive.                                                    *)

LEMMA RevokeInv == ASSUME IInv, NEW c \in Coroutines, Revoke(c) PROVE IInv'
  <1>1. c \in Procs /\ c \notin Threads /\ req[c].pc = "idle"
    BY DEF Procs, Revoke
  <1>2. PICK k \in Aliases :
            /\ rows[k] # None
            /\ Move(c, [NoRequest EXCEPT !.pc = "dropKey", !.kind = "revoke", !.key = k,
                                         !.out = IF rows[k].active THEN "revoke" ELSE "none"])
            /\ wire' = wire \cup {Delete(c, k)}
    BY DEF Revoke
  <1> DEFINE new == [NoRequest EXCEPT !.pc = "dropKey", !.kind = "revoke", !.key = k,
                                      !.out = IF rows[k].active THEN "revoke" ELSE "none"]
  <1>3. /\ new.pc = "dropKey" /\ new.kind = "revoke" /\ new.key = k /\ new.new = None
        /\ new \in Request /\ Fits(new)
    BY DEF NoRequest, Request, Pcs, Awaits, Outcomes, Fits, HasNew
  <1>4. /\ \A call \in wire' \ wire : call \in Call /\ call.op = "delete" /\ call.alias \in used
        /\ wire \subseteq wire'
        /\ Delete(c, k) \in wire'
    BY <1>2 DEF IInv, AliasesUsed, Call, Delete
  <1>5. Move(c, new) /\ UNCHANGED <<names, rows, lock, live, used, shown, lost>>
    BY <1>2 DEF Revoke
  <1> HIDE DEF new
  <1> QED
    BY <1>1, <1>2, <1>3, <1>4, <1>5, QuietStep DEF IInv, TypeOK

LEMMA RenameInv == ASSUME IInv, NEW t \in Threads, Rename(t) PROVE IInv'
  <1>1. t \in Procs /\ req[t].pc = "idle"
    BY DEF Procs, Rename
  <1>2. PICK k \in Aliases, n \in Names :
            /\ rows[k] # None
            /\ Move(t, [NoRequest EXCEPT !.pc = "rename", !.kind = "rename",
                                         !.name = n, !.ident = rows[k].ident])
    BY DEF Rename
  <1> DEFINE new == [NoRequest EXCEPT !.pc = "rename", !.kind = "rename",
                                      !.name = n, !.ident = rows[k].ident]
  <1>3. rows[k].ident \in Idents
    BY <1>2 DEF IInv, TypeOK, KeyRow
  <1>4. /\ new.pc = "rename" /\ new.kind = "rename" /\ new.key = None /\ new.new = None
        /\ new \in Request /\ Fits(new)
    BY <1>3 DEF NoRequest, Request, Pcs, Outcomes, Fits, HasNew
  <1>5. Move(t, new) /\ UNCHANGED <<names, rows, lock, wire, live, used, shown, lost>>
    BY <1>2 DEF Rename
  <1> HIDE DEF new
  <1> QED
    BY <1>1, <1>4, <1>5, QuietStep DEF IInv, TypeOK

\* A request that starts with a mint makes an alias that is nobody's yet.
LEMMA StartsMint ==
    ASSUME IInv, NEW c \in Coroutines, NEW a \in Aliases \ used, NEW new \in Request,
           Fits(new), new.pc = "mint", new.new = a, req[c].pc = "idle",
           new.key # None => /\ rows[new.key] # None
                             /\ new.kind = "rotate" => rows[new.key].ident = new.ident,
           Move(c, new), used' = used \cup {a}, wire' = wire \cup {Generate(c, a)},
           UNCHANGED <<names, rows, lock, live, shown, lost>>
    PROVE  IInv'
  <1>1. c \in Procs /\ c \notin Threads /\ req[c] = NoRequest
    BY DEF Procs, IInv, RequestsFit, Fits
  <1>2. \A q \in Procs : req'[q] = IF q = c THEN new ELSE req[q]
    BY DEF Move, IInv, TypeOK
  <1>3. Generate(c, a) \in Call
    BY DEF Generate, Call
  <1>4. TypeOK'
    BY <1>3 DEF Move, IInv, TypeOK
  <1>5. RequestsFit'
    BY <1>1, <1>2 DEF IInv, RequestsFit, Procs
  <1>6. KeysHaveRows'
    BY <1>2 DEF IInv, KeysHaveRows
  <1>7. a # None /\ rows[a] = None /\ a \notin shown
        /\ \A q \in Procs : req[q].new # a
    BY DEF IInv, AliasesUsed, NewKeysNew
  <1>8. NewKeysNew'
    BY <1>2, <1>7 DEF IInv, NewKeysNew
  <1>9. AliasesUsed'
    BY DEF IInv, AliasesUsed, Generate
  <1>10. MintsPending'
    <2> SUFFICES ASSUME NEW call \in wire', call.op = "generate"
                 PROVE  /\ rows[call.alias] = None
                        /\ call.alias \notin shown
                        /\ \A q \in Procs : req'[q].new = call.alias =>
                               q = call.by /\ req'[q].pc = "mint"
      BY DEF MintsPending
    <2>1. CASE call = Generate(c, a)
      BY <1>2, <1>7, <2>1 DEF Generate
    <2>2. CASE call \in wire
      BY <1>2, <2>2 DEF IInv, MintsPending, AliasesUsed
    <2> QED
      BY <2>1, <2>2
  <1>11. DropsFirst'
    BY <1>2 DEF IInv, DropsFirst
  <1>12. RevokedKeysAreDead'
    BY DEF IInv, RevokedKeysAreDead
  <1> QED
    BY <1>4, <1>5, <1>6, <1>8, <1>9, <1>10, <1>11, <1>12 DEF IInv

LEMMA CreateInv == ASSUME IInv, NEW c \in Coroutines, Create(c) PROVE IInv'
  <1>1. PICK n \in Names, a \in Aliases \ used :
            /\ Move(c, [NoRequest EXCEPT !.pc = "mint", !.kind = "create",
                                         !.name = n, !.new = a])
            /\ used' = used \cup {a}
            /\ wire' = wire \cup {Generate(c, a)}
    BY DEF Create
  <1> DEFINE new == [NoRequest EXCEPT !.pc = "mint", !.kind = "create", !.name = n, !.new = a]
  <1>2. /\ new.pc = "mint" /\ new.key = None /\ new.new = a
        /\ new \in Request /\ Fits(new)
    BY DEF NoRequest, Request, Pcs, Awaits, Outcomes, Fits, HasNew
  <1>3. Move(c, new) /\ req[c].pc = "idle" /\ UNCHANGED <<names, rows, lock, live, shown, lost>>
    BY <1>1 DEF Create
  <1> HIDE DEF new
  <1> QED
    BY <1>1, <1>2, <1>3, StartsMint

LEMMA RotateInv == ASSUME IInv, NEW c \in Coroutines, Rotate(c) PROVE IInv'
  <1>1. PICK k \in Aliases, a \in Aliases \ used :
            /\ rows[k] # None
            /\ Move(c, [NoRequest EXCEPT !.pc = "mint", !.kind = "rotate", !.key = k,
                                         !.ident = rows[k].ident, !.new = a])
            /\ used' = used \cup {a}
            /\ wire' = wire \cup {Generate(c, a)}
    BY DEF Rotate
  <1> DEFINE new == [NoRequest EXCEPT !.pc = "mint", !.kind = "rotate", !.key = k,
                                      !.ident = rows[k].ident, !.new = a]
  <1>2. rows[k].ident \in Idents
    BY <1>1 DEF IInv, TypeOK, KeyRow
  <1>3. /\ new.pc = "mint" /\ new.key = k /\ new.new = a /\ new.ident = rows[k].ident
        /\ new \in Request /\ Fits(new)
    BY <1>2 DEF NoRequest, Request, Pcs, Awaits, Outcomes, Fits, HasNew
  <1>4. Move(c, new) /\ req[c].pc = "idle" /\ UNCHANGED <<names, rows, lock, live, shown, lost>>
    BY <1>1 DEF Rotate
  <1> HIDE DEF new
  <1> QED
    BY <1>1, <1>3, <1>4, StartsMint

------------------------------------------------------------------------------
(* LiteLLM, and how a request ends.                                         *)

LEMMA HandleInv == ASSUME IInv, NEW call \in wire, Handle(call) PROVE IInv'
  <1>1. call \in Call /\ call.alias \in Aliases
    BY DEF IInv, TypeOK, Call
  <1>2. /\ wire' = wire \ {call}
        /\ live' = IF call.op = "generate" THEN live \cup {call.alias}
                   ELSE live \ {call.alias}
        /\ UNCHANGED <<names, rows, lock, req, used, shown, lost>>
    BY DEF Handle
  <1>3. TypeOK'
    BY <1>1, <1>2 DEF IInv, TypeOK
  <1>4. RequestsFit' /\ KeysHaveRows' /\ NewKeysNew'
    BY <1>2 DEF IInv, RequestsFit, KeysHaveRows, NewKeysNew
  <1>5. AliasesUsed' /\ MintsPending'
    BY <1>2 DEF IInv, AliasesUsed, MintsPending
  <1>6. call.op = "generate" => rows[call.alias] = None
    BY DEF IInv, MintsPending
  <1>7. DropsFirst'
    <2> SUFFICES ASSUME NEW p \in Procs
                 PROVE  /\ req[p].pc \in {"dropOld", "dropKey"} =>
                               Delete(p, req[p].key) \in wire' \/ req[p].key \notin live'
                        /\ /\ req[p].pc \in {"respond", "markKey", "commit"}
                           /\ req[p].out \in {"rotate", "revoke"}
                           => req[p].key \notin live'
      BY <1>2 DEF DropsFirst
    <2>1. req[p].key # None => rows[req[p].key] # None
      BY Facts
    <2>2. /\ req[p].pc \in {"dropOld", "dropKey"} => req[p].key # None
          /\ req[p].out \in {"rotate", "revoke"} => req[p].key # None
      BY Facts DEF Fits
    <2>3. Delete(p, req[p].key) = call => call.op # "generate" /\ call.alias = req[p].key
      BY DEF Delete
    <2> QED
      BY <1>2, <1>6, <2>1, <2>2, <2>3 DEF IInv, DropsFirst
  <1>8. RevokedKeysAreDead'
    BY <1>2, <1>6 DEF IInv, RevokedKeysAreDead
  <1> QED
    BY <1>3, <1>4, <1>5, <1>7, <1>8 DEF IInv

LEMMA RespondInv == ASSUME IInv, NEW p \in Coroutines, Respond(p) PROVE IInv'
  <1> DEFINE new == [req[p] EXCEPT !.pc = "commit"]
  <1>1. p \in Procs /\ p \notin Threads /\ req[p].pc = "respond" /\ req[p] \in Request
        /\ Fits(req[p])
    BY Facts DEF Procs, Respond
  <1>2. /\ shown' = shown \cup {req[p].new}
        /\ UNCHANGED <<names, rows, lock, wire, live, used>>
        /\ \A q \in Procs : req'[q] = IF q = p THEN new ELSE req[q]
    BY DEF Respond, Move, IInv, TypeOK
  <1>3. new \in Request /\ Fits(new)
    BY <1>1 DEF Request, Pcs, Fits, HasNew, NoRequest
  <1>4. /\ new.pc = "commit" /\ new.new = req[p].new /\ new.key = req[p].key
        /\ new.kind = req[p].kind /\ new.ident = req[p].ident /\ new.out = req[p].out
    BY <1>1 DEF Request
  <1>5. req[p].new \in Aliases /\ req[p].new # None /\ req[p].out \in {"create", "rotate"}
    BY <1>1 DEF Fits, HasNew
  <1> HIDE DEF new
  <1>6. TypeOK'
    BY <1>2, <1>3, <1>5 DEF Respond, Move, IInv, TypeOK
  <1>7. RequestsFit'
    BY <1>1, <1>2, <1>3 DEF IInv, RequestsFit, Procs
  <1>8. KeysHaveRows'
    BY <1>2, <1>4 DEF IInv, KeysHaveRows
  <1>9. NewKeysNew'
    <2>1. \A q \in Procs : req'[q].new = req[q].new
      BY <1>2, <1>4
    <2>2. ASSUME NEW q \in Procs, req[q].new # None
          PROVE  /\ req[q].new \in used
                 /\ rows[req[q].new] = None
                 /\ \A r \in Procs \ {q} : req[r].new # req[q].new
                 /\ req[q].new \in shown' => req'[q].pc = "commit" /\ req'[q].out \in {"create", "rotate"}
      BY <1>1, <1>2, <1>4, <1>5, <2>2 DEF IInv, NewKeysNew
    <2> QED
      BY <1>2, <2>1, <2>2 DEF NewKeysNew
  <1>10. rows[req[p].new] = None /\ req[p].new \in used
    BY <1>1, <1>5 DEF IInv, NewKeysNew
  <1>11. AliasesUsed'
    BY <1>2, <1>10 DEF IInv, AliasesUsed
  <1>12. MintsPending'
    BY <1>1, <1>2, <1>4 DEF IInv, MintsPending
  <1>13. DropsFirst'
    BY <1>1, <1>2, <1>4 DEF IInv, DropsFirst
  <1>14. RevokedKeysAreDead'
    BY <1>2, <1>10 DEF IInv, RevokedKeysAreDead
  <1> QED
    BY <1>6, <1>7, <1>8, <1>9, <1>11, <1>12, <1>13, <1>14 DEF IInv

\* What a commit does to the key rows: no row goes or comes back to life, and
\* only the request's own two keys change.
LEMMA StoredRows ==
    ASSUME IInv, NEW p \in Procs, req[p].pc = "commit"
    PROVE  /\ Stored(req[p]) \in [Aliases -> KeyRow \cup {None}]
           /\ \A a \in Aliases : rows[a] # None =>
                /\ Stored(req[p])[a] # None
                /\ Stored(req[p])[a].ident = rows[a].ident
                /\ \/ Stored(req[p])[a] = rows[a]
                   \/ /\ req[p].out \in {"rotate", "revoke"}
                      /\ a = req[p].key
           /\ \A a \in Aliases : rows[a] = None /\ Stored(req[p])[a] # None =>
                /\ a = req[p].new
                /\ req[p].out \in {"create", "rotate", "audit"}
           /\ req[p].out \in {"create", "rotate"} =>
                Stored(req[p])[req[p].new] = [ident |-> req[p].ident, active |-> TRUE]
           /\ req[p].out = "none" => Stored(req[p]) = rows
  <1> DEFINE q == req[p]
             row == [ident |-> q.ident, active |-> q.out # "audit"]
  <1>1. q \in Request /\ Fits(q) /\ q.pc = "commit"
    BY Facts
  <1>2. /\ q.out \in Outcomes
        /\ q.out \in {"create", "rotate", "audit"} =>
               q.new \in Aliases /\ q.ident \in Idents /\ rows[q.new] = None
        /\ q.out \in {"rotate", "revoke"} => q.key \in Aliases /\ rows[q.key] # None
    BY <1>1, Facts DEF Fits, Request, IInv, NewKeysNew
  <1>3. rows \in [Aliases -> KeyRow \cup {None}]
    BY DEF IInv, TypeOK
  <1>4. q.ident \in Idents => row \in KeyRow /\ row # None
    <2>1. q.ident \in Idents => row \in [ident : Idents, active : BOOLEAN]
      BY Zenon
    <2> HIDE DEF row
    <2> QED
      BY <2>1 DEF KeyRow
  <1>5. \A a \in Aliases : rows[a] # None =>
            /\ Revoked(rows[a]) \in KeyRow /\ Revoked(rows[a]) # None
            /\ Revoked(rows[a]).ident = rows[a].ident
    BY <1>3 DEF Revoked, KeyRow
  <1>6. CASE q.out = "none"
    BY <1>3, <1>6 DEF Stored
  <1>7. CASE q.out \in {"create", "audit"}
    <2>1. Stored(q) = [rows EXCEPT ![q.new] = row]
      BY <1>7 DEF Stored
    <2>2. q.out = "create" => row = [ident |-> q.ident, active |-> TRUE]
      OBVIOUS
    <2> HIDE DEF q, row
    <2>3. \A a \in Aliases : Stored(q)[a] = IF a = q.new THEN row ELSE rows[a]
      BY <1>3, <2>1
    <2>4. Stored(q) \in [Aliases -> KeyRow \cup {None}]
      BY <1>2, <1>3, <1>4, <1>7, <2>1
    <2>5. /\ \A a \in Aliases : rows[a] # None => Stored(q)[a] = rows[a]
          /\ \A a \in Aliases : rows[a] = None /\ Stored(q)[a] # None => a = q.new
          /\ q.out = "create" => Stored(q)[q.new] = [ident |-> q.ident, active |-> TRUE]
      BY <1>2, <1>7, <2>2, <2>3
    <2> QED
      BY <1>7, <2>4, <2>5 DEF q
  <1>8. CASE q.out = "rotate"
    <2>1. Stored(q) = [rows EXCEPT ![q.new] = row, ![q.key] = Revoked(@)]
      BY <1>8 DEF Stored
    <2>2. row = [ident |-> q.ident, active |-> TRUE]
      BY <1>8
    <2> HIDE DEF q, row
    <2>3. q.new # q.key /\ q.new \in Aliases /\ q.key \in Aliases
      BY <1>2, <1>8
    <2>4. \A a \in Aliases : Stored(q)[a] = IF a = q.new THEN row
                                            ELSE IF a = q.key THEN Revoked(rows[a]) ELSE rows[a]
      BY <1>3, <2>1, <2>3
    <2>5. Stored(q) \in [Aliases -> KeyRow \cup {None}]
      <3>1. DOMAIN Stored(q) = Aliases /\ Stored(q) = [a \in Aliases |-> Stored(q)[a]]
        BY <1>3, <2>1
      <3>2. \A a \in Aliases : Stored(q)[a] \in KeyRow \cup {None}
        BY <1>2, <1>3, <1>4, <1>5, <1>8, <2>4
      <3> QED
        BY <3>1, <3>2
    <2>6. /\ \A a \in Aliases : rows[a] # None =>
               /\ Stored(q)[a] # None
               /\ Stored(q)[a].ident = rows[a].ident
               /\ Stored(q)[a] = rows[a] \/ a = q.key
          /\ \A a \in Aliases : rows[a] = None /\ Stored(q)[a] # None => a = q.new
          /\ Stored(q)[q.new] = [ident |-> q.ident, active |-> TRUE]
      BY <1>2, <1>5, <1>8, <2>2, <2>3, <2>4
    <2> QED
      BY <1>8, <2>5, <2>6 DEF q
  <1>9. CASE q.out = "revoke"
    <2>1. Stored(q) = [rows EXCEPT ![q.key] = Revoked(@)]
      BY <1>9 DEF Stored
    <2> HIDE DEF q, row
    <2>2. \A a \in Aliases : Stored(q)[a] = IF a = q.key THEN Revoked(rows[a]) ELSE rows[a]
      BY <1>2, <1>3, <1>9, <2>1
    <2>3. Stored(q) \in [Aliases -> KeyRow \cup {None}]
      BY <1>2, <1>3, <1>5, <1>9, <2>1
    <2>4. /\ \A a \in Aliases : rows[a] # None =>
               /\ Stored(q)[a] # None
               /\ Stored(q)[a].ident = rows[a].ident
               /\ Stored(q)[a] = rows[a] \/ a = q.key
          /\ \A a \in Aliases : rows[a] = None => Stored(q)[a] = None
      BY <1>2, <1>5, <1>9, <2>2
    <2> QED
      BY <1>9, <2>3, <2>4 DEF q
  <1> QED
    BY <1>2, <1>6, <1>7, <1>8, <1>9 DEF Outcomes

LEMMA CommitInv == ASSUME IInv, NEW p \in Procs, Commit(p) PROVE IInv'
  <1>1. p \in Procs /\ req[p].pc = "commit" /\ req[p] \in Request
        /\ Fits(req[p])
    BY Facts DEF Procs, Commit
  <1>2. /\ rows' = Stored(req[p])
        /\ UNCHANGED <<names, wire, live, used, shown, lost>>
        /\ \A q \in Procs : req'[q] = IF q = p THEN NoRequest ELSE req[q]
    BY DEF Commit, Move, IInv, TypeOK
  <1>3. /\ rows' \in [Aliases -> KeyRow \cup {None}]
        /\ \A a \in Aliases : rows[a] # None =>
             /\ rows'[a] # None
             /\ rows'[a].ident = rows[a].ident
             /\ \/ rows'[a] = rows[a]
                \/ req[p].out \in {"rotate", "revoke"} /\ a = req[p].key
        /\ \A a \in Aliases : rows[a] = None /\ rows'[a] # None =>
             a = req[p].new /\ req[p].out \in {"create", "rotate", "audit"}
        /\ req[p].out \in {"create", "rotate"} =>
             rows'[req[p].new] = [ident |-> req[p].ident, active |-> TRUE]
    BY <1>1, <1>2, StoredRows
  <1>4. /\ NoRequest \in Request /\ Fits(NoRequest)
        /\ NoRequest.key = None /\ NoRequest.new = None /\ NoRequest.pc = "idle"
        /\ NoRequest.out = "none"
    BY DEF NoRequest, Request, Pcs, Outcomes, Fits, HasNew
  <1>5. TypeOK'
    BY <1>2, <1>3, <1>4 DEF Commit, Move, IInv, TypeOK
  <1>6. RequestsFit'
    BY <1>1, <1>2, <1>4 DEF IInv, RequestsFit, Procs
  <1>7. KeysHaveRows'
    <2> SUFFICES ASSUME NEW q \in Procs \ {p}, req[q].key # None
                 PROVE  /\ rows'[req[q].key] # None
                        /\ req[q].kind = "rotate" => rows'[req[q].key].ident = req[q].ident
      BY <1>2, <1>4 DEF KeysHaveRows
    <2>1. req[q].key \in Aliases
      BY DEF IInv, TypeOK, Request
    <2> QED
      BY <1>3, <2>1 DEF IInv, KeysHaveRows
  <1>8. NewKeysNew'
    <2> SUFFICES ASSUME NEW q \in Procs \ {p}, req[q].new # None
                 PROVE  /\ req[q].new \in used
                        /\ rows'[req[q].new] = None
                        /\ \A r \in Procs \ {q} : req'[r].new # req[q].new
                        /\ req[q].new \in shown =>
                             req[q].pc = "commit" /\ req[q].out \in {"create", "rotate"}
      BY <1>2, <1>4 DEF NewKeysNew
    <2>1. req[q].new \in Aliases
      BY DEF IInv, TypeOK, Request
    <2>2. req[q].new # req[p].new
      BY <1>1 DEF IInv, NewKeysNew
    <2> QED
      BY <1>2, <1>3, <1>4, <2>1, <2>2 DEF IInv, NewKeysNew
  <1>9. AliasesUsed'
    <2>1. \A a \in Aliases : rows'[a] # None => a \in used
      BY <1>1, <1>3, Facts DEF IInv, AliasesUsed
    <2> QED
      BY <1>2, <2>1 DEF IInv, AliasesUsed
  <1>10. MintsPending'
    <2> SUFFICES ASSUME NEW call \in wire, call.op = "generate"
                 PROVE  /\ rows'[call.alias] = None
                        /\ call.alias \notin shown
                        /\ \A q \in Procs : req'[q].new = call.alias =>
                               q = call.by /\ req'[q].pc = "mint"
      BY <1>2 DEF MintsPending
    <2>1. call.alias \in Aliases
      BY DEF IInv, TypeOK, Call
    <2>2. call.alias # req[p].new
      BY <1>1 DEF IInv, MintsPending
    <2> QED
      BY <1>2, <1>3, <1>4, <2>1, <2>2 DEF IInv, MintsPending
  <1>11. DropsFirst'
    BY <1>2, <1>4 DEF IInv, DropsFirst
  <1>12. RevokedKeysAreDead'
    <2> SUFFICES ASSUME NEW a \in shown, rows'[a] # None, ~rows'[a].active
                 PROVE  a \notin live
      BY <1>2 DEF RevokedKeysAreDead
    <2>1. a \in Aliases
      BY DEF IInv, TypeOK
    <2>2. CASE rows[a] = None
      BY <1>1, <1>3, <2>1, <2>2 DEF IInv, NewKeysNew
    <2>3. CASE rows[a] # None
      BY <1>1, <1>3, <2>1, <2>3 DEF IInv, RevokedKeysAreDead, DropsFirst
    <2> QED
      BY <2>2, <2>3
  <1> QED
    BY <1>5, <1>6, <1>7, <1>8, <1>9, <1>10, <1>11, <1>12 DEF IInv

\* A request that is storing a row knows its alias and its identity.
LEMMA StoringRows ==
    ASSUME IInv, NEW p \in Storing
    PROVE  p \in Procs /\ RowOf(p) \in LostRow
  <1>1. p \in Procs /\ req[p].pc = "commit" /\ req[p].new \in Aliases /\ req[p].new # None
        /\ req[p].new \in shown
    BY DEF Storing, IInv, TypeOK
  <1>2. req[p].ident \in Idents
    BY <1>1, Facts DEF IInv, NewKeysNew, Fits
  <1> QED
    BY <1>1, <1>2 DEF RowOf, LostRow

LEMMA CommitFailsInv == ASSUME IInv, NEW p \in Procs, CommitFails(p) PROVE IInv'
  <1>1. lost' \subseteq LostRow
    BY StoringRows DEF CommitFails, IInv, TypeOK
  <1> QED
    BY <1>1, GivesUp DEF CommitFails, IInv, TypeOK

LEMMA CrashInv == ASSUME IInv, Crash PROVE IInv'
  <1>1. /\ NoRequest \in Request /\ Fits(NoRequest)
        /\ NoRequest.key = None /\ NoRequest.new = None /\ NoRequest.pc = "idle"
    BY DEF NoRequest, Request, Pcs, Outcomes, Fits, HasNew
  <1>2. /\ \A p \in Procs : req'[p] = NoRequest
        /\ UNCHANGED <<names, rows, wire, live, used, shown>>
    BY DEF Crash
  <1>3. TypeOK'
    BY <1>1, StoringRows DEF Crash, IInv, TypeOK
  <1>4. RequestsFit' /\ KeysHaveRows' /\ NewKeysNew' /\ DropsFirst'
    BY <1>1, <1>2 DEF RequestsFit, KeysHaveRows, NewKeysNew, DropsFirst, Procs
  <1>5. AliasesUsed' /\ MintsPending' /\ RevokedKeysAreDead'
    <2>1. AliasesUsed' /\ RevokedKeysAreDead'
      BY <1>2 DEF IInv, AliasesUsed, RevokedKeysAreDead
    <2>2. MintsPending'
      <3>1. \A call \in wire : call.alias \in Aliases
        BY DEF IInv, TypeOK, Call
      <3> QED
        BY <1>1, <1>2, <3>1 DEF IInv, MintsPending
    <2> QED
      BY <2>1, <2>2
  <1> QED
    BY <1>3, <1>4, <1>5 DEF IInv

------------------------------------------------------------------------------
(* Every step, and the theorems.                                            *)

LEMMA StepInv == ASSUME IInv, NEW p \in Coroutines, Step(p) PROVE IInv'
  <1>1. CASE Minted(p) \/ MintedNothing(p) \/ MintFails(p)
    BY <1>1, MintedInv, MintedNothingInv, MintFailsInv
  <1>2. CASE FindName(p) \/ InsertIdent(p) \/ NameTaken(p) \/ InsertKey(p) \/ NewDropped(p)
    BY <1>2, FindNameInv, InsertIdentInv, NameTakenInv, InsertKeyInv, NewDroppedInv
  <1>3. CASE OldDropped(p) \/ OldDropFails(p) \/ CleanedUp(p) \/ CleanupFails(p) \/ Misread(p)
    BY <1>3, OldDroppedInv, OldDropFailsInv, CleanupInv
  <1>4. CASE KeyDropped(p) \/ KeyDropFails(p) \/ MarkKey(p)
    BY <1>4, KeyDroppedInv, KeyDropFailsInv, MarkKeyInv
  <1>5. CASE Respond(p) \/ Commit(p) \/ CommitFails(p) \/ Busy(p)
    BY <1>5, RespondInv, CommitInv, CommitFailsInv, BusyInv DEF Procs
  <1> QED
    BY <1>1, <1>2, <1>3, <1>4, <1>5 DEF Step

LEMMA NextInv == IInv /\ [Next]_vars => IInv'
  <1> SUFFICES ASSUME IInv, [Next]_vars PROVE IInv'
    OBVIOUS
  <1>1. ASSUME NEW c \in Coroutines, Create(c) \/ Rotate(c) \/ Revoke(c) \/ Step(c)
        PROVE  IInv'
    BY <1>1, CreateInv, RotateInv, RevokeInv, StepInv
  <1>2. ASSUME NEW t \in Threads, Rename(t) \/ ThreadStep(t) PROVE IInv'
    BY <1>2, RenameInv, RenameIdentInv, RenameTakenInv, CommitInv, CommitFailsInv, BusyInv
       DEF Procs, ThreadStep
  <1>3. ASSUME NEW call \in wire, Handle(call) PROVE IInv'
    BY <1>3, HandleInv
  <1>4. CASE Crash
    BY <1>4, CrashInv
  <1>5. CASE UNCHANGED vars
    BY <1>5 DEF vars, IInv, TypeOK, RequestsFit, KeysHaveRows, NewKeysNew, AliasesUsed,
                MintsPending, DropsFirst, RevokedKeysAreDead
  <1> QED
    BY <1>1, <1>2, <1>3, <1>4, <1>5 DEF Next

\* The inductive invariant holds in every reachable state.
THEOREM Invariance == Spec => []IInv
  BY InitInv, NextInv, PTL DEF Spec

\* Every variable keeps its type, however requests, crashes and LiteLLM's
\* late answers interleave.
THEOREM TypeCorrect == Spec => []TypeOK
  <1>1. IInv => TypeOK
    BY DEF IInv
  <1> QED
    BY <1>1, Invariance, PTL

\* LiteLLM accepts no token that a user was shown and whose row says it is
\* revoked (revoke_key and rotate_key delete first and mark after), whatever
\* fails, is lost, or is carried out after the client gave up.
THEOREM RevokedDead == Spec => []RevokedKeysAreDead
  <1>1. IInv => RevokedKeysAreDead
    BY DEF IInv
  <1> QED
    BY <1>1, Invariance, PTL

\* Only create_identity's savepoint and rename_identity's write names.
LEMMA NamesWritten ==
    IInv /\ [Next]_vars =>
        \/ names' = names
        \/ \E i \in Idents, n \in Names : ~Taken(n) /\ names' = [names EXCEPT ![i] = n]
  <1> SUFFICES ASSUME IInv, [Next]_vars, names' # names
               PROVE  \E i \in Idents, n \in Names :
                          ~Taken(n) /\ names' = [names EXCEPT ![i] = n]
    OBVIOUS
  <1>1. CASE \E p \in Coroutines : InsertIdent(p)
    <2>1. PICK p \in Coroutines : InsertIdent(p)
      BY <1>1
    <2>2. req[p].name \in Names
      BY <2>1, Facts DEF InsertIdent, Fits, Procs
    <2> QED
      BY <2>1, <2>2 DEF InsertIdent
  <1>2. CASE \E t \in Threads : RenameIdent(t)
    <2>1. PICK t \in Threads : RenameIdent(t)
      BY <1>2
    <2>2. req[t].name \in Names /\ req[t].ident \in Idents
      BY <2>1, Facts DEF RenameIdent, Fits, Procs
    <2>3. names' = [names EXCEPT ![req[t].ident] = req[t].name]
      BY <2>1 DEF RenameIdent
    <2>4. names[req[t].ident] # req[t].name
      BY <2>2, <2>3 DEF IInv, TypeOK
    <2>5. ~Taken(req[t].name)
      BY <2>1, <2>4 DEF RenameIdent, TakenBeside, Taken
    <2> QED
      BY <2>2, <2>3, <2>5
  <1>3. ASSUME NEW c \in Coroutines, Create(c) \/ Rotate(c) \/ Revoke(c) \/ Step(c)
        PROVE  InsertIdent(c)
    BY <1>3 DEF Create, Rotate, Revoke, Step, Minted, MintedNothing, MintFails, FindName,
                NameTaken, InsertKey, NewDropped, OldDropped, OldDropFails, CleanedUp,
                CleanupFails, Misread, KeyDropped, KeyDropFails, MarkKey, Respond, Commit,
                CommitFails, Busy
  <1>4. ASSUME NEW t \in Threads, Rename(t) \/ ThreadStep(t) PROVE RenameIdent(t)
    BY <1>4 DEF Rename, ThreadStep, RenameTaken, Commit, CommitFails, Busy
  <1> QED
    BY <1>1, <1>2, <1>3, <1>4 DEF Next, vars, Handle, Crash

\* No two identities have one name: both places that write one look for it
\* under the write lock, the unique constraint's doing.
THEOREM NamesUnique == Spec => []NamesApart
  <1>1. Init => NamesApart
    BY DEF Init, NamesApart
  <1>2. IInv /\ NamesApart /\ [Next]_vars => NamesApart'
    BY NamesWritten DEF NamesApart, Taken, IInv, TypeOK
  <1> QED
    BY <1>1, <1>2, Invariance, PTL DEF Spec
=============================================================================
