-------------------------- MODULE TraceServerProofs --------------------------
(***************************************************************************)
(* Proofs about TraceServer for any number of traces, links, calls and     *)
(* slots, any batches and any number of rewrites and retargeted links.     *)
(***************************************************************************)
EXTENDS TraceServer, SequenceTheorems, TLAPS

SessionTypes == {Pool!Closed} \cup Pool!Asking \cup Pool!Open

\* What the proofs need of TypeOK, and that files stay within their versions.
Shape ==
  /\ version \in [Files -> Nat] /\ \A f \in Files : version[f] <= MaxVersion
  /\ session \in [Requests -> SessionTypes]
  /\ target \in [Names -> Files] /\ retargets \in 0..MaxRetargets
  /\ ledBack \subseteq Requests \X Keys
  /\ current \in Names \cup {None}
  /\ loaded \in [Keys -> Names \cup {None}]
  /\ schema \in [Keys -> Keys \cup {None}]
  /\ pc \in [Requests -> PCs]
  /\ batch \in [Loads -> Batches \cup {<<>>}]
  /\ reports \in [Loads -> Seq(Keys)]
  /\ count \in [Loads -> Nat]
  /\ name \in [Requests -> Names \cup {None}]
  /\ key \in [Requests -> Keys \cup {None}]
  /\ \A r \in Requests : pc[r] \notin {"new", "fetch", "done"} => name[r] # None

\* The session of a call at each point of it: what it asked for is of the past, and what
\* it reads lies between that and now.
SessionInv ==
  \A r \in Requests :
    /\ pc[r] = "wait" => session[r] \in Pool!Asking
    /\ pc[r] \in {"check", "use", "recheck", "store"} => session[r] \in Pool!Open
    /\ session[r] \in Pool!Asking => session[r].asked <= version[session[r].path]
    /\ session[r] \in Pool!Open =>
         session[r].asked <= session[r].from /\ session[r].from <= version[session[r].path]

\* A load has a report for each path it is done with, and has registered the first of them.
LoadInv ==
  \A r \in Loads :
    /\ pc[r] \notin {"new", "done"} => batch[r] \in Batches
    /\ pc[r] = "new" => reports[r] = <<>>
    /\ pc[r] \notin {"register", "publish", "done"} => count[r] = 0
    /\ pc[r] \notin {"new", "register", "publish", "done"} => Len(reports[r]) < Len(batch[r])
    /\ pc[r] \in {"register", "publish"} => Prepared(r)
    /\ pc[r] = "register" => count[r] < Len(reports[r])
    /\ pc[r] = "publish" => count[r] = Len(reports[r])
    /\ pc[r] \in {"register", "publish"} =>
         \A i \in 1..Len(reports[r]) : i <= count[r] => loaded[reports[r][i]] # None

\* The key a call selected is of the past.  If its client asked for another content, the
\* link leads elsewhere, or was led back since.
KeyInv ==
  \A r \in Requests : key[r] # None =>
    /\ pc[r] \in {"ask", "wait", "check"} => key[r].version <= version[key[r].file]
    /\ pc[r] \in {"wait", "check"} =>
         \/ session[r].path = key[r].file /\ key[r].version <= session[r].asked
         \/ target[name[r]] # key[r].file
         \/ <<r, key[r]>> \in ledBack
    /\ pc[r] \in {"use", "recheck", "store"} => Content(r) = key[r] \/ <<r, key[r]>> \in ledBack
-----------------------------------------------------------------------------
LEMMA SessionFields ==
  ASSUME NEW s \in SessionTypes
  PROVE  /\ s \in Pool!Asking => s.path \in Files /\ s.asked \in Nat
         /\ s \in Pool!Open => /\ s.path \in Files /\ s.asked \in Nat /\ s.from \in Nat
                               /\ s.slot \in Slots /\ s \notin Pool!Asking
         /\ Pool!Closed \notin Pool!Asking /\ Pool!Closed \notin Pool!Open
BY DEF SessionTypes, Pool!Closed, Pool!Asking, Pool!Open

LEMMA NameOf ==
  ASSUME Shape, NEW n \in Names
  PROVE  KeyOf(n) \in Keys
BY DEF Shape, KeyOf, Keys

\* What a step of one call leaves alone of the others.
Apart(r) ==
  /\ \A u \in Requests \ {r} : /\ session'[u] = session[u] /\ pc'[u] = pc[u]
                              /\ name'[u] = name[u] /\ key'[u] = key[u]
  /\ \A u \in Loads \ {r} : batch'[u] = batch[u] /\ reports'[u] = reports[u] /\ count'[u] = count[u]
  /\ session' = [u \in Requests |-> session'[u]] /\ pc' = [u \in Requests |-> pc'[u]]
  /\ name' = [u \in Requests |-> name'[u]] /\ key' = [u \in Requests |-> key'[u]]
  /\ batch' = [u \in Loads |-> batch'[u]] /\ reports' = [u \in Loads |-> reports'[u]]
  /\ count' = [u \in Loads |-> count'[u]]

Step(r) == Begin(r) \/ Proceed(r) \/ GetClientFails(r) \/ Cancel(r)

LEMMA HangsUp ==
  ASSUME Shape, NEW r \in Requests, HangUp(r)
  PROVE  session' = [session EXCEPT ![r] = Pool!Closed] /\ session' \in [Requests -> SessionTypes]
BY DEF HangUp, Shape, SessionTypes

\* A step that returns: nothing is left of the call but its name.
Over(r) == session' = [session EXCEPT ![r] = Pool!Closed] /\ pc' = [pc EXCEPT ![r] = "done"]

LEMMA ReturnIsOver == ASSUME NEW r, Return(r) PROVE Over(r)
BY DEF Return, HangUp, Over

LEMMA Ensured ==
  ASSUME NEW r, NEW l, EnsureThen(r, l)
  PROVE  \/ KeyMatches(r) /\ pc' = [pc EXCEPT ![r] = l] /\ session' = session
         \/ Over(r)
BY ReturnIsOver DEF EnsureThen, Goto

\* Connect: the client reads what the file had between the call's fingerprint and now.
LEMMA Connected1 ==
  ASSUME Shape, NEW r \in Requests, Connect(r)
  PROVE  \E v, s :
           /\ session[r] \in Pool!Asking /\ s \in Slots /\ v \in Nat
           /\ session[r].asked <= v /\ v <= version[session[r].path]
           /\ session' = [session EXCEPT ![r] =
                [state |-> "open", path |-> session[r].path, asked |-> session[r].asked,
                 from |-> v, slot |-> s]]
           /\ UNCHANGED version
PROOF
  <1>1. PICK s \in Slots : Pool!Connect(r, s)
    BY DEF Connect
  <1>2. session[r] \in Pool!Asking /\ UNCHANGED version
    BY <1>1 DEF Pool!Connect
  <1>3. session[r].asked \in Nat /\ version[session[r].path] \in Nat
    BY <1>2, SessionFields DEF Shape
  <1>4. PICK v \in session[r].asked..version[session[r].path] :
          session' = [session EXCEPT ![r] =
                [state |-> "open", path |-> session[r].path, asked |-> session[r].asked,
                 from |-> v, slot |-> s]]
    BY <1>1 DEF Pool!Connect
  <1>5. v \in Nat /\ session[r].asked <= v /\ v <= version[session[r].path]
    BY <1>3, <1>4
  <1> QED BY <1>1, <1>2, <1>4, <1>5

\* A step of a call leaves the files alone, and the other calls.
LEMMA StepFrame ==
  ASSUME Shape, NEW r \in Requests, Step(r)
  PROVE  Apart(r) /\ UNCHANGED disk
PROOF
  <1>1. ASSUME Return(r), UNCHANGED <<disk, load, name, key>>
        PROVE  Apart(r) /\ UNCHANGED disk
    BY <1>1, ReturnIsOver DEF Over, Apart, Shape, load, disk, links
  <1>2. ASSUME NEW l, EnsureThen(r, l), UNCHANGED <<disk, load, name, key>>
        PROVE  Apart(r) /\ UNCHANGED disk
    BY <1>2, Ensured DEF Over, Apart, Shape, load, disk, links
  <1>3. CASE Begin(r)
    <2>1. CASE \E b \in Batches : LoadTrace(r, b)
      BY <2>1 DEF LoadTrace, Goto, Apart, Shape, disk, links
    <2>2. CASE SelectCurrent(r)
      BY <2>2, ReturnIsOver DEF SelectCurrent, Goto, Over, Apart, Shape, load, disk, links
    <2>3. CASE \E id \in Keys : SelectId(r, id)
      BY <2>3, ReturnIsOver DEF SelectId, Goto, Over, Apart, Shape, load, disk, links
    <2> QED BY <1>3, <2>1, <2>2, <2>3 DEF Begin
  <1>4. CASE Verify(r) \/ Check(r) \/ Screen(r)
    BY <1>2, <1>4 DEF Verify, Check, Screen
  <1>5. CASE Ask(r)
    BY <1>5 DEF Ask, Pool!Ask, Goto, Apart, Shape, load, disk, links
  <1>6. CASE Connect(r)
    BY <1>6, Connected1 DEF Connect, Goto, Apart, Shape, load, disk, links
  <1>7. CASE FetchKey(r)
    BY <1>7 DEF FetchKey, Goto, Apart, Shape, load, disk, links
  <1>8. CASE ReadStatus(r) \/ TableInfo(r) \/ Lookup(r)
    <2>1. /\ \/ Over(r)
             \/ session' = session /\ \E l : pc' = [pc EXCEPT ![r] = l]
          /\ UNCHANGED <<disk, load, name, key>>
      BY <1>8, ReturnIsOver DEF ReadStatus, TableInfo, Lookup, Goto
    <2> QED BY <2>1 DEF Over, Apart, Shape, load, disk, links
  <1>9. CASE r \in Loads /\ Report(r)
    <2>1. \/ Return(r)
          \/ HangUp(r) /\ pc' = [pc EXCEPT ![r] = AfterReport(r)]
      BY <1>9 DEF Report, Released, Goto
    <2>2. session' = [session EXCEPT ![r] = Pool!Closed] /\ \E l : pc' = [pc EXCEPT ![r] = l]
      BY <2>1, HangsUp, ReturnIsOver DEF Over
    <2>3. /\ UNCHANGED <<disk, batch, count, name, key>>
          /\ reports' = reports \/ reports' = [reports EXCEPT ![r] = Append(reports[r], key[r])]
      BY <1>9 DEF Report
    <2>4. \A u \in Loads \ {r} : reports'[u] = reports[u]
      BY <1>9, <2>3 DEF Shape
    <2> QED BY <2>2, <2>3, <2>4 DEF Apart, Shape, disk, links
  <1>10. CASE Register(r)
    BY <1>10 DEF Register, Goto, Apart, Shape, disk, links
  <1>11. CASE Publish(r) \/ Answer(r) \/ StoreStructure(r) \/ GetClientFails(r) \/ Cancel(r)
    BY <1>1, <1>11 DEF Publish, Answer, StoreStructure, GetClientFails, Cancel
  <1>12. CASE IncludeModule(r)
    BY <1>12 DEF IncludeModule, Apart, Shape, load, disk, links
  <1> QED BY <1>3, <1>4, <1>5, <1>6, <1>7, <1>8, <1>9, <1>10, <1>11, <1>12 DEF Step, Proceed

\* The locals of the call that moves, action by action.
Ends(r)   == pc'[r] = "done" /\ session'[r] = Pool!Closed
Moves(r)  == session'[r] = session[r] /\ name'[r] = name[r] /\ key'[r] = key[r]

LEMMA OverEnds == ASSUME Shape, NEW r \in Requests, Over(r) PROVE Ends(r)
BY DEF Shape, Over, Ends

Transition(r) ==
  \/ Ends(r)
  \/ pc[r] = "new" /\ pc'[r] = "fetch" /\ Moves(r) /\ r \in Loads
  \/ /\ pc[r] = "new" /\ pc'[r] \in {"screen", "lookup", "verify", "ask"} /\ session'[r] = session[r]
     /\ name'[r] \in Names /\ key'[r] \in Keys \cup {None} /\ r \notin Loads
     /\ pc'[r] = "ask" => key'[r] = None
  \/ /\ pc[r] = "fetch" /\ pc'[r] = "ask" /\ session'[r] = session[r] /\ r \in Loads
     /\ name'[r] = batch[r][Len(reports[r]) + 1] /\ key'[r] = KeyOf(name'[r])
  \/ pc[r] \in {"screen", "lookup"} /\ pc'[r] \in {"lookup", "verify"} /\ Moves(r)
  \/ pc[r] = "verify" /\ pc'[r] = "ask" /\ Moves(r) /\ KeyMatches(r)
  \/ /\ pc[r] = "ask" /\ pc'[r] = "wait" /\ name'[r] = name[r] /\ key'[r] = key[r]
     /\ session'[r] = [state |-> "asking", path |-> target[name[r]],
                       asked |-> version[target[name[r]]]]
  \/ /\ pc[r] = "wait" /\ pc'[r] = (IF key[r] = None THEN "use" ELSE "check")
     /\ name'[r] = name[r] /\ key'[r] = key[r] /\ session[r] \in Pool!Asking
     /\ \E v \in Nat, s \in Slots :
          /\ session[r].asked <= v /\ v <= version[session[r].path]
          /\ session'[r] = [state |-> "open", path |-> session[r].path,
                            asked |-> session[r].asked, from |-> v, slot |-> s]
  \/ pc[r] = "check" /\ pc'[r] = "use" /\ Moves(r) /\ KeyMatches(r)
  \/ pc[r] = "use" /\ pc'[r] \in {"use", "recheck", "store"} /\ Moves(r)
  \/ /\ pc[r] = "recheck" /\ pc'[r] \in {"fetch", "register"} /\ session'[r] = Pool!Closed
     /\ name'[r] = name[r] /\ key'[r] = key[r] /\ KeyMatches(r) /\ r \in Loads
  \/ pc[r] = "register" /\ pc'[r] \in {"register", "publish"} /\ Moves(r) /\ r \in Loads

LEMMA StepLocals == ASSUME Shape, NEW r \in Requests, Step(r) PROVE Transition(r)
PROOF
  <1>1. Return(r) => Transition(r)
    BY ReturnIsOver, OverEnds DEF Transition
  <1>2. Over(r) => Transition(r)
    BY OverEnds DEF Transition
  <1>3. ASSUME NEW b \in Batches, LoadTrace(r, b), r \in Loads
        PROVE  Transition(r)
    BY <1>3 DEF LoadTrace, Transition, Goto, Moves, Shape
  <1>4. CASE SelectCurrent(r) /\ r \notin Loads
    <2>1. CASE current # None
      BY <1>4, <2>1, NameOf DEF SelectCurrent, Transition, Goto, Shape
    <2> QED BY <1>1, <1>4, <2>1 DEF SelectCurrent
  <1>5. ASSUME NEW id \in Keys, SelectId(r, id), r \notin Loads
        PROVE  Transition(r)
    <2>1. CASE Known(id)
      BY <1>5, <2>1 DEF SelectId, Known, Transition, Goto, Shape
    <2> QED BY <1>1, <1>5, <2>1 DEF SelectId
  <1>6. CASE FetchKey(r) /\ r \in Loads
    BY <1>6 DEF FetchKey, Transition, Goto, Shape
  <1>7. CASE Verify(r) \/ Check(r) \/ Screen(r)
    BY <1>2, <1>7, Ensured DEF Verify, Check, Screen, Transition, Moves, Shape
  <1>8. CASE Ask(r)
    BY <1>8 DEF Ask, Pool!Ask, Transition, Goto, Shape
  <1>9. CASE Connect(r)
    <2>1. PICK v \in Nat, s \in Slots :
            /\ session[r] \in Pool!Asking
            /\ session[r].asked <= v /\ v <= version[session[r].path]
            /\ session' = [session EXCEPT ![r] =
                  [state |-> "open", path |-> session[r].path, asked |-> session[r].asked,
                   from |-> v, slot |-> s]]
      BY <1>9, Connected1
    <2>2. session'[r] = [state |-> "open", path |-> session[r].path, asked |-> session[r].asked,
                         from |-> v, slot |-> s]
      BY <2>1 DEF Shape
    <2>3. pc[r] = "wait" /\ pc'[r] = (IF key[r] = None THEN "use" ELSE "check") /\ name' = name /\ key' = key
      BY <1>9 DEF Connect, Goto, Shape
    <2> QED BY <2>1, <2>2, <2>3 DEF Transition
  <1>10. CASE ReadStatus(r) \/ TableInfo(r) \/ Lookup(r)
    <2>1. \/ Return(r)
          \/ pc[r] = "use" /\ pc'[r] \in {"recheck", "store"} /\ Moves(r)
          \/ pc[r] = "lookup" /\ pc'[r] = "verify" /\ Moves(r)
      <3>1. CASE ReadStatus(r)
        BY <3>1 DEF ReadStatus, Goto, Moves, Shape
      <3>2. CASE TableInfo(r)
        BY <3>2 DEF TableInfo, Goto, Moves, Shape
      <3>3. CASE Lookup(r)
        BY <3>3 DEF Lookup, Goto, Moves, Shape
      <3> QED BY <1>10, <3>1, <3>2, <3>3
    <2> QED BY <1>1, <2>1 DEF Transition
  <1>11. CASE Report(r) /\ r \in Loads
    <2>1. CASE KeyMatches(r)
      <3>1. session' = [session EXCEPT ![r] = Pool!Closed]
        BY <1>11, <2>1, HangsUp DEF Report, Released
      <3> QED BY <1>11, <2>1, <3>1 DEF Report, AfterReport, Transition, Goto, Shape
    <2> QED BY <1>1, <1>11, <2>1 DEF Report
  <1>12. CASE Register(r) /\ r \in Loads
    BY <1>12 DEF Register, Transition, Goto, Moves, Shape
  <1>13. CASE Publish(r) \/ Answer(r) \/ StoreStructure(r) \/ GetClientFails(r) \/ Cancel(r)
    BY <1>1, <1>13 DEF Publish, Answer, StoreStructure, GetClientFails, Cancel
  <1>14. CASE IncludeModule(r)
    BY <1>14 DEF IncludeModule, Transition, Moves
  <1> QED
    BY <1>3, <1>4, <1>5, <1>6, <1>7, <1>8, <1>9, <1>10, <1>11, <1>12, <1>13, <1>14
       DEF Step, Begin, Proceed

\* A call that ends names nothing new.
LEMMA NamesStay ==
  ASSUME Shape, NEW r \in Requests, Step(r), Ends(r)
  PROVE  name'[r] = name[r] /\ key'[r] = key[r]
BY DEF Step, Begin, Proceed, LoadTrace, SelectCurrent, SelectId, FetchKey, Verify, Check, Screen, Ask,
       Connect, ReadStatus, TableInfo, Lookup, Report, Register, Publish, Answer, StoreStructure,
       GetClientFails, Cancel, IncludeModule, Goto, Ends, Shape

\* What a step of a load does to its batch.
SameLoad(r) == batch'[r] = batch[r] /\ reports'[r] = reports[r] /\ count'[r] = count[r]

LoadTransition(r) ==
  \/ pc'[r] = "done" /\ SameLoad(r)
  \/ /\ pc[r] = "new" /\ pc'[r] = "fetch" /\ batch'[r] \in Batches
     /\ reports'[r] = reports[r] /\ count'[r] = count[r]
  \/ /\ pc[r] = "recheck" /\ KeyMatches(r) /\ batch'[r] = batch[r] /\ count'[r] = count[r]
     /\ reports'[r] = Append(reports[r], key[r])
     /\ pc'[r] = (IF Len(reports'[r]) < Len(batch[r]) THEN "fetch" ELSE "register")
  \/ /\ pc[r] = "register" /\ batch'[r] = batch[r] /\ reports'[r] = reports[r]
     /\ count'[r] = count[r] + 1
     /\ pc'[r] = (IF count'[r] < Len(reports[r]) THEN "register" ELSE "publish")
  \/ /\ pc[r] \notin {"new", "register", "publish", "done"}
     /\ pc'[r] \notin {"new", "register", "publish", "done"} /\ SameLoad(r)

LEMMA LoadLocals == ASSUME Shape, NEW r \in Loads, Step(r) PROVE LoadTransition(r)
PROOF
  <1>0. r \in Requests
    BY DEF Requests
  <1>1. ASSUME Return(r), UNCHANGED load
        PROVE  LoadTransition(r)
    BY <1>0, <1>1, ReturnIsOver, OverEnds DEF LoadTransition, Ends, SameLoad, load
  <1>2. ASSUME NEW l \in {"lookup", "ask", "use"}, EnsureThen(r, l), UNCHANGED load,
               pc[r] \in {"screen", "verify", "check"}
        PROVE  LoadTransition(r)
    BY <1>0, <1>2, Ensured, OverEnds DEF LoadTransition, Ends, SameLoad, load, Shape
  <1>3. ASSUME NEW b \in Batches, LoadTrace(r, b)
        PROVE  LoadTransition(r)
    BY <1>0, <1>3 DEF LoadTrace, LoadTransition, Goto, Shape
  <1>4. CASE FetchKey(r)
    BY <1>0, <1>4 DEF FetchKey, LoadTransition, SameLoad, load, Goto, Shape
  <1>5. CASE Verify(r) \/ Check(r) \/ Screen(r)
    BY <1>2, <1>5 DEF Verify, Check, Screen
  <1>6. CASE Ask(r)
    BY <1>0, <1>6 DEF Ask, LoadTransition, SameLoad, load, Goto, Shape
  <1>7. CASE Connect(r)
    BY <1>0, <1>7 DEF Connect, LoadTransition, SameLoad, load, Goto, Shape
  <1>8. CASE ReadStatus(r)
    BY <1>0, <1>1, <1>8 DEF ReadStatus, LoadTransition, SameLoad, load, Goto, Shape
  <1>9. CASE TableInfo(r)
    BY <1>0, <1>1, <1>9 DEF TableInfo, LoadTransition, SameLoad, load, Goto, Shape
  <1>10. CASE Lookup(r)
    BY <1>0, <1>1, <1>10 DEF Lookup, LoadTransition, SameLoad, load, Goto, Shape
  <1>11. CASE Report(r)
    <2>1. CASE KeyMatches(r)
      BY <1>0, <1>11, <2>1 DEF Report, AfterReport, LoadTransition, Goto, Shape
    <2>2. CASE ~KeyMatches(r)
      BY <1>1, <1>11, <2>2 DEF Report, load
    <2> QED BY <2>1, <2>2
  <1>12. CASE Register(r)
    BY <1>0, <1>12 DEF Register, LoadTransition, Goto, Shape
  <1>13. CASE Publish(r) \/ Answer(r) \/ StoreStructure(r) \/ GetClientFails(r) \/ Cancel(r)
    BY <1>1, <1>13 DEF Publish, Answer, StoreStructure, GetClientFails, Cancel
  <1>14. CASE IncludeModule(r)
    BY <1>14 DEF IncludeModule, LoadTransition, SameLoad, load
  <1> QED
    BY <1>3, <1>4, <1>5, <1>6, <1>7, <1>8, <1>9, <1>10, <1>11, <1>12, <1>13, <1>14
       DEF Step, Begin, Proceed

LEMMA RegisterStep ==
  ASSUME Shape, NEW r \in Loads, Step(r), pc[r] = "register", pc'[r] # "done"
  PROVE  loaded' = [loaded EXCEPT ![reports[r][count'[r]]] = batch[r][count'[r]]]
PROOF
  <1>1. r \in Requests
    BY DEF Requests
  <1>2. ~Return(r)
    BY <1>1, ReturnIsOver DEF Over, Shape
  <1> QED
    BY <1>1, <1>2
       DEF Step, Begin, Proceed, LoadTrace, SelectCurrent, SelectId, FetchKey, Verify, Check, Screen, Ask,
           Connect, ReadStatus, TableInfo, Lookup, Report, Register, Publish, Answer, StoreStructure,
           GetClientFails, Cancel, IncludeModule

\* Who writes the state that calls share.
LEMMA StepShared ==
  ASSUME NEW r \in Requests, Step(r)
  PROVE  /\ \/ loaded' = loaded
            \/ r \in Loads /\ Register(r)
         /\ \/ current' = current
            \/ r \in Loads /\ Publish(r)
         /\ \/ schema' = schema
            \/ r \in Structures /\ StoreStructure(r)
BY DEF Step, Begin, Proceed, LoadTrace, SelectCurrent, SelectId, FetchKey, Verify, Check, Screen, Ask,
       Connect, ReadStatus, TableInfo, Lookup, Report, Register, Publish, Answer, StoreStructure,
       GetClientFails, Cancel, IncludeModule, state
-----------------------------------------------------------------------------
\* What the rest of the world does.
World ==
  \/ \E f \in Files : WriteFile(f)
  \/ \E n \in Names, f \in Files : Retarget(n, f)
  \/ \E k \in kept : Evict(k)
  \/ UNCHANGED vars

LEMMA WorldFrame ==
  ASSUME Shape, World
  PROVE  /\ UNCHANGED <<session, state, pc, load, name, key>>
         /\ version' \in [Files -> Nat]
         /\ \A f \in Files : version'[f] <= MaxVersion /\ version[f] <= version'[f]
         /\ target' \in [Names -> Files] /\ retargets' \in 0..MaxRetargets
         /\ ledBack' \subseteq Requests \X Keys
         /\ UNCHANGED links \/ \E n \in Names, f \in Files : Retarget(n, f)
PROOF
  <1>1. ASSUME NEW f \in Files, WriteFile(f)
        PROVE  /\ UNCHANGED <<session, state, pc, load, name, key, links>>
               /\ version' \in [Files -> Nat]
               /\ \A g \in Files : version'[g] <= MaxVersion /\ version[g] <= version'[g]
    <2>1. version' = [version EXCEPT ![f] = version[f] + 1] /\ version[f] < MaxVersion
      BY <1>1 DEF WriteFile, Pool!Rewrite
    <2> QED BY <1>1, <2>1, ServerAssumption DEF WriteFile, Pool!Rewrite, Shape
  <1>2. ASSUME NEW n \in Names, NEW f \in Files, Retarget(n, f)
        PROVE  /\ UNCHANGED <<session, state, pc, load, name, key, version>>
               /\ target' \in [Names -> Files] /\ retargets' \in 0..MaxRetargets
               /\ ledBack' \subseteq Requests \X Keys
    <2>1. \A r \in WaitsFor(n, f) : <<r, key[r]>> \in Requests \X Keys
      BY DEF WaitsFor, Shape
    <2>2. ledBack' \subseteq Requests \X Keys
      BY <1>2, <2>1 DEF Retarget, Shape
    <2> QED BY <1>2, <2>2, ServerAssumption DEF Retarget, pool, Shape
  <1>3. CASE (\E k \in kept : Evict(k)) \/ UNCHANGED vars
    BY <1>3 DEF Evict, disk, links, vars, state, load, Shape
  <1> QED BY <1>1, <1>2, <1>3 DEF World, Shape, links

LEMMA NextCases == [Next]_vars => World \/ \E r \in Requests : Step(r)
BY DEF Next, World, Step
-----------------------------------------------------------------------------
LEMMA ShapeKept == Shape /\ SessionInv /\ LoadInv /\ [Next]_vars => Shape'
PROOF
  <1> SUFFICES ASSUME Shape, SessionInv, LoadInv, [Next]_vars PROVE Shape'
    OBVIOUS
  <1>1. CASE World
    BY <1>1, WorldFrame DEF Shape, state, load
  <1>2. ASSUME NEW r \in Requests, Step(r)
        PROVE  Shape'
    <2>1. Apart(r) /\ UNCHANGED disk /\ Transition(r)
      BY <1>2, StepFrame, StepLocals
    <2>2. session' \in [Requests -> SessionTypes]
      <3>1. session'[r] \in SessionTypes
        <4>1. ASSUME NEW a \in Files, NEW v \in Nat
              PROVE  [state |-> "asking", path |-> a, asked |-> v] \in SessionTypes
          BY DEF SessionTypes, Pool!Asking
        <4>2. ASSUME NEW a \in Files, NEW v \in Nat, NEW w \in Nat, NEW s \in Slots
              PROVE  [state |-> "open", path |-> a, asked |-> v, from |-> w, slot |-> s] \in SessionTypes
          BY DEF SessionTypes, Pool!Open
        <4>3. CASE session'[r] = session[r] \/ session'[r] = Pool!Closed
          BY <4>3 DEF SessionTypes, Shape
        <4>4. CASE /\ pc[r] = "ask"
                   /\ session'[r] = [state |-> "asking", path |-> target[name[r]],
                                     asked |-> version[target[name[r]]]]
          <5>1. name[r] \in Names
            BY <4>4 DEF Shape
          <5>2. target[name[r]] \in Files /\ version[target[name[r]]] \in Nat
            BY <5>1 DEF Shape
          <5> QED BY <4>1, <4>4, <5>2
        <4>5. CASE /\ session[r] \in Pool!Asking
                   /\ \E v \in Nat, s \in Slots :
                        session'[r] = [state |-> "open", path |-> session[r].path,
                                       asked |-> session[r].asked, from |-> v, slot |-> s]
          BY <4>2, <4>5, SessionFields DEF Shape
        <4> QED BY <2>1, <4>3, <4>4, <4>5 DEF Transition, Ends, Moves
      <3> QED BY <2>1, <3>1 DEF Apart, Shape
    <2>3. pc' \in [Requests -> PCs]
      <3>1. pc'[r] \in PCs
        BY <2>1 DEF Transition, Ends, PCs
      <3> QED BY <2>1, <3>1 DEF Apart, Shape
    <2>4. r \in Loads => /\ batch'[r] \in Batches \cup {<<>>} /\ reports'[r] \in Seq(Keys)
                         /\ count'[r] \in Nat
      <3> SUFFICES ASSUME r \in Loads
                   PROVE  /\ batch'[r] \in Batches \cup {<<>>} /\ reports'[r] \in Seq(Keys)
                          /\ count'[r] \in Nat
        OBVIOUS
      <3>1. LoadTransition(r)
        BY <1>2, LoadLocals
      <3>2. pc[r] = "recheck" /\ KeyMatches(r) => key[r] \in Keys
        BY NameOf DEF KeyMatches, Shape
      <3>3. /\ batch[r] \in Batches \cup {<<>>} /\ reports[r] \in Seq(Keys) /\ count[r] \in Nat
            /\ key[r] \in Keys => Append(reports[r], key[r]) \in Seq(Keys)
        BY AppendProperties DEF Shape
      <3> QED BY <3>1, <3>2, <3>3 DEF LoadTransition, SameLoad
    <2>5. /\ batch' \in [Loads -> Batches \cup {<<>>}] /\ reports' \in [Loads -> Seq(Keys)]
          /\ count' \in [Loads -> Nat]
      <3>1. ASSUME NEW u \in Loads
            PROVE  /\ batch'[u] \in Batches \cup {<<>>} /\ reports'[u] \in Seq(Keys)
                   /\ count'[u] \in Nat
        BY <2>1, <2>4 DEF Apart, Shape
      <3>2. /\ batch' = [u \in Loads |-> batch'[u]] /\ reports' = [u \in Loads |-> reports'[u]]
            /\ count' = [u \in Loads |-> count'[u]]
        BY <2>1 DEF Apart
      <3>3. batch' \in [Loads -> Batches \cup {<<>>}]
        BY <3>1, <3>2
      <3>4. reports' \in [Loads -> Seq(Keys)]
        BY <3>1, <3>2
      <3>5. count' \in [Loads -> Nat]
        BY <3>1, <3>2
      <3> QED BY <3>3, <3>4, <3>5
    <2>6. /\ name'[r] \in Names \cup {None} /\ key'[r] \in Keys \cup {None}
          /\ pc'[r] \notin {"new", "fetch", "done"} => name'[r] # None
      <3>1. ASSUME r \in Loads, pc[r] = "fetch"
            PROVE  batch[r][Len(reports[r]) + 1] \in Names
        <4>1. batch[r] \in Seq(Names) /\ Len(reports[r]) < Len(batch[r]) /\ reports[r] \in Seq(Keys)
          BY <3>1, ServerAssumption DEF LoadInv, Shape
        <4>2. Len(reports[r]) + 1 \in 1..Len(batch[r])
          BY <4>1
        <4> QED BY <4>1, <4>2
      <3>2. CASE /\ pc[r] = "fetch" /\ r \in Loads
                 /\ name'[r] = batch[r][Len(reports[r]) + 1] /\ key'[r] = KeyOf(name'[r])
        BY <3>1, <3>2, NameOf, ServerAssumption
      <3>3. CASE name'[r] = name[r] /\ key'[r] = key[r] /\ pc[r] \notin {"new", "fetch", "done"}
        BY <3>3 DEF Shape
      <3>4. CASE /\ name'[r] \in Names /\ key'[r] \in Keys \cup {None}
        BY <3>4, ServerAssumption
      <3>5. CASE Ends(r)
        <4>1. /\ name'[r] \in Names \cup {None} /\ key'[r] \in Keys \cup {None}
          BY <1>2, <3>5, NamesStay DEF Shape
        <4> QED BY <3>5, <4>1 DEF Ends
      <3>6. CASE pc'[r] = "fetch" /\ Moves(r)
        BY <3>6 DEF Moves, Shape
      <3>7. \/ Ends(r)
            \/ pc'[r] = "fetch" /\ Moves(r)
            \/ name'[r] \in Names /\ key'[r] \in Keys \cup {None}
            \/ /\ pc[r] = "fetch" /\ r \in Loads
               /\ name'[r] = batch[r][Len(reports[r]) + 1] /\ key'[r] = KeyOf(name'[r])
            \/ name'[r] = name[r] /\ key'[r] = key[r] /\ pc[r] \notin {"new", "fetch", "done"}
        BY <2>1 DEF Transition, Moves
      <3> QED BY <3>2, <3>3, <3>4, <3>5, <3>6, <3>7
    <2>7. /\ name' \in [Requests -> Names \cup {None}] /\ key' \in [Requests -> Keys \cup {None}]
          /\ \A u \in Requests : pc'[u] \notin {"new", "fetch", "done"} => name'[u] # None
      <3>1. ASSUME NEW u \in Requests
            PROVE  /\ name'[u] \in Names \cup {None} /\ key'[u] \in Keys \cup {None}
                   /\ pc'[u] \notin {"new", "fetch", "done"} => name'[u] # None
        <4>1. CASE u = r
          BY <2>6, <4>1
        <4>2. CASE u # r
          BY <2>1, <4>2 DEF Apart, Shape
        <4> QED BY <4>1, <4>2
      <3>2. /\ name' = [u \in Requests |-> name'[u]] /\ key' = [u \in Requests |-> key'[u]]
        BY <2>1 DEF Apart
      <3>3. name' \in [Requests -> Names \cup {None}]
        BY <3>1, <3>2
      <3>4. key' \in [Requests -> Keys \cup {None}]
        BY <3>1, <3>2
      <3> QED BY <3>1, <3>3, <3>4
    <2>8. /\ loaded' \in [Keys -> Names \cup {None}] /\ current' \in Names \cup {None}
          /\ schema' \in [Keys -> Keys \cup {None}]
      <3>1. r \in Loads /\ Register(r) => loaded' \in [Keys -> Names \cup {None}]
        <4> SUFFICES ASSUME r \in Loads, Register(r) PROVE loaded' \in [Keys -> Names \cup {None}]
          OBVIOUS
        <4>1. /\ batch[r] \in Seq(Names) /\ count'[r] = count[r] + 1 /\ count[r] \in Nat
              /\ Len(reports[r]) = Len(batch[r]) /\ count[r] < Len(reports[r])
              /\ loaded' = [loaded EXCEPT ![reports[r][count'[r]]] = batch[r][count'[r]]]
          BY ServerAssumption DEF Register, LoadInv, Prepared, Shape
        <4>2. count'[r] \in 1..Len(batch[r])
          BY <4>1
        <4>3. batch[r][count'[r]] \in Names
          BY <4>1, <4>2
        <4> QED BY <4>1, <4>3 DEF Shape
      <3>2. r \in Loads /\ Publish(r) => current' \in Names
        <4> SUFFICES ASSUME r \in Loads, Publish(r) PROVE current' \in Names
          OBVIOUS
        <4>1. batch[r] \in Seq(Names) /\ batch[r] # <<>> /\ current' = batch[r][Len(batch[r])]
          BY ServerAssumption DEF Publish, LoadInv, Shape, Last
        <4>2. Len(batch[r]) \in 1..Len(batch[r])
          BY <4>1
        <4> QED BY <4>1, <4>2
      <3>3. StoreStructure(r) => schema' \in [Keys -> Keys \cup {None}]
        <4> SUFFICES ASSUME StoreStructure(r) PROVE schema' \in [Keys -> Keys \cup {None}]
          OBVIOUS
        <4>1. /\ session[r].path \in Files /\ session[r].from \in Nat
              /\ session[r].from <= version[session[r].path]
          BY SessionFields DEF StoreStructure, SessionInv, Shape
        <4>2. session[r].from \in 0..MaxVersion
          BY <4>1, ServerAssumption DEF Shape
        <4>3. Content(r) \in Keys
          BY <4>1, <4>2 DEF Content, Keys
        <4> QED BY <4>3 DEF StoreStructure, Shape
      <3> QED BY <1>2, <3>1, <3>2, <3>3, StepShared DEF Shape
    <2> QED BY <2>1, <2>2, <2>3, <2>5, <2>7, <2>8 DEF Shape, disk, links
  <1> QED BY <1>1, <1>2, NextCases

LEMMA SessionInvKept == Shape /\ SessionInv /\ [Next]_vars => SessionInv'
PROOF
  <1> SUFFICES ASSUME Shape, SessionInv, [Next]_vars PROVE SessionInv'
    OBVIOUS
  <1>1. CASE World
    <2> SUFFICES ASSUME NEW u \in Requests
                 PROVE  /\ pc[u] = "wait" => session[u] \in Pool!Asking
                        /\ pc[u] \in {"check", "use", "recheck", "store"} => session[u] \in Pool!Open
                        /\ session[u] \in Pool!Asking => session[u].asked <= version'[session[u].path]
                        /\ session[u] \in Pool!Open =>
                             /\ session[u].asked <= session[u].from
                             /\ session[u].from <= version'[session[u].path]
      BY <1>1, WorldFrame DEF SessionInv
    <2>1. ASSUME NEW f \in Files
          PROVE  version[f] \in Nat /\ version'[f] \in Nat /\ version[f] <= version'[f]
      BY <1>1, WorldFrame DEF Shape
    <2>2. session[u] \in SessionTypes
      BY DEF Shape
    <2> QED BY <2>1, <2>2, SessionFields DEF SessionInv
  <1>2. ASSUME NEW r \in Requests, Step(r)
        PROVE  SessionInv'
    <2>1. Apart(r) /\ UNCHANGED disk /\ Transition(r)
      BY <1>2, StepFrame, StepLocals
    <2> DEFINE Good(p, x) ==
          /\ p = "wait" => x \in Pool!Asking
          /\ p \in {"check", "use", "recheck", "store"} => x \in Pool!Open
          /\ x \in Pool!Asking => x.asked <= version[x.path]
          /\ x \in Pool!Open => x.asked <= x.from /\ x.from <= version[x.path]
    <2>2. \A u \in Requests : Good(pc[u], session[u])
      BY DEF SessionInv
    <2>3. Good(pc'[r], session'[r])
      <3>1. CASE Ends(r)
        BY <3>1, SessionFields DEF Ends, SessionTypes
      <3>2. CASE session'[r] = session[r] /\ pc'[r] \notin {"wait", "check", "use", "recheck", "store"}
        BY <2>2, <3>2
      <3>3. CASE session'[r] = session[r] /\ pc[r] \in {"check", "use"} /\ pc'[r] \in {"use", "recheck", "store"}
        BY <2>2, <3>3
      <3>4. CASE /\ pc[r] = "ask" /\ pc'[r] = "wait"
                 /\ session'[r] = [state |-> "asking", path |-> target[name[r]],
                                   asked |-> version[target[name[r]]]]
        <4>1. name[r] \in Names
          BY <3>4 DEF Shape
        <4>2. target[name[r]] \in Files /\ version[target[name[r]]] \in Nat
          BY <4>1 DEF Shape
        <4>3. session'[r] \in Pool!Asking /\ session'[r] \notin Pool!Open
          BY <3>4, <4>2 DEF Pool!Asking, Pool!Open
        <4>4. session'[r].asked <= version[session'[r].path]
          BY <3>4, <4>2
        <4> QED BY <3>4, <4>3, <4>4
      <3>5. ASSUME NEW v \in Nat, NEW s \in Slots, session[r] \in Pool!Asking,
                   pc'[r] \in {"use", "check"}, session[r].asked <= v, v <= version[session[r].path],
                   session'[r] = [state |-> "open", path |-> session[r].path,
                                  asked |-> session[r].asked, from |-> v, slot |-> s]
            PROVE  Good(pc'[r], session'[r])
        <4>1. session[r].path \in Files /\ session[r].asked \in Nat
          BY <3>5, SessionFields DEF SessionTypes
        <4>2. session'[r] \in Pool!Open /\ session'[r] \notin Pool!Asking
          BY <3>5, <4>1 DEF Pool!Asking, Pool!Open
        <4>3. session'[r].asked <= session'[r].from /\ session'[r].from <= version[session'[r].path]
          BY <3>5
        <4> QED BY <3>5, <4>2, <4>3
      <3>6. CASE session'[r] = Pool!Closed /\ pc'[r] \in {"fetch", "register"}
        BY <3>6, SessionFields DEF SessionTypes
      <3> HIDE DEF Good
      <3> QED BY <2>1, <3>1, <3>2, <3>3, <3>4, <3>5, <3>6 DEF Transition, Moves
    <2>4. ASSUME NEW u \in Requests
          PROVE  Good(pc'[u], session'[u])
      <3>1. u # r => pc'[u] = pc[u] /\ session'[u] = session[u]
        BY <2>1 DEF Apart
      <3> HIDE DEF Good
      <3> QED BY <2>2, <2>3, <3>1
    <2> QED BY <2>1, <2>4 DEF SessionInv, disk, links
  <1> QED BY <1>1, <1>2, NextCases

LEMMA LoadInvKept == Shape /\ SessionInv /\ LoadInv /\ [Next]_vars => LoadInv'
PROOF
  <1> SUFFICES ASSUME Shape, SessionInv, LoadInv, [Next]_vars PROVE LoadInv'
    OBVIOUS
  <1> DEFINE Good(p, b, q, c) ==
        /\ p \notin {"new", "done"} => b \in Batches
        /\ p = "new" => q = <<>>
        /\ p \notin {"register", "publish", "done"} => c = 0
        /\ p \notin {"new", "register", "publish", "done"} => Len(q) < Len(b)
        /\ p \in {"register", "publish"} => Len(q) = Len(b)
        /\ p = "register" => c < Len(q)
        /\ p = "publish" => c = Len(q)
      Named(p, q, c, l) ==
        p \in {"register", "publish"} =>
          \A i \in 1..Len(q) : i <= c => l[q[i]] # None
  <1>0. \A u \in Loads : /\ Good(pc[u], batch[u], reports[u], count[u])
                         /\ Named(pc[u], reports[u], count[u], loaded)
    BY DEF LoadInv, Prepared
  <1>1. CASE World
    BY <1>1, WorldFrame DEF LoadInv, Prepared, load, state
  <1>2. ASSUME NEW r \in Requests, Step(r)
        PROVE  LoadInv'
    <2>1. Apart(r) /\ Shape'
      BY <1>2, StepFrame, ShapeKept
    <2>2. \A k \in Keys : loaded[k] # None => loaded'[k] # None
      <3>1. CASE r \in Loads /\ Register(r)
        <4>1. /\ loaded' = [loaded EXCEPT ![reports[r][count'[r]]] = batch[r][count'[r]]]
              /\ count'[r] = count[r] + 1 /\ count[r] \in Nat
              /\ Len(reports[r]) = Len(batch[r]) /\ count[r] < Len(reports[r])
              /\ batch[r] \in Seq(Names)
          BY <3>1, ServerAssumption DEF Register, LoadInv, Prepared, Shape
        <4>2. count'[r] \in 1..Len(batch[r])
          BY <4>1
        <4>3. batch[r][count'[r]] # None
          BY <4>1, <4>2, ServerAssumption
        <4> QED BY <4>1, <4>3 DEF Shape
      <3> QED BY <1>2, <3>1, StepShared
    <2>3. ASSUME r \in Loads
          PROVE  /\ Good(pc'[r], batch'[r], reports'[r], count'[r])
                 /\ Named(pc'[r], reports'[r], count'[r], loaded')
      <3>1. LoadTransition(r)
        BY <1>2, <2>3, LoadLocals
      <3>2. /\ Good(pc[r], batch[r], reports[r], count[r]) /\ Named(pc[r], reports[r], count[r], loaded)
            /\ reports[r] \in Seq(Keys) /\ count[r] \in Nat
            /\ batch[r] \in Batches => batch[r] \in Seq(Names) /\ Len(batch[r]) > 0
        BY <1>0, <2>3, ServerAssumption DEF Shape
      <3>3. CASE pc'[r] = "done"
        BY <3>3
      <3>4. CASE /\ pc[r] = "new" /\ pc'[r] = "fetch" /\ batch'[r] \in Batches
                 /\ reports'[r] = reports[r] /\ count'[r] = count[r]
        <4>1. Len(batch'[r]) > 0 /\ Len(reports'[r]) = 0
          BY <3>2, <3>4, ServerAssumption
        <4> QED BY <3>2, <3>4, <4>1
      <3>5. CASE /\ pc[r] = "recheck" /\ KeyMatches(r) /\ batch'[r] = batch[r] /\ count'[r] = count[r]
                 /\ reports'[r] = Append(reports[r], key[r])
                 /\ pc'[r] = (IF Len(reports'[r]) < Len(batch[r]) THEN "fetch" ELSE "register")
        <4>1. key[r] \in Keys
          <5>1. name[r] \in Names
            BY <3>5 DEF Shape
          <5> QED BY <3>5, <5>1, NameOf DEF KeyMatches
        <4>2. Len(reports'[r]) = Len(reports[r]) + 1
          BY <3>2, <3>5, <4>1, AppendProperties
        <4>3. Len(reports[r]) \in Nat /\ Len(batch[r]) \in Nat /\ Len(reports[r]) < Len(batch[r])
              /\ count[r] = 0 /\ batch[r] \in Batches
          BY <3>2, <3>5
        <4> QED BY <3>5, <4>2, <4>3
      <3>6. CASE /\ pc[r] = "register" /\ batch'[r] = batch[r] /\ reports'[r] = reports[r]
                 /\ count'[r] = count[r] + 1
                 /\ pc'[r] = (IF count'[r] < Len(reports[r]) THEN "register" ELSE "publish")
        <4>1. /\ Len(reports[r]) \in Nat /\ Len(reports[r]) = Len(batch[r]) /\ count[r] < Len(reports[r])
              /\ batch[r] \in Batches /\ batch[r] \in Seq(Names)
          BY <3>2, <3>6
        <4>2. /\ reports'[r] = reports[r]
              /\ Good(pc'[r], batch'[r], reports'[r], count'[r])
          BY <3>2, <3>6, <4>1
        <4>3. loaded' = [loaded EXCEPT ![reports[r][count'[r]]] = batch[r][count'[r]]]
          BY <1>2, <2>3, <3>6, RegisterStep
        <4>4. batch[r][count'[r]] # None
          <5>1. count'[r] \in 1..Len(batch[r])
            BY <3>2, <3>6, <4>1
          <5> QED BY <4>1, <5>1, ServerAssumption
        <4>5. ASSUME NEW i \in 1..Len(reports[r]), i <= count'[r]
              PROVE  loaded'[reports[r][i]] # None
          <5>1. reports[r][i] \in Keys
            BY <3>2
          <5>2. CASE i <= count[r]
            BY <2>2, <3>2, <3>6, <5>1, <5>2
          <5>3. CASE ~(i <= count[r])
            <6>1. i = count'[r]
              BY <3>2, <3>6, <4>5, <5>3
            <6> QED BY <4>3, <4>4, <5>1, <6>1 DEF Shape
          <5> QED BY <5>2, <5>3
        <4> QED BY <4>2, <4>5
      <3>7. CASE /\ pc[r] \notin {"new", "register", "publish", "done"}
                 /\ pc'[r] \notin {"new", "register", "publish", "done"} /\ SameLoad(r)
        BY <3>2, <3>7 DEF SameLoad
      <3> HIDE DEF Good, Named
      <3> QED BY <3>1, <3>3, <3>4, <3>5, <3>6, <3>7 DEF LoadTransition
    <2>4. ASSUME NEW u \in Loads
          PROVE  /\ Good(pc'[u], batch'[u], reports'[u], count'[u])
                 /\ Named(pc'[u], reports'[u], count'[u], loaded')
      <3>1. CASE u = r
        BY <2>3, <3>1
      <3>2. CASE u # r
        <4>1. /\ pc'[u] = pc[u] /\ batch'[u] = batch[u] /\ reports'[u] = reports[u] /\ count'[u] = count[u]
              /\ reports[u] \in Seq(Keys)
          BY <2>1, <3>2 DEF Apart, Requests, Shape
        <4>2. Named(pc'[u], reports'[u], count'[u], loaded')
          BY <1>0, <2>2, <4>1
        <4>3. Good(pc'[u], batch'[u], reports'[u], count'[u])
          BY <1>0, <4>1
        <4> QED BY <4>2, <4>3
      <3> QED BY <3>1, <3>2
    <2> QED BY <2>4 DEF LoadInv, Prepared
  <1> QED BY <1>1, <1>2, NextCases

LEMMA KeyInvKept ==
  ASSUME Shape, Shape', SessionInv, KeyInv, [Next]_vars
  PROVE  KeyInv'
PROOF
  <1> DEFINE Good(p, x, n, k, u, led) ==
        k # None =>
          /\ p \in {"ask", "wait", "check"} => k.version <= version[k.file]
          /\ p \in {"wait", "check"} =>
               \/ x.path = k.file /\ k.version <= x.asked
               \/ target[n] # k.file
               \/ <<u, k>> \in led
          /\ p \in {"use", "recheck", "store"} => [file |-> x.path, version |-> x.from] = k \/ <<u, k>> \in led
  <1>0. \A u \in Requests : Good(pc[u], session[u], name[u], key[u], u, ledBack)
    BY DEF KeyInv, Content
  <1>1. CASE World
    <2>1. /\ UNCHANGED <<session, pc, name, key>>
          /\ \A f \in Files : version[f] \in Nat /\ version'[f] \in Nat /\ version[f] <= version'[f]
          /\ UNCHANGED links \/ \E n \in Names, f \in Files : Retarget(n, f)
      BY <1>1, WorldFrame DEF Shape
    <2>2. ASSUME NEW u \in Requests, key[u] # None, pc[u] \in {"wait", "check"},
                 target[name[u]] # key[u].file
          PROVE  target'[name[u]] # key[u].file \/ <<u, key[u]>> \in ledBack'
      <3>1. ASSUME NEW n \in Names, NEW f \in Files, Retarget(n, f), target'[name[u]] = key[u].file
            PROVE  <<u, key[u]>> \in ledBack'
        <4>1. target' = [target EXCEPT ![n] = f]
          BY <3>1 DEF Retarget
        <4>2. name[u] = n /\ f = key[u].file
          BY <2>2, <3>1, <4>1 DEF Shape
        <4>3. u \in WaitsFor(n, f)
          BY <2>2, <4>2 DEF WaitsFor
        <4> QED BY <3>1, <4>3 DEF Retarget
      <3> QED BY <2>1, <2>2, <3>1 DEF links
    <2>3. ledBack \subseteq ledBack'
      BY <2>1 DEF links, Retarget
    <2>4. ASSUME NEW u \in Requests, key[u] # None
          PROVE  /\ pc[u] \in {"ask", "wait", "check"} => key[u].version <= version'[key[u].file]
                 /\ pc[u] \in {"wait", "check"} =>
                      \/ session[u].path = key[u].file /\ key[u].version <= session[u].asked
                      \/ target'[name[u]] # key[u].file
                      \/ <<u, key[u]>> \in ledBack'
                 /\ pc[u] \in {"use", "recheck", "store"} =>
                      Content(u) = key[u] \/ <<u, key[u]>> \in ledBack'
      <3>1. key[u].file \in Files /\ key[u].version \in Nat
        BY <2>4 DEF Shape, Keys
      <3>2. version[key[u].file] \in Nat /\ version'[key[u].file] \in Nat
            /\ version[key[u].file] <= version'[key[u].file]
        BY <2>1, <3>1
      <3> QED BY <2>2, <2>3, <2>4, <3>1, <3>2 DEF KeyInv
    <2> QED BY <2>1, <2>4 DEF KeyInv, Content
  <1>2. ASSUME NEW r \in Requests, Step(r)
        PROVE  KeyInv'
    <2>1. Apart(r) /\ UNCHANGED disk /\ Transition(r)
      BY <1>2, StepFrame, StepLocals
    <2>2. \A n \in Names : target[n] \in Files /\ version[target[n]] \in Nat
      BY DEF Shape
    <2>5. ledBack' = ledBack /\ target' = target /\ version' = version
      BY <2>1 DEF disk, links
    <2>3. Good(pc'[r], session'[r], name'[r], key'[r], r, ledBack')
      <3>1. CASE pc'[r] \notin {"ask", "wait", "check", "use", "recheck", "store"}
        BY <3>1
      <3>2. CASE key'[r] = None
        BY <3>2
      <3>3. CASE /\ pc'[r] = "ask" /\ name'[r] \in Names /\ key'[r] = KeyOf(name'[r])
        BY <2>2, <3>3 DEF KeyOf
      <3>4. CASE /\ pc[r] = "ask" /\ pc'[r] = "wait" /\ name'[r] = name[r] /\ key'[r] = key[r]
                 /\ session'[r] = [state |-> "asking", path |-> target[name[r]],
                                   asked |-> version[target[name[r]]]]
        <4>1. key[r] # None => key[r].version <= version[key[r].file]
          BY <3>4 DEF KeyInv
        <4>2. session'[r].path = target[name[r]] /\ session'[r].asked = version[target[name[r]]]
          BY <3>4
        <4>3. key[r] # None =>
                \/ session'[r].path = key[r].file /\ key[r].version <= session'[r].asked
                \/ target[name[r]] # key[r].file
          BY <4>1, <4>2
        <4> QED BY <3>4, <4>1, <4>3
      <3>5. ASSUME NEW v \in Nat, NEW s \in Slots,
                   pc[r] = "wait", pc'[r] = "check", name'[r] = name[r], key'[r] = key[r],
                   session'[r] = [state |-> "open", path |-> session[r].path,
                                  asked |-> session[r].asked, from |-> v, slot |-> s]
            PROVE  Good(pc'[r], session'[r], name'[r], key'[r], r, ledBack')
        <4>1. key[r] # None =>
                /\ key[r].version <= version[key[r].file]
                /\ \/ session[r].path = key[r].file /\ key[r].version <= session[r].asked
                   \/ target[name[r]] # key[r].file
                   \/ <<r, key[r]>> \in ledBack
          BY <3>5 DEF KeyInv
        <4>2. session'[r].path = session[r].path /\ session'[r].asked = session[r].asked
          BY <3>5
        <4> QED BY <2>5, <3>5, <4>1, <4>2
      <3>6. CASE pc[r] = "check" /\ pc'[r] = "use" /\ Moves(r) /\ KeyMatches(r)
        <4>1. /\ name[r] \in Names /\ key[r] = [file |-> target[name[r]], version |-> version[target[name[r]]]]
          BY <3>6 DEF KeyMatches, KeyOf, Shape
        <4>2. session[r].path \in Files /\ session[r].asked \in Nat /\ session[r].from \in Nat
              /\ session[r].asked <= session[r].from /\ session[r].from <= version[session[r].path]
          BY <3>6, SessionFields DEF SessionInv, Shape
        <4>3. CASE key[r] # None /\ <<r, key[r]>> \notin ledBack
          <5>1. session[r].path = target[name[r]] /\ version[target[name[r]]] <= session[r].asked
            <6>1. \/ session[r].path = key[r].file /\ key[r].version <= session[r].asked
                  \/ target[name[r]] # key[r].file
              BY <3>6, <4>3 DEF KeyInv
            <6> QED BY <4>1, <6>1
          <5>2. session[r].from = version[target[name[r]]]
            BY <2>2, <4>1, <4>2, <5>1
          <5> QED BY <3>6, <4>1, <5>1, <5>2 DEF Moves
        <4> QED BY <2>5, <3>2, <3>6, <4>3 DEF Moves
      <3>7. CASE pc[r] = "use" /\ pc'[r] \in {"use", "recheck", "store"} /\ Moves(r)
        BY <1>0, <2>5, <3>7 DEF Moves
      <3>8. pc[r] = "verify" /\ KeyMatches(r) => name[r] \in Names /\ key[r] = KeyOf(name[r])
        BY DEF KeyMatches, Shape
      <3>9. pc[r] = "fetch" /\ r \in Loads /\ pc'[r] = "ask" => name'[r] \in Names
        BY DEF Shape
      <3> HIDE DEF Good
      <3>10. Ends(r) \/ pc'[r] \notin {"ask", "wait", "check", "use", "recheck", "store"}
               => Good(pc'[r], session'[r], name'[r], key'[r], r, ledBack')
        BY <3>1 DEF Ends
      <3>11. pc[r] = "verify" /\ pc'[r] = "ask" /\ Moves(r) /\ KeyMatches(r)
               => Good(pc'[r], session'[r], name'[r], key'[r], r, ledBack')
        BY <3>3, <3>8 DEF Moves
      <3>12. CASE pc[r] = "wait" /\ pc'[r] = "check"
        BY <2>1, <3>5, <3>12 DEF Transition, Moves, Ends
      <3>13. CASE pc[r] = "wait" /\ pc'[r] = "use"
        BY <2>1, <3>2, <3>13 DEF Transition, Moves, Ends
      <3> QED
        BY <2>1, <3>2, <3>3, <3>4, <3>6, <3>7, <3>9, <3>10, <3>11, <3>12, <3>13 DEF Transition
    <2>4. ASSUME NEW u \in Requests
          PROVE  Good(pc'[u], session'[u], name'[u], key'[u], u, ledBack')
      <3>1. u # r => /\ pc'[u] = pc[u] /\ session'[u] = session[u]
                     /\ name'[u] = name[u] /\ key'[u] = key[u]
        BY <2>1 DEF Apart
      <3> HIDE DEF Good
      <3> QED BY <1>0, <2>3, <2>5, <3>1
    <2> QED BY <2>1, <2>4 DEF KeyInv, Content, disk, links
  <1> QED BY <1>1, <1>2, NextCases
-----------------------------------------------------------------------------
LEMMA InitHolds == Init => Shape /\ SessionInv /\ LoadInv /\ KeyInv
PROOF
  <1> SUFFICES ASSUME Init PROVE Shape /\ SessionInv /\ LoadInv /\ KeyInv
    OBVIOUS
  <1>1. /\ version = [f \in Files |-> 0] /\ session = [r \in Requests |-> Pool!Closed]
        /\ pc = [r \in Requests |-> "new"] /\ reports = [r \in Loads |-> <<>>]
        /\ count = [r \in Loads |-> 0] /\ key = [r \in Requests |-> None]
    BY DEF Init, Pool!PoolInit
  <1>2. \A r \in Requests : pc[r] = "new" /\ session[r] = Pool!Closed
    BY <1>1
  <1>3. Shape
    BY <1>1, ServerAssumption DEF Init, Shape, SessionTypes, PCs
  <1>4. SessionInv
    BY <1>2, SessionFields DEF SessionInv, SessionTypes
  <1>5. LoadInv
    BY <1>1 DEF LoadInv, Requests
  <1>6. KeyInv
    BY <1>1 DEF KeyInv
  <1> QED BY <1>3, <1>4, <1>5, <1>6

ServerInv == Shape /\ SessionInv /\ LoadInv

LEMMA ServerInvHolds == Spec => []ServerInv
PROOF
  <1>1. Init => ServerInv
    BY InitHolds DEF ServerInv
  <1>2. ServerInv /\ [Next]_vars => ServerInv'
    BY ShapeKept, SessionInvKept, LoadInvKept DEF ServerInv
  <1> QED BY <1>1, <1>2, PTL DEF Spec

\* A load that fails, is cancelled or is not yet through with its batch registers and
\* selects nothing (prepare_loaded_trace, register_loaded_trace): whatever the traces,
\* the batches, the calls and the slots, and however often files and links change.
THEOREM BatchIsAtomic == Spec => BatchAtomic
PROOF
  <1> DEFINE Atomic ==
        /\ loaded' # loaded => \E r \in Loads : pc[r] = "register" /\ Prepared(r)
        /\ current' # current =>
             \E r \in Loads : /\ pc[r] = "publish" /\ Prepared(r)
                              /\ \A i \in DOMAIN batch[r] : loaded[reports[r][i]] # None
  <1>1. ServerInv /\ [Next]_vars => [Atomic]_vars
    <2> SUFFICES ASSUME Shape, LoadInv, [Next]_vars PROVE Atomic
      BY DEF ServerInv
    <2>1. CASE World
      BY <2>1, WorldFrame DEF state
    <2>2. ASSUME NEW r \in Requests, Step(r)
          PROVE  Atomic
      <3>1. r \in Loads /\ Register(r) => pc[r] = "register" /\ Prepared(r)
        BY DEF Register, LoadInv
      <3>2. r \in Loads /\ Publish(r) =>
              /\ pc[r] = "publish" /\ Prepared(r)
              /\ \A i \in DOMAIN batch[r] : loaded[reports[r][i]] # None
        <4> SUFFICES ASSUME r \in Loads, Publish(r), NEW i \in DOMAIN batch[r]
                     PROVE  pc[r] = "publish" /\ Prepared(r) /\ loaded[reports[r][i]] # None
          BY DEF Publish, LoadInv
        <4>1. pc[r] = "publish" /\ Prepared(r) /\ count[r] = Len(reports[r]) /\ reports[r] \in Seq(Keys)
              /\ batch[r] \in Seq(Names)
          BY ServerAssumption DEF Publish, LoadInv, Shape
        <4>2. i \in 1..Len(reports[r]) /\ i <= count[r]
          BY <4>1 DEF Prepared
        <4> QED BY <4>1, <4>2 DEF LoadInv
      <3> QED BY <2>2, <3>1, <3>2, StepShared
    <2> QED BY <2>1, <2>2, NextCases
  <1> QED BY <1>1, ServerInvHolds, PTL DEF Spec, BatchAtomic

LEMMA KeyInvHolds == Spec => [](ServerInv /\ KeyInv)
PROOF
  <1>1. Init => ServerInv /\ KeyInv
    BY InitHolds DEF ServerInv
  <1>2. ServerInv /\ KeyInv /\ [Next]_vars => (ServerInv /\ KeyInv)'
    BY ShapeKept, SessionInvKept, LoadInvKept, KeyInvKept DEF ServerInv
  <1> QED BY <1>1, <1>2, PTL DEF Spec

\* What a call that selected a trace_id, or loads a path, reads from the process it was
\* given is what it selected: however the file changes before get_client, while the call
\* waits for its slot, and after, and however its link is led elsewhere, unless the link is
\* back before the key is compared again (client_for_trace, prepare_loaded_trace).
THEOREM ReadsAreSelected == Spec => []ReadsSelected
PROOF
  <1>1. KeyInv => ReadsSelected
    BY DEF KeyInv, ReadsSelected
  <1> QED BY <1>1, KeyInvHolds, PTL

\* schema_cache keeps a table structure under the content it was read from, but for a call
\* whose link was led back while get_client ran.
THEOREM StructuresAreExact == Spec => SchemaExact
PROOF
  <1> DEFINE Exact == \A k \in Keys :
               \/ schema'[k] \in {schema[k], k}
               \/ \E r \in Structures : pc[r] = "store" /\ key[r] = k /\ <<r, k>> \in ledBack
  <1>1. ServerInv /\ KeyInv /\ [Next]_vars => [Exact]_vars
    <2> SUFFICES ASSUME Shape, KeyInv, [Next]_vars PROVE Exact
      BY DEF ServerInv
    <2>1. CASE World
      BY <2>1, WorldFrame DEF state
    <2>2. ASSUME NEW r \in Requests, Step(r)
          PROVE  Exact
      <3>1. CASE r \in Structures /\ StoreStructure(r)
        <4>1. schema' = [schema EXCEPT ![key[r]] = Content(r)] /\ pc[r] = "store"
              /\ schema \in [Keys -> Keys \cup {None}]
          BY <3>1 DEF StoreStructure, Shape
        <4>2. key[r] \in Keys => Content(r) = key[r] \/ <<r, key[r]>> \in ledBack
          BY <4>1, NoneAssumption DEF KeyInv
        <4> QED BY <3>1, <4>1, <4>2
      <3>2. schema' = schema \/ (r \in Structures /\ StoreStructure(r))
        BY <2>2, StepShared
      <3> QED BY <3>1, <3>2
    <2> QED BY <2>1, <2>2, NextCases
  <1> QED BY <1>1, KeyInvHolds, PTL DEF Spec, SchemaExact
-----------------------------------------------------------------------------
\* The processes the pool keeps, and those in use that have the view of a query.
ProcessInv == made \subseteq Slots /\ kept \subseteq KeptProcess

LEMMA HangUpTyped ==
  ASSUME Shape, SessionInv, ProcessInv, NEW r \in Requests, HangUp(r)
  PROVE  ProcessInv'
PROOF
  <1>1. CASE ~(Connected(r) /\ Sharing(session[r].slot) = {r})
    BY <1>1 DEF HangUp, ProcessInv
  <1>2. CASE Connected(r) /\ Sharing(session[r].slot) = {r}
    <2>1. session[r].path \in Files /\ session[r].from \in 0..MaxVersion
      <3>1. session[r] \in Pool!Open /\ session[r].path \in Files /\ session[r].from \in Nat
        BY <1>2, SessionFields DEF Connected, Shape
      <3>2. session[r].from <= version[session[r].path]
        BY <3>1 DEF SessionInv
      <3>3. version[session[r].path] \in Nat /\ version[session[r].path] <= MaxVersion
        BY <3>1 DEF Shape
      <3> QED BY <3>1, <3>2, <3>3, ServerAssumption
    <2>2. [file |-> session[r].path, version |-> session[r].from,
           made |-> session[r].slot \in made] \in KeptProcess
      BY <2>1 DEF KeptProcess
    <2> QED BY <1>2, <2>2 DEF HangUp, ProcessInv
  <1> QED BY <1>1, <1>2

LEMMA ProcessInvKept == Shape /\ SessionInv /\ ProcessInv /\ [Next]_vars => ProcessInv'
PROOF
  <1> SUFFICES ASSUME Shape, SessionInv, ProcessInv, [Next]_vars PROVE ProcessInv'
    OBVIOUS
  <1>1. CASE World
    BY <1>1 DEF World, WriteFile, Retarget, Evict, pool, vars, ProcessInv
  <1>2. ASSUME NEW r \in Requests, Step(r)
        PROVE  ProcessInv'
    <2>1. CASE HangUp(r)
      BY <2>1, HangUpTyped
    <2>2. CASE UNCHANGED <<made, kept>>
      BY <2>2 DEF ProcessInv
    <2>3. CASE Connect(r)
      <3>1. PICK s \in Slots :
              /\ kept' \subseteq kept
              /\ made' = made \/ made' = made \cup {s}
        BY <2>3 DEF Connect
      <3> QED BY <3>1 DEF ProcessInv
    <2>4. CASE r \in Queries /\ IncludeModule(r)
      <3>1. session[r].slot \in Slots
        BY <2>4, SessionFields DEF IncludeModule, SessionInv, Shape
      <3> QED BY <2>4, <3>1 DEF IncludeModule, ProcessInv
    <2>5. \A l : EnsureThen(r, l) => HangUp(r) \/ UNCHANGED <<made, kept>>
      BY DEF EnsureThen, Return
    <2> QED
      BY <1>2, <2>1, <2>2, <2>3, <2>4, <2>5
         DEF Step, Begin, Proceed, LoadTrace, SelectCurrent, SelectId, FetchKey, Verify, Check, Screen,
             Ask, ReadStatus, TableInfo, Lookup, Report, Released, Register, Publish, Answer,
             StoreStructure, GetClientFails, Cancel, Return
  <1> QED BY <1>1, <1>2, NextCases

\* Every variable of the server has its type; in particular a call that works on a path
\* has one, and what the pool keeps idle is a process of a version the file had.
THEOREM ServerTypeCorrect == Spec => []TypeOK
PROOF
  <1>1. Init => ServerInv /\ ProcessInv
    BY InitHolds DEF ServerInv, Init, ProcessInv
  <1>2. ServerInv /\ ProcessInv /\ [Next]_vars => (ServerInv /\ ProcessInv)'
    BY ShapeKept, SessionInvKept, LoadInvKept, ProcessInvKept DEF ServerInv
  <1>3. ServerInv /\ ProcessInv => TypeOK
    BY DEF ServerInv, ProcessInv, Shape, TypeOK, SessionTypes, Pool!PoolTypeOK, Pool!Closed,
           Pool!Asking, Pool!Open
  <1> QED BY <1>1, <1>2, <1>3, PTL DEF Spec

LEMMA HangUpIsPool ==
  ASSUME Shape, NEW r \in Requests, HangUp(r), UNCHANGED version
  PROVE  [Pool!PoolNext]_<<version, session>>
PROOF
  <1>1. session[r] \in {Pool!Closed} \cup Pool!Asking \cup Pool!Open
    BY DEF Shape, SessionTypes
  <1>2. session' = [session EXCEPT ![r] = Pool!Closed]
    BY DEF HangUp
  <1>3. CASE session[r] = Pool!Closed
    <2>1. session' = session
      BY <1>2, <1>3 DEF Shape
    <2> QED BY <2>1
  <1>4. CASE session[r] \in Pool!Asking
    BY <1>2, <1>4 DEF Pool!GiveUp, Pool!PoolNext
  <1>5. CASE session[r] \in Pool!Open
    BY <1>2, <1>5 DEF Pool!Close, Pool!PoolNext
  <1> QED BY <1>1, <1>3, <1>4, <1>5

\* The server uses the manager through get_client and the drop of the client it got, and
\* in the order the manager allows: what the pool sees of the server is a behaviour of
\* TracePool, which InstanceManager implements.
THEOREM ServerKeepsToPool == Spec => Pool!PoolSpec
PROOF
  <1>1. Init => Pool!PoolInit
    BY DEF Init
  <1>2. ServerInv /\ [Next]_vars => [Pool!PoolNext]_<<version, session>>
    <2> SUFFICES ASSUME Shape, [Next]_vars PROVE [Pool!PoolNext]_<<version, session>>
      BY DEF ServerInv
    <2>1. CASE World
      BY <2>1 DEF World, WriteFile, Retarget, Evict, pool, disk, links, vars, Pool!PoolNext
    <2>2. ASSUME NEW r \in Requests, Step(r)
          PROVE  [Pool!PoolNext]_<<version, session>>
      <3>1. UNCHANGED version
        BY <2>2, StepFrame DEF disk, links
      <3>2. CASE HangUp(r)
        BY <3>1, <3>2, HangUpIsPool
      <3>3. CASE UNCHANGED session
        BY <3>1, <3>3
      <3>4. CASE Ask(r)
        <4>1. target[name[r]] \in Files
          BY <3>4 DEF Ask, Shape
        <4> QED BY <3>4, <4>1 DEF Ask, Pool!PoolNext
      <3>5. CASE Connect(r)
        BY <3>5 DEF Connect, Pool!PoolNext
      <3>6. \A l : EnsureThen(r, l) => HangUp(r) \/ UNCHANGED session
        BY DEF EnsureThen, Return
      <3> QED
        BY <2>2, <3>2, <3>3, <3>4, <3>5, <3>6
           DEF Step, Begin, Proceed, LoadTrace, SelectCurrent, SelectId, FetchKey, Verify, Check,
               Screen, ReadStatus, TableInfo, Lookup, Report, Released, Register, Publish, Answer,
               StoreStructure, GetClientFails, Cancel, Return, IncludeModule
    <2> QED BY <2>1, <2>2, NextCases
  <1> QED BY <1>1, <1>2, ServerInvHolds, PTL DEF Spec, Pool!PoolSpec
=============================================================================
