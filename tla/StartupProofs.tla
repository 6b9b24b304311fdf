--------------------------- MODULE StartupProofs ---------------------------
(***************************************************************************)
(* What holds of every start of a trace_processor_shell, whatever the      *)
(* delays and timeouts.                                                    *)
(***************************************************************************)
EXTENDS Startup, TLAPS

\* A fact about the waiting task's actions that most steps need: they leave the child's
\* attempt to listen and its output alone, and only AskStatus writes what it has seen.
Waits ==
  \/ ChildGone \/ BindFailed \/ KeepWaiting
  \/ AnswerReady \/ AnswerFallback \/ AnswerWrong \/ StatusFails

\* Every step is one of these.
LEMMA Steps ==
  Next <=> \/ Waits \/ AskStatus \/ Wake \/ Tick \/ DrainLine
           \/ Listens \/ CannotListen \/ Exits \/ OtherStops
           \/ \E name \in OtherNames : OtherListens(name)
  BY DEF Next, Proceed, Environment, Waits

\* What the drain task sends is a StartupState.
LEMMA VerdictType ==
  ASSUME NEW line PROVE Verdict(line) \in {"waiting", "ready", "bindFailed"}
  BY DEF Verdict
-----------------------------------------------------------------------------
\* Types (wait_ready, spawn_output_drain).
THEOREM TypeCorrect == Spec => []TypeOK
<1>1. Init => TypeOK
  BY StartupAssumption DEF Init, TypeOK, Lines
<1>2. TypeOK /\ [Next]_vars => TypeOK'
  <2> SUFFICES ASSUME TypeOK, [Next]_vars PROVE TypeOK'
    OBVIOUS
  <2> USE StartupAssumption
  <2>1. CASE Waits
    <3>1. UNCHANGED <<clock, exitedAt, bind, stderr, other, drain, news, seen>>
      BY <2>1 DEF Waits, ChildGone, BindFailed, KeepWaiting, AnswerReady, AnswerFallback,
           AnswerWrong, StatusFails
    <3>2. okSince' \in {okSince, None, FirstOk} /\ lastBad' \in {lastBad, clock}
      BY <2>1 DEF Waits, ChildGone, BindFailed, KeepWaiting, AnswerReady, AnswerFallback,
           AnswerWrong, StatusFails, wait
    <3>3. /\ child' \in {child, "exited"} /\ pc' \in {"done", "pause"}
          /\ since' \in {since, clock}
          /\ result' \in {result, "ok", "exited", "bindFailed", "timeout"}
      BY <2>1 DEF Waits, ChildGone, BindFailed, KeepWaiting, AnswerReady, AnswerFallback,
           AnswerWrong, StatusFails, EndIteration, Fail, Succeed
    <3> QED
      BY <3>1, <3>2, <3>3 DEF TypeOK, FirstOk, drain
  <2>2. CASE AskStatus
    BY <2>2 DEF TypeOK, AskStatus, process, drain, wait
  <2>3. CASE Wake
    BY <2>3 DEF TypeOK, Wake, process, drain, wait
  <2>4. CASE Tick
    BY <2>4 DEF TypeOK, Tick, process, drain, waiter, wait
  <2>5. CASE DrainLine
    <3>1. /\ stderr' \in Seq(Lines)
          /\ log' \in SUBSET {"started", "failed"}
          /\ state' \in {"waiting", "ready", "bindFailed"}
          /\ news' \in {"none", "unseen"}
      <4>1. stderr' \in Seq(Lines)
        BY <2>5 DEF TypeOK, DrainLine
      <4>2. CASE state = "waiting"
        <5>1. /\ state' = Verdict(Head(stderr))
              /\ news' = IF state' = "waiting" THEN news ELSE "unseen"
              /\ log' \subseteq log \cup {"started", "failed"}
          BY <2>5, <4>2 DEF DrainLine
        <5> QED
          BY <4>1, <5>1, VerdictType DEF TypeOK
      <4>3. CASE state # "waiting"
        BY <2>5, <4>1, <4>3 DEF TypeOK, DrainLine, drain
      <4> QED
        BY <4>2, <4>3
    <3>2. UNCHANGED <<clock, child, exitedAt, bind, other, pc, since, seen, wait, result>>
      BY <2>5 DEF DrainLine
    <3> QED
      BY <3>1, <3>2 DEF TypeOK, wait
  <2>6. CASE Listens \/ CannotListen
    <3>1. stderr' \in Seq(Lines)
      <4>1. \/ stderr' = <<>>
            \/ stderr' = <<"starting", "usable">>
            \/ stderr' = <<"starting", "bindFailed">>
            \/ stderr' = <<"starting", "bindFailed", "usable">>
        BY <2>6 DEF Listens, CannotListen
      <4>2. <<"starting", "usable">> \in Seq(Lines) /\ <<>> \in Seq(Lines)
        BY DEF Lines
      <4>3. <<"starting", "bindFailed">> \in Seq(Lines)
        BY DEF Lines
      <4>4. <<"starting", "bindFailed", "usable">> \in Seq(Lines)
        BY DEF Lines
      <4> QED
        BY <4>1, <4>2, <4>3, <4>4
    <3>2. bind' \in {"bound", "refused"} /\ UNCHANGED <<clock, child, exitedAt, other, drain, waiter>>
      BY <2>6 DEF Listens, CannotListen
    <3> QED
      BY <3>1, <3>2 DEF TypeOK, drain, waiter, wait
  <2>7. CASE Exits \/ OtherStops
    BY <2>7 DEF TypeOK, Exits, OtherStops, drain, waiter, wait
  <2>8. CASE \E name \in OtherNames : OtherListens(name)
    BY <2>8 DEF TypeOK, OtherListens, drain, waiter, wait
  <2>9. CASE UNCHANGED vars
    BY <2>9 DEF TypeOK, vars
  <2> QED
    BY <2>1, <2>2, <2>3, <2>4, <2>5, <2>6, <2>7, <2>8, <2>9, Steps
<1> QED
  BY <1>1, <1>2, PTL DEF Spec
-----------------------------------------------------------------------------
(***************************************************************************)
(* The deadline.  A pause begins before it and lasts one interval, so that *)
(* the last request is sent no later than at the deadline.                 *)
(***************************************************************************)
TimeInv ==
  /\ result = "none" => pc # "done"
  /\ pc = "check" => clock <= StartupTimeout
  /\ pc = "status" => since <= StartupTimeout /\ since <= clock /\ clock <= since + RequestTimeout
  /\ pc = "pause" => since < StartupTimeout /\ clock <= since + 1

LEMMA TimeStep == TypeOK /\ TimeInv /\ [Next]_vars => TimeInv'
<1> SUFFICES ASSUME TypeOK, TimeInv, [Next]_vars PROVE TimeInv'
  OBVIOUS
<1>0. /\ clock \in Nat /\ since \in Nat
      /\ StartupTimeout \in Nat /\ RequestTimeout \in Nat
  BY StartupAssumption DEF TypeOK
<1>1. CASE Waits
  <2>1. pc \in {"check", "status"} /\ clock' = clock
    BY <1>1 DEF Waits, ChildGone, BindFailed, KeepWaiting, AnswerReady, AnswerFallback,
         AnswerWrong, StatusFails
  <2>2. \/ pc' = "done" /\ result' # "none"
        \/ pc' = "pause" /\ since' = clock /\ clock < StartupTimeout
    BY <1>1, <1>0 DEF Waits, ChildGone, BindFailed, KeepWaiting, AnswerReady, AnswerFallback,
         AnswerWrong, StatusFails, EndIteration, Fail, Succeed
  <2> QED
    BY <1>0, <2>1, <2>2 DEF TimeInv
<1>2. CASE AskStatus
  BY <1>0, <1>2 DEF TimeInv, AskStatus
<1>3. CASE Wake
  BY <1>0, <1>3 DEF TimeInv, Wake
<1>4. CASE Tick
  BY <1>0, <1>4 DEF TimeInv, Tick, waiter
<1>5. CASE DrainLine \/ Listens \/ CannotListen \/ Exits \/ OtherStops
  BY <1>5 DEF TimeInv, DrainLine, Listens, CannotListen, Exits, OtherStops, waiter
<1>6. CASE \E name \in OtherNames : OtherListens(name)
  BY <1>6 DEF TimeInv, OtherListens, waiter
<1>7. CASE UNCHANGED vars
  BY <1>7 DEF TimeInv, vars
<1> QED
  BY <1>1, <1>2, <1>3, <1>4, <1>5, <1>6, <1>7, Steps

\* wait_ready returns within one request timeout of its deadline.
THEOREM WaitIsBounded == Spec => []WaitBounded
<1>1. Init => TimeInv
  BY StartupAssumption DEF Init, TimeInv
<1>2. TypeOK /\ TimeInv => WaitBounded
  BY StartupAssumption DEF TypeOK, TimeInv, WaitBounded
<1> QED
  BY <1>1, <1>2, TypeCorrect, TimeStep, PTL DEF Spec
-----------------------------------------------------------------------------
(***************************************************************************)
(* The marker.  When the port was refused and no verdict has been sent,    *)
(* the line that says so is still to be read, and before "usable".         *)
(***************************************************************************)
Unread == {<<>>, <<"starting", "bindFailed">>, <<"starting", "bindFailed", "usable">>,
           <<"bindFailed">>, <<"bindFailed", "usable">>}

MarkerInv ==
  /\ bind = "closed" => stderr = <<>>
  /\ bind = "refused" /\ state = "waiting" => stderr \in Unread
  /\ state = "ready" => bind = "bound"
  /\ seen = "ready" => bind = "bound"

LEMMA MarkerStep == TypeOK /\ MarkerInv /\ [Next]_vars => MarkerInv'
<1> SUFFICES ASSUME TypeOK, MarkerInv, [Next]_vars PROVE MarkerInv'
  OBVIOUS
<1>1. CASE Waits
  BY <1>1 DEF MarkerInv, Waits, ChildGone, BindFailed, KeepWaiting, AnswerReady,
       AnswerFallback, AnswerWrong, StatusFails, drain
<1>2. CASE AskStatus
  BY <1>2 DEF MarkerInv, AskStatus, process, drain
<1>3. CASE Wake \/ Tick
  BY <1>3 DEF MarkerInv, Wake, Tick, process, drain, waiter
<1>4. CASE DrainLine
  <2>1. bind # "closed"
    BY <1>4 DEF MarkerInv, DrainLine
  <2>2. CASE bind = "bound"
    BY <1>4, <2>1, <2>2 DEF MarkerInv, DrainLine
  <2>3. CASE bind = "refused" /\ state # "waiting"
    BY <1>4, <2>3 DEF MarkerInv, DrainLine, drain
  <2>4. CASE bind = "refused" /\ state = "waiting"
    <3>1. Head(stderr) \in {"starting", "bindFailed"}
      BY <1>4, <2>4 DEF MarkerInv, DrainLine, Unread
    <3>2. Head(stderr) = "starting" => Tail(stderr) \in Unread
      <4>1. Head(stderr) = "starting" =>
              \/ stderr = <<"starting", "bindFailed">>
              \/ stderr = <<"starting", "bindFailed", "usable">>
        BY <1>4, <2>4 DEF MarkerInv, DrainLine, Unread
      <4>2. Tail(<<"starting", "bindFailed">>) = <<"bindFailed">>
        OBVIOUS
      <4>3. Tail(<<"starting", "bindFailed", "usable">>) = <<"bindFailed", "usable">>
        OBVIOUS
      <4> QED
        BY <4>1, <4>2, <4>3 DEF Unread
    <3>3. Verdict(Head(stderr)) = IF Head(stderr) = "starting" THEN "waiting" ELSE "bindFailed"
      BY <3>1 DEF Verdict
    <3>4. /\ bind' = "refused" /\ stderr' = Tail(stderr) /\ seen' = seen
          /\ state' = Verdict(Head(stderr))
      BY <1>4, <2>4 DEF DrainLine
    <3> QED
      BY <2>4, <3>1, <3>2, <3>3, <3>4 DEF MarkerInv
  <2> QED
    BY <2>1, <2>2, <2>3, <2>4 DEF TypeOK
<1>5. CASE Listens
  BY <1>5 DEF MarkerInv, Listens, drain, waiter
<1>6. CASE CannotListen
  BY <1>6 DEF MarkerInv, CannotListen, Unread, drain, waiter
<1>7. CASE Exits \/ OtherStops
  BY <1>7 DEF MarkerInv, Exits, OtherStops, drain, waiter
<1>8. CASE \E name \in OtherNames : OtherListens(name)
  BY <1>8 DEF MarkerInv, OtherListens, drain, waiter
<1>9. CASE UNCHANGED vars
  BY <1>9 DEF MarkerInv, vars
<1> QED
  BY <1>1, <1>2, <1>3, <1>4, <1>5, <1>6, <1>7, <1>8, <1>9, Steps

LEMMA MarkerInvariant == Spec => []MarkerInv
<1>1. Init => MarkerInv
  BY DEF Init, MarkerInv
<1> QED
  BY <1>1, TypeCorrect, MarkerStep, PTL DEF Spec

\* Success after the readiness marker comes only when our child's bind succeeded.
THEOREM MarkerIsOurs == Spec => []MarkerMeansOurs
<1>1. MarkerInv => MarkerMeansOurs
  BY DEF MarkerInv, MarkerMeansOurs
<1> QED
  BY <1>1, MarkerInvariant, PTL

\* A child that is gone while a request is under way exited by itself, after the request
\* was sent.
RequestInv ==
  /\ pc = "status" => /\ since <= clock
                      /\ child = "exited" => exitedAt # None /\ exitedAt >= since
  /\ result = "ok" => pc = "done"

LEMMA RequestStep == TypeOK /\ RequestInv /\ [Next]_vars => RequestInv'
<1> SUFFICES ASSUME TypeOK, RequestInv, [Next]_vars PROVE RequestInv'
  OBVIOUS
<1>0. clock \in Nat /\ since \in Nat /\ None \notin Nat
  BY StartupAssumption DEF TypeOK
<1>1. CASE Waits
  <2>1. pc # "done" /\ pc' # "status"
    BY <1>1 DEF Waits, ChildGone, BindFailed, KeepWaiting, AnswerReady, AnswerFallback,
         AnswerWrong, StatusFails, EndIteration, Fail, Succeed
  <2>2. pc' = "done" \/ result' = result
    BY <1>1 DEF Waits, ChildGone, BindFailed, KeepWaiting, AnswerReady, AnswerFallback,
         AnswerWrong, StatusFails, EndIteration, Fail, Succeed
  <2> QED
    BY <2>1, <2>2 DEF RequestInv
<1>2. CASE AskStatus
  BY <1>0, <1>2 DEF RequestInv, AskStatus, process
<1>3. CASE Wake
  BY <1>3 DEF RequestInv, Wake
<1>4. CASE Tick
  BY <1>0, <1>4 DEF RequestInv, Tick, process, waiter
<1>5. CASE Exits
  BY <1>0, <1>5 DEF RequestInv, Exits, waiter
<1>6. CASE DrainLine \/ Listens \/ CannotListen \/ OtherStops
  BY <1>6 DEF RequestInv, DrainLine, Listens, CannotListen, OtherStops, waiter
<1>7. CASE \E name \in OtherNames : OtherListens(name)
  BY <1>7 DEF RequestInv, OtherListens, waiter
<1>8. CASE UNCHANGED vars
  BY <1>8 DEF RequestInv, vars
<1> QED
  BY <1>1, <1>2, <1>3, <1>4, <1>5, <1>6, <1>7, <1>8, Steps

\* Any success is our child's or that of a server on the port that claims our trace or none,
\* but for an answer to a request under which our child, ready by its own word, died.
THEOREM ReadyIsOursOrANamesake == Spec => []ReadyIsOurs
<1>1. Init => RequestInv /\ ReadyIsOurs
  BY DEF Init, RequestInv, ReadyIsOurs
<1>2. TypeOK /\ MarkerInv /\ RequestInv /\ ReadyIsOurs /\ [Next]_vars => ReadyIsOurs'
  <2> SUFFICES ASSUME TypeOK, MarkerInv, RequestInv, ReadyIsOurs, [Next]_vars PROVE ReadyIsOurs'
    OBVIOUS
  <2>1. CASE AnswerReady
    <3>1. pc = "status" /\ seen = "ready" /\ bind = "bound" /\ child \in {"running", "exited"}
      BY <2>1 DEF MarkerInv, AnswerReady, TypeOK
    <3>2. UNCHANGED <<child, exitedAt, bind, since, seen>>
      BY <2>1 DEF AnswerReady, Succeed
    <3> QED
      BY <3>1, <3>2 DEF RequestInv, ReadyIsOurs, Listening, DiedUnderRequest
  <2>2. CASE AnswerFallback
    <3>1. Listening \/ other \in {"expected", "unset"}
      BY <2>2 DEF AnswerFallback, Answers, StatusMatches
    <3>2. UNCHANGED <<bind, other>> /\ (result' = "ok" => child' = child)
      BY <2>2 DEF AnswerFallback, Succeed, EndIteration, Fail
    <3> QED
      BY <3>1, <3>2 DEF Listening, ReadyIsOurs
  <2>3. CASE ChildGone \/ BindFailed \/ KeepWaiting \/ AnswerWrong \/ StatusFails
    <3>1. \/ result' \in {"exited", "bindFailed", "timeout"}
          \/ result' = result /\ pc # "done"
      BY <2>3 DEF ChildGone, BindFailed, KeepWaiting, AnswerWrong, StatusFails, EndIteration, Fail
    <3> QED
      BY <2>3, <3>1 DEF RequestInv, ReadyIsOurs
  <2>4. CASE AskStatus \/ Wake \/ Tick
    BY <2>4 DEF RequestInv, ReadyIsOurs, AskStatus, Wake, Tick, process, waiter
  <2>5. CASE DrainLine \/ Listens \/ CannotListen \/ Exits \/ OtherStops
    BY <2>5 DEF ReadyIsOurs, DrainLine, Listens, CannotListen, Exits, OtherStops, waiter, Waiting
  <2>6. CASE \E name \in OtherNames : OtherListens(name)
    BY <2>6 DEF ReadyIsOurs, OtherListens, waiter, Waiting
  <2>7. CASE UNCHANGED vars
    BY <2>7 DEF ReadyIsOurs, Listening, DiedUnderRequest, vars
  <2> QED
    BY <2>1, <2>2, <2>3, <2>4, <2>5, <2>6, <2>7, Steps DEF Waits
<1> QED
  BY <1>1, <1>2, TypeCorrect, MarkerInvariant, RequestStep, PTL DEF Spec
-----------------------------------------------------------------------------
(***************************************************************************)
(* The stability window.  ok_since lies after the delay and after whatever *)
(* went wrong last.                                                        *)
(***************************************************************************)
StableInv ==
  /\ lastBad <= clock
  /\ okSince # None => lastBad <= okSince /\ okSince <= clock /\ FallbackDelay <= okSince
  /\ pc = "status" /\ seen = "waiting" => FallbackDelay <= clock
  /\ result = "ok" => pc = "done"
  /\ StableBeforeReady

LEMMA StableStep == TypeOK /\ TimeInv /\ StableInv /\ [Next]_vars => StableInv'
<1> SUFFICES ASSUME TypeOK, TimeInv, StableInv, [Next]_vars PROVE StableInv'
  OBVIOUS
<1>0. /\ clock \in Nat /\ lastBad \in Nat /\ okSince \in Nat \cup {None}
      /\ FallbackDelay \in Nat /\ Stability \in Nat /\ None \notin Nat
  BY StartupAssumption DEF TypeOK
<1>1. CASE AnswerFallback
  <2>1. /\ FirstOk \in Nat /\ okSince' = FirstOk
        /\ lastBad <= FirstOk /\ FirstOk <= clock /\ FallbackDelay <= FirstOk
    BY <1>0, <1>1 DEF StableInv, AnswerFallback, FirstOk
  <2>2. UNCHANGED <<clock, lastBad, seen>> /\ pc' # "status"
    BY <1>1 DEF AnswerFallback, Succeed, EndIteration, Fail
  <2>3. result' = "ok" => StableSince(FirstOk) /\ pc' = "done"
    BY <1>1 DEF StableInv, AnswerFallback, EndIteration, Succeed, Fail
  <2> QED
    BY <1>0, <2>1, <2>2, <2>3 DEF StableInv, StableBeforeReady, StableSince
<1>2. CASE AnswerReady
  BY <1>2 DEF StableInv, StableBeforeReady, AnswerReady, Succeed, wait
<1>3. CASE AnswerWrong \/ StatusFails
  <2>1. UNCHANGED <<clock, seen>> /\ pc' # "status" /\ result' # "ok"
    BY <1>3 DEF StableInv, AnswerWrong, StatusFails, EndIteration, Fail
  <2>2. \/ okSince' = None /\ lastBad' = clock /\ seen = "waiting" /\ pc = "status"
        \/ okSince' = okSince /\ lastBad' = lastBad
    BY <1>3 DEF AnswerWrong, StatusFails
  <2> QED
    BY <1>0, <2>1, <2>2 DEF StableInv, StableBeforeReady
<1>4. CASE ChildGone \/ BindFailed \/ KeepWaiting
  <2>1. UNCHANGED <<clock, seen, okSince, lastBad>> /\ pc' # "status" /\ result' # "ok"
    BY <1>4 DEF StableInv, ChildGone, BindFailed, KeepWaiting, EndIteration, Fail, wait
  <2> QED
    BY <2>1 DEF StableInv, StableBeforeReady
<1>5. CASE AskStatus
  <2>1. /\ UNCHANGED <<clock, okSince, lastBad, result>>
        /\ seen' = "waiting" => clock >= FallbackDelay
        /\ result # "ok"
    BY <1>5 DEF StableInv, AskStatus, InFallback, wait
  <2> QED
    BY <1>0, <2>1 DEF StableInv, StableBeforeReady
<1>6. CASE Wake
  BY <1>6 DEF StableInv, StableBeforeReady, Wake, wait
<1>7. CASE Tick
  <2>1. clock' = clock + 1 /\ UNCHANGED <<okSince, lastBad, result, seen, pc>>
    BY <1>7 DEF Tick, waiter, wait
  <2> QED
    BY <1>0, <2>1 DEF StableInv, StableBeforeReady
<1>8. CASE DrainLine \/ Listens \/ CannotListen \/ Exits \/ OtherStops
  BY <1>8 DEF StableInv, StableBeforeReady, DrainLine, Listens, CannotListen, Exits, OtherStops,
       waiter, wait
<1>9. CASE \E name \in OtherNames : OtherListens(name)
  BY <1>9 DEF StableInv, StableBeforeReady, OtherListens, waiter, wait
<1>10. CASE UNCHANGED vars
  BY <1>10 DEF StableInv, StableBeforeReady, vars
<1> QED
  BY <1>1, <1>2, <1>3, <1>4, <1>5, <1>6, <1>7, <1>8, <1>9, <1>10, Steps DEF Waits

\* The fallback succeeds only after a quiet stability window.
THEOREM ReadyIsStable == Spec => []StableBeforeReady
<1>1. Init => TimeInv /\ StableInv
  BY StartupAssumption DEF Init, TimeInv, StableInv, StableBeforeReady
<1>2. StableInv => StableBeforeReady
  BY DEF StableInv
<1> QED
  BY <1>1, <1>2, TypeCorrect, TimeStep, StableStep, PTL DEF Spec
=============================================================================
