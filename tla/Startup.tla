------------------------------ MODULE Startup ------------------------------
(***************************************************************************)
(* TraceProcessorInstance::spawn and wait_ready (tp_manager.rs): one start *)
(* of trace_processor_shell on a port that was free when it was probed.    *)
(*                                                                         *)
(* The child loads the trace and only then listens; what it reports on its *)
(* stderr reaches the waiting task through a drain task and a watch        *)
(* channel.  Another server may take the port first: the child of another  *)
(* manager that swept the same ports, perhaps for the same trace.          *)
(*                                                                         *)
(* Time is counted in poll intervals from the start of the wait.  It does  *)
(* not pass while the waiting task is runnable: the task is scheduled well *)
(* within a poll interval.                                                 *)
(***************************************************************************)
EXTENDS Naturals, Sequences

CONSTANTS FallbackDelay,    \* STATUS_FALLBACK_DELAY
          Stability,        \* STATUS_FALLBACK_STABILITY
          StartupTimeout,   \* startup_timeout
          RequestTimeout,   \* request_timeout, of the HTTP client that asks for /status
          OwnNames,         \* the trace names the child may report
          OtherNames,       \* the trace names another server on the port may report
          None              \* no time

\* What /status can say of the loaded trace: the name of the one we asked for, no
\* name, or another one.
TraceNames == {"expected", "unset", "other"}

ASSUME StartupAssumption ==
  /\ FallbackDelay \in Nat /\ Stability \in Nat
  /\ StartupTimeout \in Nat /\ RequestTimeout \in Nat
  /\ OwnNames \subseteq TraceNames /\ OtherNames \subseteq TraceNames
  /\ None \notin Nat

VARIABLES
  clock,     \* the time since the wait began
  child,     \* whether the process runs
  exitedAt,  \* history: when it exited by itself
  bind,      \* how its attempt to listen on 127.0.0.1 ended, whatever it does later
  stderr,    \* the lines it wrote that the drain task has not read
  other,     \* the trace of another server that listens on the port, or "nobody"
  log,       \* StartupLogState of the drain task: which of its flags are set
  state,     \* the StartupState in the watch channel
  news,      \* whether the waiting task has been told that it changed
  pc,        \* where the waiting task stands
  since,     \* when its request or its pause began
  seen,      \* the StartupState it read before it sent the request
  okSince,   \* ok_since: since when /status has been right
  lastBad,   \* history: when a fallback request last failed or named another trace
  result     \* what wait_ready returned

process == <<child, exitedAt, bind, stderr, other>>
drain   == <<log, state>>
wait    == <<okSince, lastBad>>
vars    == <<clock, child, exitedAt, bind, stderr, other, log, state, news, pc, since, seen,
             okSince, lastBad, result>>
-----------------------------------------------------------------------------
\* The lines update_startup_state tells from others.
Lines == {"starting", "bindFailed", "usable"}

TypeOK ==
  /\ clock \in Nat
  /\ child \in {"running", "exited"}
  /\ exitedAt \in Nat \cup {None}
  /\ bind \in {"closed", "bound", "refused"}
  /\ stderr \in Seq(Lines)
  /\ other \in OtherNames \cup {"nobody"}
  /\ log \in SUBSET {"started", "failed"}
  /\ state \in {"waiting", "ready", "bindFailed"}
  /\ news \in {"none", "unseen"}
  /\ pc \in {"check", "status", "pause", "done"}
  /\ since \in Nat
  /\ seen \in {"waiting", "ready"}
  /\ okSince \in Nat \cup {None}
  /\ lastBad \in Nat
  /\ result \in {"none", "ok", "exited", "bindFailed", "timeout"}

Init ==
  /\ clock = 0
  /\ child = "running"
  /\ exitedAt = None
  /\ bind = "closed"
  /\ stderr = <<>>
  /\ other = "nobody"
  /\ log = {}
  /\ state = "waiting"
  /\ news = "none"
  /\ pc = "check"
  /\ since = 0
  /\ seen = "waiting"
  /\ okSince = None
  /\ lastBad = 0
  /\ result = "none"
-----------------------------------------------------------------------------
(***************************************************************************)
(* The child, as the code uses it.  A child that cannot have the IPv4 port *)
(* may serve on IPv6 and call itself usable.  A build whose messages the   *)
(* code does not know writes none of the three lines.  What happens after  *)
(* the wait is not modelled.                                               *)
(***************************************************************************)
Waiting == result = "none"

waiter == <<news, pc, since, seen, wait, result>>

Listens ==
  /\ Waiting
  /\ child = "running" /\ bind = "closed" /\ other = "nobody"
  /\ bind' = "bound"
  /\ \E lines \in {<<"starting", "usable">>, <<>>} : stderr' = lines
  /\ UNCHANGED <<clock, child, exitedAt, other, drain, waiter>>

CannotListen ==
  /\ Waiting
  /\ child = "running" /\ bind = "closed" /\ other # "nobody"
  /\ bind' = "refused"
  /\ \E lines \in {<<"starting", "bindFailed">>, <<"starting", "bindFailed", "usable">>, <<>>} :
       stderr' = lines
  /\ UNCHANGED <<clock, child, exitedAt, other, drain, waiter>>

Exits ==
  /\ Waiting /\ child = "running"
  /\ child' = "exited"
  /\ exitedAt' = clock
  /\ UNCHANGED <<clock, bind, stderr, other, drain, waiter>>

Listening == child = "running" /\ bind = "bound"

OtherListens(name) ==
  /\ Waiting /\ other = "nobody" /\ ~Listening
  /\ other' = name
  /\ UNCHANGED <<clock, child, exitedAt, bind, stderr, drain, waiter>>

OtherStops ==
  /\ Waiting /\ other # "nobody"
  /\ other' = "nobody"
  /\ UNCHANGED <<clock, child, exitedAt, bind, stderr, drain, waiter>>
-----------------------------------------------------------------------------
(***************************************************************************)
(* The drain task: update_startup_state, and the one send on startup_tx.   *)
(* It has startup_tx for as long as it has sent nothing.                   *)
(***************************************************************************)
Started(line) == "started" \in log \/ line = "starting"

VerdictUsable(line) == IF line = "usable" /\ Started(line) THEN "ready" ELSE "waiting"

Verdict(line) ==
  IF line = "bindFailed" THEN "bindFailed"
  ELSE IF line = "usable" /\ Started(line) /\ "failed" \notin log THEN "ready"
  ELSE "waiting"

DrainLine ==
  /\ Waiting /\ stderr # <<>>
  /\ stderr' = Tail(stderr)
  /\ IF state = "waiting"
       THEN /\ log' = log \cup (IF Started(Head(stderr)) THEN {"started"} ELSE {})
                          \cup (IF Verdict(Head(stderr)) = "bindFailed" THEN {"failed"} ELSE {})
            /\ state' = Verdict(Head(stderr))
            /\ news' = IF state' = "waiting" THEN news ELSE "unseen"
       ELSE UNCHANGED <<drain, news>>
  /\ UNCHANGED <<clock, child, exitedAt, bind, other, pc, since, seen, wait, result>>
-----------------------------------------------------------------------------
\* The waiting task.  A wait that fails drops the instance, which kills the child.
Succeed ==
  /\ pc' = "done"
  /\ result' = "ok"
  /\ UNCHANGED <<child, since>>

Fail(why) ==
  /\ pc' = "done"
  /\ result' = why
  /\ child' = "exited"
  /\ UNCHANGED since

DeadlineRestarts ==
  IF clock >= since + StartupTimeout
    THEN Fail("timeout")
    ELSE /\ pc' = "pause"
         /\ since' = clock
         /\ UNCHANGED <<child, result>>

\* The end of an iteration: the deadline, or a pause.
EndIteration ==
  IF clock >= StartupTimeout
    THEN Fail("timeout")
    ELSE /\ pc' = "pause"
         /\ since' = clock
         /\ UNCHANGED <<child, result>>

ChildGone ==
  /\ pc = "check" /\ child = "exited"
  /\ Fail("exited")
  /\ UNCHANGED <<clock, exitedAt, bind, stderr, other, drain, news, seen, wait>>

BindFailed ==
  /\ pc = "check" /\ child = "running" /\ state = "bindFailed"
  /\ Fail("bindFailed")
  /\ UNCHANGED <<clock, exitedAt, bind, stderr, other, drain, news, seen, wait>>

\* No word from stderr yet: keep waiting for it, or ask /status after the delay.
InFallback == clock >= FallbackDelay

KeepWaiting ==
  /\ pc = "check" /\ child = "running" /\ state = "waiting"
  /\ ~InFallback
  /\ EndIteration
  /\ UNCHANGED <<clock, exitedAt, bind, stderr, other, drain, news, seen, wait>>

AskUnpolled ==
  /\ pc = "check"
  /\ state = "ready" \/ (state = "waiting" /\ InFallback)
  /\ pc' = "status"
  /\ since' = clock
  /\ seen' = state
  /\ UNCHANGED <<clock, process, drain, news, wait, result>>

AskStatus ==
  /\ pc = "check" /\ child = "running"
  /\ state = "ready" \/ (state = "waiting" /\ InFallback)
  /\ pc' = "status"
  /\ since' = clock
  /\ seen' = state
  /\ UNCHANGED <<clock, process, drain, news, wait, result>>

\* Whose status a request can get.
Answers ==
  (IF Listening THEN OwnNames ELSE {}) \cup (IF other # "nobody" THEN {other} ELSE {})

StatusMatches(name) == name \in {"expected", "unset"}

\* After the marker any answer will do.
AnswerReady ==
  /\ pc = "status" /\ seen = "ready"
  /\ Answers # {}
  /\ Succeed
  /\ UNCHANGED <<clock, exitedAt, bind, stderr, other, drain, news, seen, wait>>

\* Before it the answers must be right for the stability window.
FirstOk == IF okSince = None THEN clock ELSE okSince

StableSince(t) == clock - t >= Stability

AnswerFallback ==
  /\ pc = "status" /\ seen = "waiting"
  /\ \E name \in Answers : StatusMatches(name)
  /\ okSince' = FirstOk
  /\ IF StableSince(FirstOk) THEN Succeed ELSE EndIteration
  /\ UNCHANGED <<clock, exitedAt, bind, stderr, other, drain, news, seen, lastBad>>

AnswerWrongKeeps ==
  /\ pc = "status" /\ seen = "waiting"
  /\ \E name \in Answers : ~StatusMatches(name)
  /\ lastBad' = clock
  /\ EndIteration
  /\ UNCHANGED <<clock, exitedAt, bind, stderr, other, drain, news, seen, okSince>>

AnswerWrong ==
  /\ pc = "status" /\ seen = "waiting"
  /\ \E name \in Answers : ~StatusMatches(name)
  /\ okSince' = None
  /\ lastBad' = clock
  /\ EndIteration
  /\ UNCHANGED <<clock, exitedAt, bind, stderr, other, drain, news, seen>>

\* Nobody listens, the answer is an error, or there is none within the request timeout.
StatusFails ==
  /\ pc = "status"
  /\ IF seen = "waiting"
       THEN okSince' = None /\ lastBad' = clock
       ELSE UNCHANGED <<okSince, lastBad>>
  /\ EndIteration
  /\ UNCHANGED <<clock, exitedAt, bind, stderr, other, drain, news, seen>>

WakeWhenTold ==
  /\ pc = "pause"
  /\ news = "unseen"
  /\ news' = "none"
  /\ pc' = "check"
  /\ UNCHANGED <<clock, process, drain, since, seen, wait, result>>

\* startup_rx.changed(), or the poll interval, whichever comes first.
Wake ==
  /\ pc = "pause"
  /\ \/ news = "unseen" /\ news' = "none"
     \/ clock >= since + 1 /\ UNCHANGED news
  /\ pc' = "check"
  /\ UNCHANGED <<clock, process, drain, since, seen, wait, result>>

\* What the waiting task does not wait for.
Tick ==
  /\ \/ pc = "status" /\ clock < since + RequestTimeout
     \/ pc = "pause" /\ clock < since + 1
  /\ clock' = clock + 1
  /\ UNCHANGED <<process, drain, waiter>>

Proceed ==
  \/ ChildGone \/ BindFailed \/ KeepWaiting \/ AskStatus
  \/ AnswerReady \/ AnswerFallback \/ AnswerWrong \/ StatusFails
  \/ Wake

Environment ==
  \/ Listens \/ CannotListen \/ Exits \/ OtherStops
  \/ \E name \in OtherNames : OtherListens(name)

Next == Proceed \/ DrainLine \/ Tick \/ Environment

Spec == Init /\ [][Next]_vars

(***************************************************************************)
(* Time passes and the waiting task is polled again once its request or    *)
(* its pause is over.  The child, the drain and the other server owe it    *)
(* nothing.                                                                *)
(***************************************************************************)
FairSpec == Spec /\ WF_vars(Proceed \/ Tick)
-----------------------------------------------------------------------------
\* A recognised readiness marker is never followed by success when our child could not
\* have the port: update_startup_state lets no line after a bind failure undo it, and the
\* drain sends one verdict.  It says that the child's bind succeeded, not that the child
\* still runs.
MarkerMeansOurs == result = "ok" /\ seen = "ready" => bind = "bound"

\* Our child had the port, it was alive when the last request was sent, and it exited before
\* the answer came.
DiedUnderRequest ==
  bind = "bound" /\ child = "exited" /\ exitedAt # None /\ exitedAt >= since

\* Whoever answers the request that ends the wait, our child listens then, or the server
\* that has the port claims the same trace or none (loaded_name_matches keeps a foreign one
\* out), or the marker was seen and our child died under that very request: wait_ready polls
\* the child before each request and not after, and takes any answer after the marker.
ReadyIsOurs ==
  result = "ok" => \/ Listening
                   \/ other \in {"expected", "unset"}
                   \/ seen = "ready" /\ DiedUnderRequest

\* Success without a marker comes only after the delay, and when nothing has been wrong with
\* /status for the stability window.
StableBeforeReady ==
  result = "ok" /\ seen = "waiting" =>
    clock >= FallbackDelay + Stability /\ clock >= lastBad + Stability

\* The wait is over one request timeout after the deadline, whatever the child does.
WaitBounded == result = "none" => clock <= StartupTimeout + RequestTimeout

\* A wait ends.
WaitEnds == <>(result # "none")
-----------------------------------------------------------------------------
\* What the documentation says.

\* "bind failure must abort startup" (wait_ready_fails_on_ipv4_bind_error_without_polling_status):
\* no success once the drain has reported that our child has no port.
BindFailureAborts == ~(result = "ok" /\ state = "bindFailed")

\* --startup-timeout-ms is the "Max time to wait for a spawned trace_processor_shell to become
\* ready" (README.md), give or take a poll interval.
WithinTimeout == result = "none" => clock <= StartupTimeout + 1
=============================================================================
