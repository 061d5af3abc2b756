------------------------------ MODULE Requests ------------------------------
(***************************************************************************)
(* The five kinds of request together: one after the other, each with a    *)
(* context of its own, over one session that other requests may write.     *)
(***************************************************************************)
EXTENDS Plan, Event, Queue, Socket, Http

\* ctx.Found, Error, Failed and Denied in a custom function: the handlers of
\* the module that owns the request.  A socket request has no such case, and
\* goes on as if nothing had been called.
Found(rest) ==
  \/ mode = "plan" /\ PlanFound(rest)
  \/ mode = "event" /\ EventFound(rest)
  \/ mode = "queue" /\ QueueFound(rest)
  \/ mode = "http" /\ HttpFound(rest)
Error(rest) ==
  \/ mode = "plan" /\ PlanError(rest)
  \/ mode = "event" /\ EventError(rest)
  \/ mode = "queue" /\ QueueError(rest)
  \/ mode = "http" /\ HttpError(rest)
Failed(rest) ==
  \/ mode = "plan" /\ PlanFailed(rest)
  \/ mode = "event" /\ EventFailed(rest)
  \/ mode = "queue" /\ QueueFailed(rest)
  \/ mode = "http" /\ HttpFailed(rest)
Denied(rest) ==
  \/ mode = "plan" /\ PlanDenied(rest)
  \/ mode = "event" /\ EventDenied(rest)
  \/ mode = "queue" /\ QueueDenied(rest)
  \/ mode = "http" /\ HttpDenied(rest)

\* A request or response filter that calls one of them drops what was left
\* of the line: request, or body.
Divert ==
  /\ CustomRuns /\ diverts < MaxDivert
  /\ Found(stack) \/ Error(stack) \/ Failed(stack) \/ Denied(stack)
  /\ diverts' = diverts + 1
  /\ broken' = (broken \/ Head(stack).fn \in {"reqFilter", "resFilter"})
  /\ UNCHANGED <<mode, route, answers, passed, body, session, stored, bases,
                 readers, dirty>>

CustomNext ==
  CallNext \/ FinishOrDelay \/ Sign \/ Base \/ Leave \/ Divert \/ OtherRequest

Init ==
  /\ mode = "none" /\ route = "missing"
  /\ nexts = <<>> /\ index = 0 /\ stack = <<>>
  /\ body = NoBody /\ session = FALSE /\ stored \in BOOLEAN
  /\ bases = [k \in Kinds |-> "none"] /\ readers = <<>>
  /\ answers = <<>> /\ passed = FALSE /\ dirty = FALSE
  /\ broken = TRUE /\ diverts = 0

Next ==
  PlanNext \/ EventNext \/ QueueNext \/ SocketNext \/ HttpNext \/ CustomNext

Spec == Init /\ [][Next]_vars

-----------------------------------------------------------------------------
Frames == [fn : Library \cup Custom, nexted : BOOLEAN]

\* The context is well formed; ctx.Next() never runs past ctx.nexts.
TypeOK ==
  /\ mode \in Modes \cup {"none"} /\ route \in Routes
  /\ nexts \in Seq(Library \cup Custom) /\ index \in 0..Len(nexts)
  /\ stack \in Seq(Frames)
  /\ body \in Bodies /\ session \in BOOLEAN /\ stored \in BOOLEAN
  /\ bases \in [Kinds -> {"none", "open", "closed", "late"}]
  /\ readers \in Seq({"open", "closed", "dropped", "late"})
  /\ answers \in Seq({"finish", "delay"})
  /\ {passed, dirty, broken} \subseteq BOOLEAN /\ diverts \in 0..MaxDivert

\* However often filters, actions and handlers call ctx.Next(), ctx.Found()
\* and the rest, the driver is told at most once that a request is finished
\* or put off.
RespondedOnce == Len(answers) <= 1

\* And when serve has returned it has been told, whatever the execute filters,
\* the actions and the handlers did, provided that each request and response
\* filter called ctx.Next() and left the line alone, and nothing panicked.
Responded == stack = <<>> /\ ~broken => answers # <<>>

\* An action runs only in a request with a route that passed its checks: what
\* found, failed and denied build takes the place of execute, and nothing an
\* application's function calls brings it back.
ActionChecked ==
  (\E i \in DOMAIN stack : stack[i].fn \in {"execute", "exeFilter", "action"})
    => passed



\* A reader given to ctx.Buffer is open as long as it waits to be copied, and
\* has been closed when the request is over: by the answer that took its place
\* or by body.  Finish and Delay drop it.
ReadersClosed ==
  /\ body.type = "buffer" /\ answers = <<>> => readers[body.reader] = "open"
  /\ stack = <<>> /\ answers # <<>> => \A i \in DOMAIN readers : readers[i] # "open"
=============================================================================
