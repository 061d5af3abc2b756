------------------------------- MODULE Queue --------------------------------
(***************************************************************************)
(* The requests of queue.go: a line takes a message off a queue.           *)
(***************************************************************************)
EXTENDS Context

\* Custom and registered handlers, then the default one, in place of what was
\* left of the line.
QueueFound(rest) == Line(HandlerLine, rest)
QueueError(rest) == Line(HandlerLine, rest)
QueueFailed(rest) == Line(HandlerLine, rest)
QueueDenied(rest) == Line(HandlerLine, rest)
QueueDefault ==
  /\ mode = "queue" /\ Running("default")
  /\ body' = Finish
  /\ Return
  /\ UNCHANGED <<logVars, session, stored, bases, readers, dirty>>

newQueueContext(r) == newContext("queue", r)
QueueServe ==
  /\ "queue" \in Modes /\ stack = <<>>
  /\ \E r \in Routes : newQueueContext(r)
  /\ answers' = <<>>
  /\ Line(ServeLine, <<>>)

\* The session, the checks in their order, and on to execute.
QueueRequest ==
  /\ mode = "queue" /\ Running("request")
  /\ ReadSession(FALSE)
  /\ IF route = "missing"
       THEN QueueFound(Resume) /\ Unchecked
       ELSE \E args \in argsHandler, a \in authHandler(session'), i \in itemHandler :
              /\ Checked(args, a, i)
              /\ CASE ~args -> QueueFailed(Resume)
                   [] args /\ a \in Refused -> QueueDenied(Resume)
                   [] args /\ a \notin Refused /\ i \in Absent -> QueueFailed(Resume)
                   [] OTHER -> NextFunc(Resume)
  /\ UNCHANGED <<mode, route, answers, broken, diverts, body, stored, readers,
                 dirty>>

\* The rest of request.
QueueRespond ==
  /\ mode = "queue" /\ Running("respond")
  /\ WriteSession(FALSE)
  /\ Line(RespondLine, Caller)
  /\ UNCHANGED <<logVars, body, session, bases, readers>>

QueueExecute ==
  /\ mode = "queue" /\ Running("execute")
  /\ Line(ExecuteLine, Caller)
  /\ UNCHANGED <<logVars, body, session, stored, bases, readers, dirty>>

\* The driver is told, and the bases are closed.
QueueBody ==
  /\ mode = "queue" /\ Running("body")
  /\ answers' = Append(answers, IF body = Delay THEN "delay" ELSE "finish")
  /\ bases' = final
  /\ Return
  /\ UNCHANGED <<mode, route, passed, broken, diverts, body, session, stored,
                 readers, dirty>>

QueueNext ==
  \/ QueueServe \/ QueueRequest \/ QueueRespond \/ QueueExecute
  \/ QueueDefault \/ QueueBody
=============================================================================
