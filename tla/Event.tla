------------------------------- MODULE Event --------------------------------
(***************************************************************************)
(* The requests of event.go: an event reaches its subscribers.             *)
(***************************************************************************)
EXTENDS Context

\* Custom and registered handlers, then the default one, in place of what was
\* left of the line.
EventFound(rest) == Line(HandlerLine, rest)
EventError(rest) == Line(HandlerLine, rest)
EventFailed(rest) == Line(HandlerLine, rest)
EventDenied(rest) == Line(HandlerLine, rest)
EventDefault ==
  /\ mode = "event" /\ Running("default")
  /\ body' = Finish
  /\ Return
  /\ UNCHANGED <<logVars, session, stored, bases, readers, dirty>>

newEventContext(r) == newContext("event", r)
EventServe ==
  /\ "event" \in Modes /\ stack = <<>>
  /\ \E r \in Routes : newEventContext(r)
  /\ answers' = <<>>
  /\ Line(ServeLine, <<>>)

\* The session, the checks in their order, and on to execute.
EventRequest ==
  /\ mode = "event" /\ Running("request")
  /\ ReadSession(FALSE)
  /\ IF route = "missing"
       THEN EventFound(Resume) /\ Unchecked
       ELSE \E args \in argsHandler, a \in authHandler(session'), i \in itemHandler :
              /\ Checked(args, a, i)
              /\ CASE ~args -> EventFailed(Resume)
                   [] args /\ a \in Refused -> EventDenied(Resume)
                   [] args /\ a \notin Refused /\ i \in Absent -> EventFailed(Resume)
                   [] OTHER -> NextFunc(Resume)
  /\ UNCHANGED <<mode, route, answers, broken, diverts, body, stored, readers,
                 dirty>>

\* The rest of request.
EventRespond ==
  /\ mode = "event" /\ Running("respond")
  /\ WriteSession(FALSE)
  /\ Line(RespondLine, Caller)
  /\ UNCHANGED <<logVars, body, session, bases, readers>>

EventExecute ==
  /\ mode = "event" /\ Running("execute")
  /\ Line(ExecuteLine, Caller)
  /\ UNCHANGED <<logVars, body, session, stored, bases, readers, dirty>>

\* The driver is told, and the bases are closed.
EventBody ==
  /\ mode = "event" /\ Running("body")
  /\ answers' = Append(answers, IF body = Delay THEN "delay" ELSE "finish")
  /\ bases' = final
  /\ Return
  /\ UNCHANGED <<mode, route, passed, broken, diverts, body, session, stored,
                 readers, dirty>>

EventNext ==
  \/ EventServe \/ EventRequest \/ EventRespond \/ EventExecute
  \/ EventDefault \/ EventBody
=============================================================================
