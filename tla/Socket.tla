------------------------------- MODULE Socket -------------------------------
(***************************************************************************)
(* The requests of socket.go: a message arrives on a socket.               *)
(***************************************************************************)
EXTENDS Context

\* Custom and registered handlers, then the default one, in place of what was
\* left of the line.
SocketFound(rest) == Line(HandlerLine, rest)
SocketError(rest) == Line(HandlerLine, rest)
SocketFailed(rest) == Line(HandlerLine, rest)
SocketDenied(rest) == Line(HandlerLine, rest)
SocketDefault ==
  /\ mode = "socket" /\ Running("default")
  /\ body' = Finish
  /\ Return
  /\ UNCHANGED <<logVars, session, stored, bases, readers, dirty>>

newSocketContext(r) == newContext("socket", r)
SocketServe ==
  /\ "socket" \in Modes /\ stack = <<>>
  /\ \E r \in Routes : newSocketContext(r)
  /\ answers' = <<>>
  /\ Line(ServeLine, <<>>)

\* The arguments are not checked.  A record that itemHandler keeps is put into
\* ctx.Item, which newSocketContext has not made: the function panics.
SocketRequest ==
  /\ mode = "socket" /\ Running("request")
  /\ ReadSession(FALSE)
  /\ IF route = "missing"
       THEN SocketFound(Resume) /\ Unchecked /\ UNCHANGED broken
       ELSE \E a \in authHandler(session'), i \in itemHandler :
              /\ Checked(TRUE, a, i)
              /\ broken' = (broken \/ (a \notin Refused /\ i = "fetched"))
              /\ CASE a \in Refused -> SocketDenied(Resume)
                   [] a \notin Refused /\ i \in Absent -> SocketFailed(Resume)
                   [] a \notin Refused /\ i = "fetched" -> Panic
                   [] OTHER -> NextFunc(Resume)
  /\ UNCHANGED <<mode, route, answers, diverts, body, stored, readers, dirty>>

\* The rest of request.
SocketRespond ==
  /\ mode = "socket" /\ Running("respond")
  /\ WriteSession(FALSE)
  /\ Line(RespondLine, Caller)
  /\ UNCHANGED <<logVars, body, session, bases, readers>>

SocketExecute ==
  /\ mode = "socket" /\ Running("execute")
  /\ Line(ExecuteLine, Caller)
  /\ UNCHANGED <<logVars, body, session, stored, bases, readers, dirty>>

\* The driver is told, and the bases are closed.
SocketBody ==
  /\ mode = "socket" /\ Running("body")
  /\ answers' = Append(answers, IF body = Delay THEN "delay" ELSE "finish")
  /\ bases' = final
  /\ Return
  /\ UNCHANGED <<mode, route, passed, broken, diverts, body, session, stored,
                 readers, dirty>>

SocketNext ==
  \/ SocketServe \/ SocketRequest \/ SocketRespond \/ SocketExecute
  \/ SocketDefault \/ SocketBody
=============================================================================
