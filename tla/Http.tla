-------------------------------- MODULE Http --------------------------------
(***************************************************************************)
(* The requests of http.go, and the answers of context.go that only they   *)
(* have: a page (everything but a reader) and a reader that body copies    *)
(* to the client.                                                          *)
(***************************************************************************)
EXTENDS Context

\* The reader of an earlier ctx.Buffer is closed when another answer takes
\* its place.
Closed == IF body.type = "buffer" THEN [readers EXCEPT ![body.reader] = "closed"]
          ELSE readers
Page == [type |-> "page", reader |-> 0]
\* Mutant of PutPage: the reader is left open.
PutPageLeaks == body' = Page /\ readers' = readers
\* ctx.Goto, Text, Html, Script, Json, Jsonp, Xml, File, Down, View, Route,
\* Redirect, Alert, Show, Result and Answer.
PutPage == body' = Page /\ readers' = Closed

HttpAnswer ==
  /\ mode = "http" /\ CustomRuns
  /\ PutPage
  /\ UNCHANGED <<lineVars, logVars, session, stored, bases, dirty>>
\* ctx.Buffer.  A reader given once the request is answered is never looked at.
Buffer ==
  /\ mode = "http" /\ CustomRuns /\ Len(readers) < MaxReader
  /\ readers' = Append(Closed, IF answers = <<>> THEN "open" ELSE "late")
  /\ body' = [type |-> "buffer", reader |-> Len(readers) + 1]
  /\ UNCHANGED <<lineVars, logVars, session, stored, bases, dirty>>

\* Custom and registered handlers, then the default one, in place of what was
\* left of the line.
HttpFound(rest) == Line(HandlerLine, rest)
HttpError(rest) == Line(HandlerLine, rest)
HttpFailed(rest) == Line(HandlerLine, rest)
\* Mutant of HttpDenied: what is left of the line is not cleared.
HttpDeniedKeepsLine(rest) == /\ nexts' = nexts \o HandlerLine
                             /\ index' = index + 1
                             /\ stack' = <<Frame(nexts'[index + 1])>> \o rest
HttpDenied(rest) == Line(HandlerLine, rest)
\* The default handlers: a result, a view or an alert.
HttpDefault ==
  /\ mode = "http" /\ Running("default")
  /\ PutPage
  /\ Return
  /\ UNCHANGED <<logVars, session, stored, bases, dirty>>

newHttpContext(r) == newContext("http", r)
HttpServe ==
  /\ "http" \in Modes /\ stack = <<>>
  /\ \E r \in Routes : newHttpContext(r)
  /\ answers' = <<>>
  /\ Line(ServeLine, <<>>)

\* formHandler: the form can be read, or not.
formHandler == BOOLEAN
\* Without a route the static files are tried; the form is read before the
\* arguments are checked.
HttpRequest ==
  /\ mode = "http" /\ Running("request")
  /\ ReadSession(TRUE)
  /\ \/ /\ route = "missing"
        /\ PutPage /\ Unchecked
        /\ UNCHANGED <<nexts, index>> /\ stack' = Resume
     \/ /\ route = "missing"
        /\ HttpFound(Resume) /\ Unchecked
        /\ UNCHANGED <<body, readers>>
     \/ /\ route # "missing"
        /\ \E form \in formHandler, args \in argsHandler, a \in authHandler(session'),
              i \in itemHandler :
             /\ Checked(form /\ args, a, i)
             /\ CASE ~form \/ ~args -> HttpFailed(Resume)
                  [] form /\ args /\ a \in Refused -> HttpDenied(Resume)
                  [] form /\ args /\ a \notin Refused /\ i \in Absent ->
                       HttpFailed(Resume)
                  [] OTHER -> NextFunc(Resume)
        /\ UNCHANGED <<body, readers>>
  /\ UNCHANGED <<mode, route, answers, broken, diverts, stored, dirty>>
\* Mutant of HttpRespond: no answer if the session cannot be written.
HttpRespondOrNot ==
  /\ mode = "http" /\ Running("respond")
  /\ \/ WriteSession(TRUE) /\ Line(RespondLine, Caller)
     \/ UNCHANGED <<stored, dirty>> /\ Line(<<>>, Caller)
  /\ UNCHANGED <<logVars, body, session, bases, readers>>

\* The rest of request, after the action or the handlers.
HttpRespond ==
  /\ mode = "http" /\ Running("respond")
  /\ WriteSession(TRUE)
  /\ Line(RespondLine, Caller)
  /\ UNCHANGED <<logVars, body, session, bases, readers>>

HttpExecute ==
  /\ mode = "http" /\ Running("execute")
  /\ Line(ExecuteLine, Caller)
  /\ UNCHANGED <<logVars, body, session, stored, bases, readers, dirty>>

\* A reader is copied and closed, any other answer is written, and every one
\* finishes the request.
bodyBuffer == body.type = "buffer" /\ readers' = Closed
bodyPage == body.type # "buffer" /\ readers' = readers
HttpBody ==
  /\ mode = "http" /\ Running("body")
  /\ bodyBuffer \/ bodyPage
  /\ answers' = Append(answers, "finish")
  /\ bases' = final
  /\ Return
  /\ UNCHANGED <<mode, route, passed, broken, diverts, body, session, stored,
                 dirty>>

HttpNext ==
  \/ HttpServe \/ HttpRequest \/ HttpRespond \/ HttpExecute \/ HttpDefault
  \/ HttpBody \/ HttpAnswer \/ Buffer
=============================================================================
