------------------------------ MODULE Context ------------------------------
(***************************************************************************)
(* The request context of context.go: the list of functions of a request   *)
(* (ctx.nexts, ctx.index), what they leave behind (ctx.Body, ctx.Session,  *)
(* the opened bases), and the calls that the functions an application      *)
(* registers may make on it.  Plan, Event, Queue, Socket and Http add the  *)
(* functions of each kind of request, Requests puts them together.         *)
(*                                                                         *)
(* A Go call stack is kept as a sequence of frames, the running function   *)
(* first.  Filters, actions and handlers are the application's: they make  *)
(* any calls in any order, before and after their call of ctx.Next().      *)
(***************************************************************************)
EXTENDS Naturals, Sequences, FiniteSets

CONSTANTS Modes,        \* the kinds of request served
          Kinds,        \* the kinds of base a context opens: data, cache, file
          NFilter,      \* registered filters of each of the three stages
          NAction,      \* functions under "action" in a route
          NHandler,     \* registered handlers of each kind of failure
          NCustom,      \* functions of a route for each kind of failure
          MaxReader,    \* bound: readers given to ctx.Buffer in a request
          MaxDivert     \* bound: calls of Found, Error, Failed and Denied

ASSUME ContextAssumption ==
  /\ "data" \in Kinds
  /\ Modes \subseteq {"plan", "event", "queue", "socket", "http"}
  /\ {NFilter, NAction, NHandler, NCustom, MaxReader, MaxDivert} \subseteq Nat

VARIABLES mode,         \* ctx.mode, "none" before the first request
          route,        \* what ctx.Config says: see Routes
          nexts, index, \* ctx.nexts, ctx.index
          stack,        \* the running functions, innermost first
          body,         \* ctx.Body
          session,      \* ctx.Session: is the user signed in?
          stored,       \* the same, in the session store
          bases,        \* ctx.databases, ctx.cachebases, ctx.filebases
          readers,      \* readers given to ctx.Buffer: "open", "closed", ...
          answers,      \* calls of res.Finish and res.Delay for this request
          passed,       \* has request let the action run?
          dirty,        \* was the session changed since it was written?
          broken,       \* did a filter break the line, or a function panic?
          diverts       \* calls of Found, Error, Failed and Denied so far

vars == <<mode, route, nexts, index, stack, body, session, stored, bases,
          readers, answers, passed, dirty, broken, diverts>>
lineVars == <<nexts, index, stack>>
logVars == <<mode, route, answers, passed, broken, diverts>>

\* A name without a route; a route with no word on sessions, with sessions
\* off or on; and a route whose "auth" has a "must".
Routes == {"missing", "plain", "off", "on", "auth"}
RaftStates == {"Follower", "Candidate", "Leader", "Shutdown"}
Library == {"request", "respond", "execute", "default", "body"}
Custom == {"reqFilter", "exeFilter", "action", "handler", "resFilter"}
NoBody == [type |-> "nil", reader |-> 0]
Bodies == [type : {"nil", "finish", "delay", "page", "buffer"},
           reader : 0..MaxReader]

\* A frame remembers, for the filters around a whole stage, that they have
\* called ctx.Next().
Frame(f) == [fn |-> f, nexted |-> f \notin {"reqFilter", "resFilter"}]
Repeat(f, n) == [i \in 1..n |-> f]
Running(f) == stack # <<>> /\ Head(stack).fn = f
CustomRuns == stack # <<>> /\ Head(stack).fn \in Custom
Caller == Tail(stack)

\* Mutant of Line: ctx.clear() keeps ctx.index.
LineKeepsIndex(fs, rest) ==
  /\ nexts' = fs
  /\ index' = index + 1
  /\ stack' = <<Frame(Head(fs))>> \o rest
\* ctx.clear(), ctx.next(fs...) and ctx.Next() in a row, with the frames
\* that are left when the function called returns.
Line(fs, rest) ==
  /\ nexts' = fs
  /\ index' = IF fs = <<>> THEN 0 ELSE 1
  /\ stack' = IF fs = <<>> THEN rest ELSE <<Frame(Head(fs))>> \o rest

\* ctx.Next(): calls the next function of the list, if there is one.
NextFunc(rest) ==
  /\ nexts' = nexts
  /\ IF index < Len(nexts)
       THEN /\ index' = index + 1
            /\ stack' = <<Frame(nexts[index + 1])>> \o rest
       ELSE index' = index /\ stack' = rest

Return == UNCHANGED <<nexts, index>> /\ stack' = Caller
\* A panic: no function of the request goes on.
Panic == UNCHANGED <<nexts, index>> /\ stack' = <<>>

\* ctx.sessional: the setting of the route, or the default of the module.
sessional(default) ==
  route \in {"on", "auth"} \/ (default /\ route \in {"missing", "plain"})

\* A fresh context.
newContext(m, r) ==
  /\ mode' = m /\ route' = r
  /\ body' = NoBody /\ session' = FALSE
  /\ bases' = [k \in Kinds |-> "none"] /\ readers' = <<>>
  /\ passed' = FALSE /\ dirty' = FALSE /\ broken' = FALSE /\ diverts' = 0
  /\ UNCHANGED stored
\* What serve puts on the list: the request filters, request and execute.
ServeLine == Repeat("reqFilter", NFilter) \o <<"request", "execute">>

\* The list that found, error, failed and denied build: the functions of the
\* route, the registered handlers, the default one.
HandlerLine ==
  Repeat("handler", IF route = "missing" THEN 0 ELSE NCustom)
    \o Repeat("handler", NHandler) \o <<"default">>

-----------------------------------------------------------------------------
(* What request does before and after the action. *)

\* argsHandler: the arguments are as the route says, or not.
argsHandler == BOOLEAN
\* authHandler: a user who has to be signed in and is not, or whose record is
\* gone, is refused; the record is read from a data base.
authHandler(signed) ==
  IF route # "auth" THEN {"skipped"}
  ELSE IF signed THEN {"signed", "fetched", "gone"} ELSE {"unsigned"}
Refused == {"unsigned", "gone"}
\* itemHandler: the records that the arguments name are read and kept.
itemHandler == {"skipped", "empty", "gone", "fetched"}
Absent == {"empty", "gone"}
Reads == {"gone", "fetched"}

\* ctx.dataBase and its likes: opened once, kept in the context to be closed
\* by final.  One opened once the request is answered stays open.
Opened(k) == [bases EXCEPT ![k] =
  IF @ # "none" THEN @ ELSE IF answers = <<>> THEN "open" ELSE "late"]
final == [k \in Kinds |-> IF bases[k] = "open" THEN "closed" ELSE bases[k]]

\* The frame that goes on with request after the function it calls.
Resume == <<Frame("respond")>> \o Caller
\* SESSION is read at the start of request, if it can be.
ReadSession(default) ==
  \E readable \in BOOLEAN :
    session' = (session \/ (sessional(default) /\ readable /\ stored))
\* SESSION is written before the answer; a failure of the store is ignored.
WriteSession(default) ==
  /\ \E writable \in BOOLEAN :
       stored' = IF sessional(default) /\ writable THEN session ELSE stored
  /\ dirty' = (dirty /\ ~sessional(default))
\* The outcomes of the checks, and the base they open.
Checked(args, a, i) ==
  /\ passed' = (args /\ a \notin Refused /\ i \notin Absent)
  /\ bases' = IF args /\ (a \in Reads \/ (a \notin Refused /\ i \in Reads))
                THEN Opened("data") ELSE bases
\* Without a route there is nothing to check.
Unchecked == passed' = FALSE /\ bases' = bases

\* The rest of request: the response filters and the body.
RespondLine == Repeat("resFilter", NFilter) \o <<"body">>
\* execute: the filters of its stage, then the actions of the route.
ExecuteLine == Repeat("exeFilter", NFilter) \o Repeat("action", NAction)

-----------------------------------------------------------------------------
(* The calls of the application's functions. *)

\* ctx.Finish and ctx.Delay.  Unlike the other answers they do not close a
\* reader that waits to be copied.
Finish == [type |-> "finish", reader |-> 0]
Delay == [type |-> "delay", reader |-> 0]
FinishOrDelay ==
  /\ CustomRuns
  /\ body' \in {Finish, Delay}
  /\ readers' = [i \in DOMAIN readers |->
       IF body.type = "buffer" /\ i = body.reader /\ readers[i] = "open"
         THEN "dropped" ELSE readers[i]]
  /\ UNCHANGED <<lineVars, logVars, session, stored, bases, dirty>>

\* A custom function calls ctx.Next().
CallNext ==
  /\ CustomRuns
  /\ NextFunc(<<[Head(stack) EXCEPT !.nexted = TRUE]>> \o Caller)
  /\ UNCHANGED <<logVars, body, session, stored, bases, readers, dirty>>

\* ctx.Signin and ctx.Signout.  What a response filter changes comes after
\* the session was written.
Sign ==
  /\ CustomRuns
  /\ \E signed \in BOOLEAN : session' = signed
  /\ dirty' = (dirty \/ Head(stack).fn # "resFilter")
  /\ UNCHANGED <<lineVars, logVars, body, stored, bases, readers>>

\* The use of a base from a custom function.
Base ==
  /\ CustomRuns
  /\ \E k \in Kinds : bases' = Opened(k)
  /\ UNCHANGED <<lineVars, logVars, body, session, stored, readers, dirty>>

\* A custom function returns.  A request or response filter that has not
\* called ctx.Next() stops the line.
Leave ==
  /\ CustomRuns
  /\ Return
  /\ broken' = (broken \/ ~Head(stack).nexted)
  /\ UNCHANGED <<mode, route, answers, passed, diverts, body, session, stored,
                 bases, readers, dirty>>

\* Another request of the same session writes the store.
OtherRequest ==
  /\ stack # <<>>
  /\ stored' = ~stored
  /\ UNCHANGED <<lineVars, logVars, body, session, bases, readers, dirty>>
=============================================================================
