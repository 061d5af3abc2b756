-------------------------------- MODULE Plan --------------------------------
(***************************************************************************)
(* The requests of plan.go: a plan is run when its time comes.             *)
(***************************************************************************)
EXTENDS Context

\* Custom and registered handlers, then the default one, in place of what was
\* left of the line.
PlanFound(rest) == Line(HandlerLine, rest)
PlanError(rest) == Line(HandlerLine, rest)
PlanFailed(rest) == Line(HandlerLine, rest)
PlanDenied(rest) == Line(HandlerLine, rest)
PlanDefault ==
  /\ mode = "plan" /\ Running("default")
  /\ body' = Finish
  /\ Return
  /\ UNCHANGED <<logVars, session, stored, bases, readers, dirty>>

newPlanContext(r) == newContext("plan", r)

\* Mutant of PlanServe: the plan is run after it was answered.
PlanServeGoesOn ==
  /\ "plan" \in Modes /\ stack = <<>>
  /\ \E r \in Routes : newPlanContext(r)
  /\ answers' \in {<<>>, <<"delay">>, <<"finish">>}
  /\ Line(ServeLine, <<>>)

\* Only the leader runs a plan, unless it is started by hand; in an election
\* it is put off, elsewhere it counts as done.  (The context of a plan that is
\* turned away stands for none: no function sees it.)
PlanServe ==
  /\ "plan" \in Modes /\ stack = <<>>
  /\ \E r \in Routes : newPlanContext(r)
  /\ \E manual \in BOOLEAN, state \in RaftStates :
       IF manual \/ state = "Leader"
         THEN answers' = <<>> /\ Line(ServeLine, <<>>)
         ELSE /\ answers' = <<IF state = "Candidate" THEN "delay" ELSE "finish">>
              /\ UNCHANGED lineVars

\* The session, the checks in their order, and on to execute.
PlanRequest ==
  /\ mode = "plan" /\ Running("request")
  /\ ReadSession(FALSE)
  /\ IF route = "missing"
       THEN PlanFound(Resume) /\ Unchecked
       ELSE \E args \in argsHandler, a \in authHandler(session'), i \in itemHandler :
              /\ Checked(args, a, i)
              /\ CASE ~args -> PlanFailed(Resume)
                   [] args /\ a \in Refused -> PlanDenied(Resume)
                   [] args /\ a \notin Refused /\ i \in Absent -> PlanFailed(Resume)
                   [] OTHER -> NextFunc(Resume)
  /\ UNCHANGED <<mode, route, answers, broken, diverts, body, stored, readers,
                 dirty>>

\* The rest of request.
PlanRespond ==
  /\ mode = "plan" /\ Running("respond")
  /\ WriteSession(FALSE)
  /\ Line(RespondLine, Caller)
  /\ UNCHANGED <<logVars, body, session, bases, readers>>

PlanExecute ==
  /\ mode = "plan" /\ Running("execute")
  /\ Line(ExecuteLine, Caller)
  /\ UNCHANGED <<logVars, body, session, stored, bases, readers, dirty>>

\* The driver is told, and the bases are closed.
PlanBody ==
  /\ mode = "plan" /\ Running("body")
  /\ answers' = Append(answers, IF body = Delay THEN "delay" ELSE "finish")
  /\ bases' = final
  /\ Return
  /\ UNCHANGED <<mode, route, passed, broken, diverts, body, session, stored,
                 readers, dirty>>

PlanNext ==
  \/ PlanServe \/ PlanRequest \/ PlanRespond \/ PlanExecute
  \/ PlanDefault \/ PlanBody
=============================================================================
