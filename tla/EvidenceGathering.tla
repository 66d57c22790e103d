------------------------- MODULE EvidenceGathering -------------------------
(***************************************************************************)
(* The gathering phase of an investigation, run_specialists of             *)
(* aiops_api/modules/specialists: specialists are visited stage by stage   *)
(* under one budget of tool calls and time, every call is first evaluated  *)
(* by PolicyCache, and what was asked, skipped or failed is recorded in    *)
(* the plan and in the evidence.                                           *)
(***************************************************************************)
EXTENDS PolicyCache, FiniteSets

CONSTANTS
  Runs,      \* the investigations among the evaluators
  Roster,    \* the applicable specialists, in the order of the registry
  Stage,     \* Stage[s]: position in STAGE_ORDER
  CallsOf,   \* CallsOf[s]: how many tools gather may call before it returns
  Class,     \* Class[s]: execution class of its tools
  Broad,     \* the positions of DEPEND and CONTEXT
  LIMIT,     \* budget.tool_calls
  WALL_TIME  \* budget.wall_time

Specialists == {Roster[k] : k \in DOMAIN Roster}

ASSUME GatheringAssumption ==
  /\ Runs \subseteq Evaluators
  /\ Roster \in Seq(Specialists)
  /\ IsFiniteSet(Specialists)
  /\ Len(Roster) = Cardinality(Specialists)
  /\ Stage \in [Specialists -> Nat]
  /\ CallsOf \in [Specialists -> SUBSET (Nat \ {0})]
  /\ Class \in [Specialists -> Classes]
  /\ LIMIT \in Nat \ {0} /\ WALL_TIME \in Nat

VARIABLES
  place,    \* place[r]: where run_specialists is
  steps,    \* steps[r]: plan.steps
  failing,  \* failing[r]: the specialist whose result named failing_service
  used,     \* used[r]: tracker.tool_calls
  started,  \* started[r]: tracker.started_at
  calls,    \* calls[r]: the calls of the specialist that is gathering
  evidence, \* evidence[r]: specialist and outcome of the rows to persist
  invoked   \* history: calls that reached the gateway

runVars == <<place, steps, failing, used, started, calls, evidence, invoked>>
vars == <<policyVars, runVars>>

-----------------------------------------------------------------------------
\* named is an answer that names the failing service; a gap is an error.
Outcomes == {"ok", "named", "gap"}
Step == [specialist : Specialists, taken : BOOLEAN, why : {"enter", "budget", "failing"}]
Row == [specialist : Specialists, outcome : Outcomes]
Nobody == "nobody"

\* order_specialists: by stage, and in the order of the registry within one.
Before(m, k) ==
  \/ Stage[Roster[m]] < Stage[Roster[k]]
  \/ Stage[Roster[m]] = Stage[Roster[k]] /\ m <= k
order_specialists ==
  [n \in 1..Len(Roster) |->
     Roster[CHOOSE k \in DOMAIN Roster :
              Cardinality({m \in DOMAIN Roster : Before(m, k)}) = n]]

Finished(r) == Len(steps[r]) = Len(order_specialists)
Upcoming(r) == order_specialists[Len(steps[r]) + 1]
Current(r) == order_specialists[Len(steps[r])]

Init ==
  /\ InitPolicy
  /\ place = [r \in Runs |-> "start"]
  /\ steps = [r \in Runs |-> <<>>]
  /\ failing = [r \in Runs |-> Nobody]
  /\ used = [r \in Runs |-> 0]
  /\ started = [r \in Runs |-> 0]
  /\ calls = [r \in Runs |-> <<>>]
  /\ evidence = [r \in Runs |-> {}]
  /\ invoked = [r \in Runs |-> 0]

Goto(r, p) == place' = [place EXCEPT ![r] = p]

\* BudgetTracker.start.
Start(r) ==
  /\ place[r] = "start"
  /\ started' = [started EXCEPT ![r] = clock]
  /\ Goto(r, "catalog")
  /\ UNCHANGED <<policyVars, steps, failing, used, calls, evidence, invoked>>

\* _mesh lists the tools of the gateway; if that fails, so does the investigation.
ListTools(r) ==
  /\ place[r] = "catalog"
  /\ Goto(r, "plan") \/ Goto(r, "failed")
  /\ UNCHANGED <<policyVars, steps, failing, used, started, calls, evidence, invoked>>

\* should_enter and its reason.
Decision(r, s) ==
  IF used[r] >= LIMIT THEN "budget"
  ELSE IF failing[r] # Nobody /\ Stage[s] \in Broad THEN "failing"
  ELSE "enter"

Visit(r) ==
  /\ place[r] = "plan"
  /\ ~Finished(r)
  /\ LET why == Decision(r, Upcoming(r))
     IN  /\ steps' = [steps EXCEPT ![r] =
              Append(@, [specialist |-> Upcoming(r), taken |-> why = "enter", why |-> why])]
         /\ Goto(r, IF why = "enter" THEN "gather" ELSE "plan")
  /\ UNCHANGED <<policyVars, failing, used, started, calls, evidence, invoked>>

-----------------------------------------------------------------------------
(***************************************************************************)
(* _safe_call.  record_tool_call is outside of its try: BudgetExceeded     *)
(* leaves gather and run_specialists, and the investigation fails without  *)
(* the evidence gathered so far.                                           *)
(***************************************************************************)
Exceeded(r, n) == n > LIMIT \/ clock - started[r] > WALL_TIME

BudgetFails(r) ==
  /\ Goto(r, "failed")
  /\ calls' = [calls EXCEPT ![r] = <<>>]
  /\ evidence' = [evidence EXCEPT ![r] = {}]
  /\ UNCHANGED eval

AskPolicy(r) ==
  /\ StartEvaluation(r, Class[Current(r)])
  /\ Goto(r, "policy")
  /\ UNCHANGED <<calls, evidence>>

MayCall(r) ==
  /\ place[r] = "gather"
  /\ \E n \in CallsOf[Current(r)] : Len(calls[r]) < n

\* Mutant of Call: the limit is compared before the call is counted.
CallThenCheck(r) ==
  /\ MayCall(r)
  /\ used' = [used EXCEPT ![r] = @ + 1]
  /\ IF Exceeded(r, used[r]) THEN BudgetFails(r) ELSE AskPolicy(r)
  /\ UNCHANGED <<clock, log, cache, writing, written, raced,
                 steps, failing, started, invoked>>

Call(r) ==
  /\ MayCall(r)
  /\ used' = [used EXCEPT ![r] = @ + 1]
  /\ IF Exceeded(r, used[r] + 1) THEN BudgetFails(r) ELSE AskPolicy(r)
  /\ UNCHANGED <<clock, log, cache, writing, written, raced,
                 steps, failing, started, invoked>>

\* invoke: PolicyDenied is a gap, and so is any error of the gateway.
Answer(r, outcome, sent) ==
  /\ place[r] = "policy"
  /\ eval[r].stage = "decided"
  /\ calls' = [calls EXCEPT ![r] = Append(@, outcome)]
  /\ invoked' = [invoked EXCEPT ![r] = @ + sent]
  /\ EndEvaluation(r)
  /\ Goto(r, "gather")
  /\ UNCHANGED <<clock, log, cache, writing, written, raced,
                 steps, failing, used, started, evidence>>

Denied(r) == eval[r].verdict # "allow" /\ Answer(r, "gap", 0)
Invoke(r) == eval[r].verdict = "allow" /\ \E o \in Outcomes : Answer(r, o, 1)

\* The result of a specialist: its calls become evidence, absorb takes the first
\* failing service, and the loop goes on.
Absorb(r, outcomes) ==
  /\ evidence' = [evidence EXCEPT ![r] = @ \union
       {[specialist |-> Current(r), outcome |-> o] : o \in outcomes}]
  /\ failing' = [failing EXCEPT ![r] =
       IF "named" \in outcomes /\ @ = Nobody THEN Current(r) ELSE @]
  /\ calls' = [calls EXCEPT ![r] = <<>>]
  /\ Goto(r, "plan")
  /\ UNCHANGED <<policyVars, steps, used, started, invoked>>

\* A missing argument is recorded as a gap without a call (get_logs, no pod).
Return(r) ==
  /\ place[r] = "gather"
  /\ Len(calls[r]) \in CallsOf[Current(r)]
  /\ \E extra \in {{}, {"gap"}} :
       Absorb(r, extra \union {calls[r][n] : n \in DOMAIN calls[r]})

\* Mutant of GatherRaises: the exception is logged and the loop goes on.
GatherRaisesUnseen(r) == place[r] = "gather" /\ Absorb(r, {})

\* A specialist that raises leaves one gap instead of its calls.
GatherRaises(r) == place[r] = "gather" /\ Absorb(r, {"gap"})

Finish(r) ==
  /\ place[r] = "plan"
  /\ Finished(r)
  /\ Goto(r, "done")
  /\ UNCHANGED <<policyVars, steps, failing, used, started, calls, evidence, invoked>>

-----------------------------------------------------------------------------
\* POST /v1/policies:evaluate.
Request(e) ==
  /\ \/ \E c \in Classes : StartEvaluation(e, c)
     \/ eval[e].stage = "decided" /\ EndEvaluation(e)
  /\ UNCHANGED <<clock, log, cache, writing, written, raced, runVars>>

RunStep(r) ==
  \/ Start(r) \/ ListTools(r) \/ Visit(r) \/ Call(r) \/ Denied(r) \/ Invoke(r)
  \/ Return(r) \/ GatherRaises(r) \/ Finish(r)

Next ==
  \/ \E r \in Runs : RunStep(r)
  \/ \E e \in Evaluators \ Runs : Request(e)
  \/ \E e \in Evaluators : Evaluate(e) /\ UNCHANGED runVars
  \/ \E w \in Writers : Write(w) /\ UNCHANGED runVars
  \/ Tick /\ UNCHANGED runVars

Spec == Init /\ [][Next]_vars

-----------------------------------------------------------------------------
\* Type invariant of the policies and of the runs.
TypeOK ==
  /\ PolicyTypeOK
  /\ place \in [Runs -> {"start", "catalog", "plan", "gather", "policy", "done", "failed"}]
  /\ steps \in [Runs -> Seq(Step)]
  /\ failing \in [Runs -> Specialists \union {Nobody}]
  /\ used \in [Runs -> 0..LIMIT + 1]
  /\ started \in [Runs -> Nat]
  /\ calls \in [Runs -> Seq(Outcomes)]
  /\ evidence \in [Runs -> SUBSET Row]
  /\ invoked \in [Runs -> Nat]

\* No more calls than the budget allows reach the gateway, and none that the
\* tracker has not counted, whatever specialists raise and policies deny.
WithinBudget == \A r \in Runs : invoked[r] <= used[r] /\ invoked[r] <= LIMIT

StepOf(r, s) == {n \in DOMAIN steps[r] : steps[r][n].specialist = s}

\* What an investigation does not know is visible in it: when it has gathered,
\* each source was visited once; one that was asked has left evidence, even
\* if it raised; one that was skipped found the budget used up, or an earlier
\* source had named the failing service in evidence that is kept.
EverySourceAccounted ==
  \A r \in Runs : place[r] = "done" =>
    \A s \in Specialists : \E n \in 1..Len(steps[r]) :
      /\ StepOf(r, s) = {n}
      /\ LET step == steps[r][n]
         IN  /\ step.taken => \E row \in evidence[r] : row.specialist = s
             /\ step.why = "budget" => used[r] = LIMIT
             /\ step.why = "failing" =>
                  \E m \in 1..n - 1 :
                    [specialist |-> steps[r][m].specialist, outcome |-> "named"]
                      \in evidence[r]
=============================================================================
