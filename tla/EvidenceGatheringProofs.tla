----------------------- MODULE EvidenceGatheringProofs -----------------------
(***************************************************************************)
(* The safety properties of EvidenceGathering and of the policy cache it   *)
(* uses, for any roster, budget, scopes and writes.                        *)
(*                                                                         *)
(* The plan visits the specialists in the order of order_specialists,      *)
(* which is a permutation of the roster (OrderIsComplete).  The budget     *)
(* holds because a call is counted before it is evaluated (Budgeted), and  *)
(* a skip keeps its reason because nothing gathers after the budget is     *)
(* used up and evidence is only ever added (Accounted).                    *)
(***************************************************************************)
EXTENDS EvidenceGathering, PolicyCacheProofs, FiniteSetTheorems, FunctionTheorems

N == Len(Roster)

\* Position k of the roster comes at place Rank(k) of the order.
Upto(k) == {m \in DOMAIN Roster : Before(m, k)}
Rank(k) == Cardinality(Upto(k))

LEMMA RosterType ==
  /\ N \in Nat
  /\ DOMAIN Roster = 1..N
  /\ \A k \in 1..N : Roster[k] \in Specialists /\ Stage[Roster[k]] \in Nat
  /\ IsFiniteSet(1..N) /\ Cardinality(1..N) = N
<1>1. N \in Nat /\ DOMAIN Roster = 1..N
  BY GatheringAssumption, LenProperties DEF N
<1>2. \A k \in 1..N : Roster[k] \in Specialists
  BY <1>1 DEF Specialists
<1>3. \A k \in 1..N : Stage[Roster[k]] \in Nat
  BY <1>2, GatheringAssumption
<1>4. IsFiniteSet(1..N) /\ Cardinality(1..N) = N
  BY <1>1, FS_Interval
<1> QED
  BY <1>1, <1>2, <1>3, <1>4

\* Before is a linear order of the positions.
LEMMA BeforeIsLinear ==
  ASSUME NEW j \in 1..N, NEW k \in 1..N
  PROVE  /\ Before(k, k)
         /\ Before(j, k) \/ Before(k, j)
         /\ Before(j, k) /\ Before(k, j) => j = k
         /\ \A m \in 1..N : Before(m, j) /\ Before(j, k) => Before(m, k)
  BY RosterType DEF Before

LEMMA RankType ==
  ASSUME NEW k \in 1..N
  PROVE  /\ IsFiniteSet(Upto(k))
         /\ Rank(k) \in 1..N
<1>1. Upto(k) \in SUBSET (1..N) /\ k \in Upto(k)
  BY RosterType, BeforeIsLinear DEF Upto
<1>2. IsFiniteSet(Upto(k)) /\ Rank(k) <= N
  BY <1>1, RosterType, FS_Subset DEF Rank
<1>3. Rank(k) \in Nat /\ Rank(k) # 0
  BY <1>1, <1>2, FS_CardinalityType, FS_EmptySet DEF Rank
<1> QED
  BY <1>2, <1>3, RosterType

LEMMA RankGrows ==
  ASSUME NEW j \in 1..N, NEW k \in 1..N, j # k, Before(j, k)
  PROVE  Rank(j) < Rank(k)
<1>1. Upto(j) \in SUBSET Upto(k)
  BY RosterType, BeforeIsLinear DEF Upto
<1>2. k \in Upto(k) /\ k \notin Upto(j)
  BY RosterType, BeforeIsLinear DEF Upto
<1>3. Rank(j) <= Rank(k) /\ Rank(j) # Rank(k)
  BY <1>1, <1>2, RankType, FS_Subset DEF Rank
<1> QED
  BY <1>3, RankType

LEMMA RankIsPermutation ==
  /\ \A j, k \in 1..N : Rank(j) = Rank(k) => j = k
  /\ \A n \in 1..N : \E k \in 1..N : Rank(k) = n
<1> DEFINE rank == [k \in 1..N |-> Rank(k)]
<1>1. \A j, k \in 1..N : Rank(j) = Rank(k) => j = k
  <2> SUFFICES ASSUME NEW j \in 1..N, NEW k \in 1..N, j # k PROVE Rank(j) # Rank(k)
    OBVIOUS
  <2>1. Rank(j) \in Nat /\ Rank(k) \in Nat
    BY RankType
  <2>2. Rank(j) < Rank(k) \/ Rank(k) < Rank(j)
    BY BeforeIsLinear, RankGrows
  <2> QED
    BY <2>1, <2>2
<1>2. rank \in [1..N -> 1..N]
  BY RankType
<1>3. rank \in Injection(1..N, 1..N)
  BY <1>1, <1>2, Fun_IsInj
<1> HIDE DEF rank
<1>4. rank \in Surjection(1..N, 1..N)
  BY <1>3, RosterType, FS_Injection
<1>5. \A n \in 1..N : \E k \in 1..N : rank[k] = n
  BY <1>4, Fun_SurjectionProperties
<1> QED
  BY <1>1, <1>5 DEF rank

\* No specialist is twice in the roster.
LEMMA RosterIsInjective == \A j, k \in 1..N : Roster[j] = Roster[k] => j = k
<1>1. Roster \in [1..N -> Specialists]
  BY GatheringAssumption, LenProperties DEF N
<1>2. \A s \in Specialists : \E k \in 1..N : Roster[k] = s
  BY RosterType DEF Specialists
<1>3. Roster \in Surjection(1..N, Specialists)
  BY <1>1, <1>2, Fun_IsSurj
<1>4. Roster \in Injection(1..N, Specialists)
  BY <1>3, RosterType, GatheringAssumption, FS_SurjSameCardinalityImpliesInj DEF N
<1> QED
  BY <1>4, Fun_InjectionProperties

\* The order visits every specialist, and each once.
LEMMA OrderIsComplete ==
  /\ Len(order_specialists) = N
  /\ \A n \in 1..N : order_specialists[n] \in Specialists
  /\ \A s \in Specialists : \E n \in 1..N :
       \A m \in 1..N : order_specialists[m] = s <=> m = n
<1> DEFINE at(n) == CHOOSE k \in 1..N : Rank(k) = n
<1>1. \A n \in 1..N : at(n) \in 1..N /\ Rank(at(n)) = n
  BY RankIsPermutation
<1>2. \A k \in 1..N : at(Rank(k)) = k
  BY <1>1, RankType, RankIsPermutation
<1>3. order_specialists = [n \in 1..N |-> Roster[at(n)]]
  BY RosterType DEF order_specialists, Rank, Upto, N
<1> HIDE DEF at
<1>4. Len(order_specialists) = N
  BY <1>3, RosterType
<1>5. \A n \in 1..N : order_specialists[n] \in Specialists
  BY <1>1, <1>3, RosterType
<1>6. ASSUME NEW s \in Specialists
      PROVE  \E n \in 1..N : \A m \in 1..N : order_specialists[m] = s <=> m = n
  <2>1. PICK k \in 1..N : Roster[k] = s
    BY RosterType DEF Specialists
  <2>2. Rank(k) \in 1..N
    BY RankType
  <2>3. ASSUME NEW m \in 1..N PROVE order_specialists[m] = s <=> m = Rank(k)
    BY <1>1, <1>2, <1>3, <2>1, RosterIsInjective
  <2> QED
    BY <2>2, <2>3
<1> QED
  BY <1>4, <1>5, <1>6

-----------------------------------------------------------------------------
RunTypes ==
  /\ place \in [Runs -> {"start", "catalog", "plan", "gather", "policy", "done", "failed"}]
  /\ steps \in [Runs -> Seq(Step)]
  /\ failing \in [Runs -> Specialists \union {Nobody}]
  /\ used \in [Runs -> 0..LIMIT + 1]
  /\ started \in [Runs -> Nat]
  /\ calls \in [Runs -> Seq(Outcomes)]
  /\ evidence \in [Runs -> SUBSET Row]
  /\ invoked \in [Runs -> Nat]

Named(s) == [specialist |-> s, outcome |-> "named"]

\* The plan so far follows the order, and somebody is asked while it is not done.
Planned(r) ==
  /\ Len(steps[r]) <= N
  /\ \A n \in 1..Len(steps[r]) :
       /\ steps[r][n].specialist = order_specialists[n]
       /\ steps[r][n].taken = (steps[r][n].why = "enter")
  /\ place[r] \in {"start", "catalog"} => Len(steps[r]) = 0
  /\ place[r] \in {"gather", "policy"} =>
       Len(steps[r]) # 0 /\ steps[r][Len(steps[r])].why = "enter"
  /\ place[r] = "done" => Len(steps[r]) = N

Budgeted(r) ==
  /\ place[r] # "failed" => used[r] <= LIMIT
  /\ invoked[r] <= used[r] /\ invoked[r] <= LIMIT
  /\ place[r] = "policy" => invoked[r] < used[r]

\* Step n is accounted for; the specialist that is asked now is not yet.
Accounted(r, n) ==
  /\ (steps[r][n].taken /\ (n < Len(steps[r]) \/ place[r] \in {"plan", "done"})) =>
       \E row \in evidence[r] : row.specialist = steps[r][n].specialist
  /\ steps[r][n].why = "budget" => used[r] = LIMIT /\ place[r] \in {"plan", "done"}
  /\ steps[r][n].why = "failing" =>
       \E m \in 1..n - 1 : Named(steps[r][m].specialist) \in evidence[r]

Gathered(r) ==
  /\ Planned(r)
  /\ Budgeted(r)
  /\ place[r] # "failed" =>
       /\ \A n \in 1..Len(steps[r]) : Accounted(r, n)
       /\ failing[r] # Nobody =>
            \E m \in 1..Len(steps[r]) : Named(steps[r][m].specialist) \in evidence[r]

GatheringInv ==
  /\ PolicyInv
  /\ RunTypes
  /\ \A r \in Runs : Gathered(r)

-----------------------------------------------------------------------------
LEMMA InitInv == Init => GatheringInv
<1> SUFFICES ASSUME Init PROVE GatheringInv
  OBVIOUS
<1>1. PolicyInv
  BY InitPolicyInv DEF Init
<1>2. RunTypes
  BY GatheringAssumption DEF Init, RunTypes
<1>3. ASSUME NEW r \in Runs PROVE Gathered(r)
  <2>1. Len(steps[r]) = 0
    BY <1>3 DEF Init
  <2> QED
    BY <1>3, <2>1, RosterType, GatheringAssumption
       DEF Init, Gathered, Planned, Budgeted, Accounted
<1> QED
  BY <1>1, <1>2, <1>3 DEF GatheringInv

\* What is known of r depends on its own variables only.
LEMMA GatheredKept ==
  ASSUME NEW r, Gathered(r), place'[r] = place[r], steps'[r] = steps[r],
         failing'[r] = failing[r], used'[r] = used[r], evidence'[r] = evidence[r],
         invoked'[r] = invoked[r]
  PROVE  Gathered(r)'
  BY DEF Gathered, Planned, Budgeted, Accounted, Named

\* A step of run r keeps the invariant if it keeps what is known of r.
LEMMA RunStepFrame ==
  ASSUME GatheringInv, NEW r \in Runs, RunTypes', PolicyInv', Gathered(r)',
         \A q \in Runs \ {r} :
           /\ place'[q] = place[q] /\ steps'[q] = steps[q] /\ failing'[q] = failing[q]
           /\ used'[q] = used[q] /\ evidence'[q] = evidence[q] /\ invoked'[q] = invoked[q]
  PROVE  GatheringInv'
<1>1. ASSUME NEW q \in Runs \ {r} PROVE Gathered(q)'
  BY GatheredKept DEF GatheringInv
<1> QED
  BY <1>1 DEF GatheringInv

\* While a run gathers, its last step is the specialist it asks.
LEMMA CurrentType ==
  ASSUME GatheringInv, NEW r \in Runs, place[r] \in {"gather", "policy"}
  PROVE  /\ Len(steps[r]) \in 1..N
         /\ Current(r) \in Specialists
         /\ Current(r) = steps[r][Len(steps[r])].specialist
<1>1. Len(steps[r]) \in Nat
  BY LenProperties DEF GatheringInv, RunTypes
<1>2. Len(steps[r]) \in 1..N
  BY <1>1, RosterType DEF GatheringInv, Gathered, Planned
<1>3. Current(r) = steps[r][Len(steps[r])].specialist
  BY <1>2 DEF GatheringInv, Gathered, Planned, Current
<1> QED
  BY <1>2, <1>3, OrderIsComplete DEF Current

-----------------------------------------------------------------------------
LEMMA StartKeepsInv ==
  ASSUME GatheringInv, NEW r \in Runs, Start(r)
  PROVE  GatheringInv'
<1> USE DEF GatheringInv
<1>1. /\ place[r] = "start"
      /\ started' = [started EXCEPT ![r] = clock]
      /\ place' = [place EXCEPT ![r] = "catalog"]
      /\ UNCHANGED <<policyVars, steps, failing, used, calls, evidence, invoked>>
  BY DEF Start, Goto
<1>2. PolicyInv'
  BY <1>1, StutterKeepsPolicy
<1>3. RunTypes'
  BY <1>1 DEF RunTypes, PolicyInv, PolicyTypeOK
<1>4. Gathered(r)'
  <2>1. place'[r] = "catalog" /\ Len(steps[r]) = 0
    BY <1>1 DEF RunTypes, Gathered, Planned
  <2> QED
    BY <1>1, <2>1 DEF Gathered, Planned, Budgeted
<1> QED
  BY <1>1, <1>2, <1>3, <1>4, RunStepFrame DEF RunTypes

\* Before the catalog is there, nothing has been visited.
LEMMA ListToolsKeepsInv ==
  ASSUME GatheringInv, NEW r \in Runs, ListTools(r)
  PROVE  GatheringInv'
<1> USE DEF GatheringInv
<1>1. PICK p \in {"plan", "failed"} :
        /\ place[r] = "catalog"
        /\ place' = [place EXCEPT ![r] = p]
        /\ UNCHANGED <<policyVars, steps, failing, used, started, calls, evidence, invoked>>
  BY DEF ListTools, Goto
<1>2. PolicyInv'
  BY <1>1, StutterKeepsPolicy
<1>3. RunTypes'
  BY <1>1 DEF RunTypes
<1>4. Gathered(r)'
  <2>1. place'[r] = p /\ Len(steps[r]) = 0
    BY <1>1 DEF RunTypes, Gathered, Planned
  <2> QED
    BY <1>1, <2>1 DEF Gathered, Planned, Budgeted
<1> QED
  BY <1>1, <1>2, <1>3, <1>4, RunStepFrame DEF RunTypes

\* A new step of the plan: the reasons for a skip hold when it is decided.
LEMMA VisitKeepsInv ==
  ASSUME GatheringInv, NEW r \in Runs, Visit(r)
  PROVE  GatheringInv'
<1> USE DEF GatheringInv
<1> DEFINE s == Upcoming(r)
           why == Decision(r, s)
           step == [specialist |-> s, taken |-> why = "enter", why |-> why]
           n == Len(steps[r]) + 1
<1>1. /\ place[r] = "plan"
      /\ Len(steps[r]) # N
      /\ steps' = [steps EXCEPT ![r] = Append(steps[r], step)]
      /\ place' = [place EXCEPT ![r] = IF why = "enter" THEN "gather" ELSE "plan"]
      /\ UNCHANGED <<policyVars, failing, used, started, calls, evidence, invoked>>
  BY OrderIsComplete DEF Visit, Goto, Finished
<1>2. Len(steps[r]) \in Nat /\ steps[r] \in Seq(Step) /\ n \in 1..N
  BY <1>1, LenProperties, RosterType DEF RunTypes, Gathered, Planned
<1>3. s = order_specialists[n] /\ s \in Specialists
  BY <1>2, OrderIsComplete DEF Upcoming
<1>4. /\ why \in {"budget", "failing", "enter"}
      /\ why = "budget" => used[r] >= LIMIT
      /\ why = "failing" => failing[r] # Nobody
  BY DEF Decision
<1> HIDE DEF s, why
<1>5. step \in Step
  BY <1>3, <1>4 DEF Step
<1>6. /\ steps'[r] \in Seq(Step)
      /\ Len(steps'[r]) = n
      /\ \A m \in 1..Len(steps[r]) : steps'[r][m] = steps[r][m]
      /\ steps'[r][n] = step
  BY <1>1, <1>2, <1>5, AppendProperties DEF RunTypes
<1>7. place'[r] = IF why = "enter" THEN "gather" ELSE "plan"
  BY <1>1 DEF RunTypes
<1>8. PolicyInv'
  BY <1>1, StutterKeepsPolicy
<1>9. RunTypes'
  BY <1>1, <1>5, <1>2, AppendProperties DEF RunTypes
<1>10. Planned(r)'
  <2>1. /\ \A m \in 1..Len(steps[r]) :
             /\ steps[r][m].specialist = order_specialists[m]
             /\ steps[r][m].taken = (steps[r][m].why = "enter")
    BY DEF Planned, Gathered
  <2>2. /\ step.specialist = order_specialists[n]
        /\ step.taken = (step.why = "enter") /\ step.why = why
    BY <1>3
  <2>3. \A m \in 1..n : m = n \/ m \in 1..Len(steps[r])
    BY <1>2
  <2>4. \A m \in 1..Len(steps'[r]) :
          /\ steps'[r][m].specialist = order_specialists[m]
          /\ steps'[r][m].taken = (steps'[r][m].why = "enter")
    BY <1>6, <2>1, <2>2, <2>3
  <2>5. /\ place'[r] \in {"gather", "plan"}
        /\ place'[r] = "gather" => Len(steps'[r]) # 0 /\ steps'[r][Len(steps'[r])].why = "enter"
    BY <1>2, <1>6, <1>7, <2>2
  <2> QED
    BY <1>2, <1>6, <2>4, <2>5 DEF Planned
<1>11. Budgeted(r)'
  BY <1>1, <1>7 DEF Budgeted, Gathered
<1>12. used[r] \in Nat /\ LIMIT \in Nat /\ used[r] <= LIMIT
  BY <1>1, GatheringAssumption DEF RunTypes, Gathered, Budgeted
<1>13. ASSUME NEW m \in 1..n PROVE Accounted(r, m)'
  <2>1. CASE m = n
    <3>1. why = "budget" => used[r] = LIMIT
      BY <1>4, <1>12
    <3>2. why = "failing" =>
            \E k \in 1..n - 1 : Named(steps[r][k].specialist) \in evidence[r]
      BY <1>1, <1>2, <1>4 DEF Gathered
    <3>3. \A k \in 1..n - 1 : steps'[r][k] = steps[r][k]
      BY <1>2, <1>6
    <3>4. steps'[r][m].why = why /\ steps'[r][m].taken = (why = "enter")
      BY <1>6, <2>1
    <3>5. /\ ~(m < Len(steps'[r]))
          /\ why = "enter" => place'[r] = "gather"
          /\ why = "budget" => place'[r] = "plan"
      BY <1>2, <1>6, <1>7, <2>1
    <3>6. why = "failing" =>
            \E k \in 1..m - 1 : Named(steps'[r][k].specialist) \in evidence'[r]
      BY <1>1, <2>1, <3>2, <3>3
    <3> QED
      BY <1>1, <3>1, <3>4, <3>5, <3>6 DEF Accounted, Named
  <2>2. CASE m # n
    <3>1. m \in 1..Len(steps[r]) /\ steps'[r][m] = steps[r][m]
      BY <1>2, <1>6, <2>2
    <3>2. Accounted(r, m)
      BY <1>1, <3>1 DEF Gathered
    <3>3. \A k \in 1..m - 1 : steps'[r][k] = steps[r][k]
      BY <1>2, <1>6, <3>1
    <3>4. steps[r][m].why = "budget" => place'[r] = "plan"
      <4>1. steps[r][m].why = "budget" => why = "budget"
        BY <1>12, <3>2 DEF Accounted, why, Decision
      <4> QED
        BY <1>7, <4>1
    <3> QED
      BY <1>1, <3>1, <3>2, <3>3, <3>4 DEF Accounted, Named
  <2> QED
    BY <2>1, <2>2
<1>14. Gathered(r)'
  <2>1. failing[r] # Nobody =>
          \E m \in 1..Len(steps'[r]) : Named(steps'[r][m].specialist) \in evidence[r]
    BY <1>1, <1>2, <1>6 DEF Gathered
  <2> QED
    BY <1>1, <1>6, <1>10, <1>11, <1>13, <2>1 DEF Gathered, Named
<1> QED
  BY <1>1, <1>8, <1>9, <1>14, RunStepFrame DEF RunTypes

-----------------------------------------------------------------------------
(***************************************************************************)
(* Asking a specialist.                                                    *)
(***************************************************************************)
\* A call is counted before the policy is asked, so the budget is never passed
\* by a call that is made.
LEMMA CallKeepsInv ==
  ASSUME GatheringInv, NEW r \in Runs, Call(r)
  PROVE  GatheringInv'
<1> USE DEF GatheringInv
<1>1. /\ place[r] = "gather"
      /\ used' = [used EXCEPT ![r] = used[r] + 1]
      /\ UNCHANGED <<clock, log, cache, writing, written, raced,
                     steps, failing, started, invoked>>
  BY DEF Call, MayCall
<1>2. /\ used[r] \in Nat /\ invoked[r] \in Nat /\ LIMIT \in Nat
      /\ used[r] <= LIMIT /\ invoked[r] <= used[r]
      /\ used'[r] = used[r] + 1
  BY <1>1, GatheringAssumption DEF RunTypes, Gathered, Budgeted
<1>3. used' \in [Runs -> 0..LIMIT + 1]
  BY <1>1, <1>2 DEF RunTypes
<1>4. \A q \in Runs \ {r} : used'[q] = used[q]
  BY <1>1 DEF RunTypes
<1>5. CASE Exceeded(r, used[r] + 1)
  <2>1. /\ place' = [place EXCEPT ![r] = "failed"]
        /\ calls' = [calls EXCEPT ![r] = <<>>]
        /\ evidence' = [evidence EXCEPT ![r] = {}]
        /\ UNCHANGED eval
    BY <1>5 DEF Call, BudgetFails, Goto
  <2>2. PolicyInv'
    BY <1>1, <2>1, StutterKeepsPolicy DEF policyVars
  <2>3. RunTypes'
    BY <1>1, <1>3, <2>1 DEF RunTypes
  <2>4. place'[r] = "failed"
    BY <2>1 DEF RunTypes
  <2>5. Gathered(r)'
    BY <1>1, <1>2, <2>4 DEF Gathered, Planned, Budgeted
  <2> QED
    BY <1>1, <1>4, <2>1, <2>2, <2>3, <2>5, RunStepFrame DEF RunTypes
<1>6. CASE ~Exceeded(r, used[r] + 1)
  <2>1. /\ StartEvaluation(r, Class[Current(r)])
        /\ place' = [place EXCEPT ![r] = "policy"]
        /\ UNCHANGED <<calls, evidence>>
    BY <1>6 DEF Call, AskPolicy, Goto
  <2>2. Class[Current(r)] \in Classes /\ r \in Evaluators
    BY <1>1, CurrentType, GatheringAssumption
  <2>3. PolicyInv'
    BY <1>1, <2>1, <2>2, StartKeepsPolicy
  <2>4. RunTypes'
    BY <1>1, <1>3, <2>1 DEF RunTypes
  <2>5. place'[r] = "policy"
    BY <2>1 DEF RunTypes
  <2>6. used[r] + 1 <= LIMIT
    BY <1>2, <1>6 DEF Exceeded
  <2>7. \A n \in 1..Len(steps[r]) : steps[r][n].why # "budget"
    BY <1>1 DEF Gathered, Accounted
  <2>8. ASSUME NEW n \in 1..Len(steps[r]) PROVE Accounted(r, n)'
    BY <1>1, <2>1, <2>5, <2>7, <2>8 DEF Gathered, Accounted, Named
  <2>9. Gathered(r)'
    BY <1>1, <1>2, <2>1, <2>5, <2>6, <2>8 DEF Gathered, Planned, Budgeted, Named
  <2> QED
    BY <1>1, <1>4, <2>1, <2>3, <2>4, <2>9, RunStepFrame DEF RunTypes
<1> QED
  BY <1>5, <1>6

LEMMA AnswerKeepsInv ==
  ASSUME GatheringInv, NEW r \in Runs, NEW outcome \in Outcomes, NEW sent \in {0, 1},
         Answer(r, outcome, sent)
  PROVE  GatheringInv'
<1> USE DEF GatheringInv
<1>1. /\ place[r] = "policy"
      /\ calls' = [calls EXCEPT ![r] = Append(calls[r], outcome)]
      /\ invoked' = [invoked EXCEPT ![r] = invoked[r] + sent]
      /\ EndEvaluation(r)
      /\ place' = [place EXCEPT ![r] = "gather"]
      /\ UNCHANGED <<clock, log, cache, writing, written, raced,
                     steps, failing, used, started, evidence>>
  BY DEF Answer, Goto
<1>2. PolicyInv'
  BY <1>1, EndKeepsPolicy, GatheringAssumption
<1>3. Append(calls[r], outcome) \in Seq(Outcomes)
  BY AppendProperties DEF RunTypes
<1>4. RunTypes'
  BY <1>1, <1>3 DEF RunTypes
<1>5. place'[r] = "gather" /\ invoked'[r] = invoked[r] + sent
  BY <1>1 DEF RunTypes
<1>6. /\ used[r] \in Nat /\ invoked[r] \in Nat /\ LIMIT \in Nat
      /\ used[r] <= LIMIT /\ invoked[r] < used[r]
  BY <1>1, GatheringAssumption DEF RunTypes, Gathered, Budgeted
<1>7. \A n \in 1..Len(steps[r]) : steps[r][n].why # "budget"
  BY <1>1 DEF Gathered, Accounted
<1>8. ASSUME NEW n \in 1..Len(steps[r]) PROVE Accounted(r, n)'
  BY <1>1, <1>5, <1>7, <1>8 DEF Gathered, Accounted, Named
<1>9. Budgeted(r)'
  BY <1>1, <1>5, <1>6 DEF Budgeted
<1>10. Gathered(r)'
  BY <1>1, <1>5, <1>8, <1>9 DEF Gathered, Planned, Named
<1> QED
  BY <1>1, <1>2, <1>4, <1>10, RunStepFrame DEF RunTypes

\* A specialist that was asked leaves at least one row.
LEMMA AbsorbKeepsInv ==
  ASSUME GatheringInv, NEW r \in Runs, place[r] = "gather",
         NEW outcomes \in SUBSET Outcomes, outcomes # {}, Absorb(r, outcomes)
  PROVE  GatheringInv'
<1> USE DEF GatheringInv
<1> DEFINE new == {[specialist |-> Current(r), outcome |-> o] : o \in outcomes}
           last == Len(steps[r])
<1>1. /\ evidence' = [evidence EXCEPT ![r] = evidence[r] \union new]
      /\ failing' = [failing EXCEPT ![r] =
           IF "named" \in outcomes /\ failing[r] = Nobody THEN Current(r) ELSE failing[r]]
      /\ calls' = [calls EXCEPT ![r] = <<>>]
      /\ place' = [place EXCEPT ![r] = "plan"]
      /\ UNCHANGED <<policyVars, steps, used, started, invoked>>
  BY DEF Absorb, Goto
<1>2. last \in 1..N /\ Current(r) \in Specialists /\ Current(r) = steps[r][last].specialist
  BY CurrentType
<1>3. new \subseteq Row /\ \A o \in outcomes : [specialist |-> Current(r), outcome |-> o] \in new
  BY <1>2 DEF Row
<1> HIDE DEF new
<1>4. PolicyInv'
  BY <1>1, StutterKeepsPolicy
<1>5. RunTypes'
  BY <1>1, <1>2, <1>3 DEF RunTypes
<1>6. /\ place'[r] = "plan" /\ evidence'[r] = evidence[r] \union new
      /\ failing'[r] # failing[r] => "named" \in outcomes
  BY <1>1 DEF RunTypes
<1>7. steps'[r] = steps[r] /\ last \in Nat
  BY <1>1, <1>2, RosterType
<1>8. ASSUME NEW n \in 1..last PROVE Accounted(r, n)'
  <2>1. CASE n = last
    <3>1. \E row \in evidence'[r] : row.specialist = steps[r][last].specialist
      <4>1. PICK o \in outcomes : TRUE
        OBVIOUS
      <4>2. [specialist |-> Current(r), outcome |-> o] \in evidence'[r]
        BY <1>3, <1>6
      <4>3. [specialist |-> Current(r), outcome |-> o].specialist = steps[r][last].specialist
        BY <1>2
      <4> QED
        BY <4>2, <4>3
    <3>2. steps[r][last].why = "enter"
      BY DEF Gathered, Planned
    <3> QED
      BY <1>7, <2>1, <3>1, <3>2 DEF Accounted
  <2>2. CASE n # last
    <3>1. Accounted(r, n) /\ n < last
      BY <1>7, <2>2 DEF Gathered
    <3> QED
      BY <1>1, <1>6, <1>7, <3>1 DEF Accounted, Named
  <2> QED
    BY <2>1, <2>2
<1>9. failing'[r] # Nobody =>
        \E m \in 1..last : Named(steps[r][m].specialist) \in evidence'[r]
  <2>1. CASE failing'[r] # failing[r]
    <3>1. Named(steps[r][last].specialist) \in evidence'[r]
      BY <1>2, <1>3, <1>6, <2>1 DEF Named
    <3> QED
      BY <1>2, <3>1, RosterType
  <2>2. CASE failing'[r] = failing[r]
    BY <1>6, <2>2 DEF Gathered
  <2> QED
    BY <2>1, <2>2
<1>10. Gathered(r)'
  BY <1>1, <1>6, <1>7, <1>8, <1>9 DEF Gathered, Planned, Budgeted, Named
<1> QED
  BY <1>1, <1>4, <1>5, <1>10, RunStepFrame DEF RunTypes

LEMMA ReturnKeepsInv ==
  ASSUME GatheringInv, NEW r \in Runs, Return(r)
  PROVE  GatheringInv'
<1>1. PICK extra \in {{}, {"gap"}} :
        /\ place[r] = "gather"
        /\ Len(calls[r]) \in CallsOf[Current(r)]
        /\ Absorb(r, extra \union {calls[r][n] : n \in DOMAIN calls[r]})
  BY DEF Return
<1>2. calls[r] \in Seq(Outcomes)
  BY DEF GatheringInv, RunTypes
<1>3. Len(calls[r]) \in Nat \ {0} /\ DOMAIN calls[r] = 1..Len(calls[r])
  BY <1>1, <1>2, CurrentType, GatheringAssumption, LenProperties
<1>4. calls[r][1] \in Outcomes /\ 1 \in DOMAIN calls[r]
      /\ \A n \in DOMAIN calls[r] : calls[r][n] \in Outcomes
  BY <1>2, <1>3, ElementOfSeq
<1> DEFINE outcomes == extra \union {calls[r][n] : n \in DOMAIN calls[r]}
<1>5. outcomes \in SUBSET Outcomes /\ outcomes # {}
  BY <1>4 DEF Outcomes
<1> HIDE DEF outcomes
<1>6. Absorb(r, outcomes)
  BY <1>1 DEF outcomes
<1> QED
  BY <1>1, <1>5, <1>6, AbsorbKeepsInv

LEMMA FinishKeepsInv ==
  ASSUME GatheringInv, NEW r \in Runs, Finish(r)
  PROVE  GatheringInv'
<1> USE DEF GatheringInv
<1>1. /\ place[r] = "plan" /\ Len(steps[r]) = N
      /\ place' = [place EXCEPT ![r] = "done"]
      /\ UNCHANGED <<policyVars, steps, failing, used, started, calls, evidence, invoked>>
  BY OrderIsComplete DEF Finish, Finished, Goto
<1>2. PolicyInv'
  BY <1>1, StutterKeepsPolicy
<1>3. RunTypes'
  BY <1>1 DEF RunTypes
<1>4. place'[r] = "done"
  BY <1>1 DEF RunTypes
<1>5. ASSUME NEW n \in 1..Len(steps[r]) PROVE Accounted(r, n)'
  BY <1>1, <1>4, <1>5 DEF Gathered, Accounted, Named
<1>6. Gathered(r)'
  BY <1>1, <1>4, <1>5 DEF Gathered, Planned, Budgeted, Named
<1> QED
  BY <1>1, <1>2, <1>3, <1>6, RunStepFrame DEF RunTypes

-----------------------------------------------------------------------------
LEMMA RunStepKeepsInv ==
  ASSUME GatheringInv, NEW r \in Runs, RunStep(r)
  PROVE  GatheringInv'
<1>1. ASSUME Denied(r) PROVE GatheringInv'
  BY <1>1, AnswerKeepsInv DEF Denied, Outcomes
<1>2. ASSUME Invoke(r) PROVE GatheringInv'
  BY <1>2, AnswerKeepsInv DEF Invoke
<1>3. ASSUME GatherRaises(r) PROVE GatheringInv'
  BY <1>3, AbsorbKeepsInv DEF GatherRaises, Outcomes
<1> QED
  BY <1>1, <1>2, <1>3, StartKeepsInv, ListToolsKeepsInv, VisitKeepsInv, CallKeepsInv,
     ReturnKeepsInv, FinishKeepsInv DEF RunStep

\* Whatever leaves the runs alone keeps the invariant if it keeps the policies'.
LEMMA NextKeepsInv ==
  ASSUME GatheringInv, [Next]_vars
  PROVE  GatheringInv'
<1>1. ASSUME PolicyInv', UNCHANGED runVars PROVE GatheringInv'
  <2>1. RunTypes'
    BY <1>1 DEF GatheringInv, RunTypes, runVars
  <2>2. ASSUME NEW r \in Runs PROVE Gathered(r)'
    BY <1>1, GatheredKept DEF GatheringInv, runVars
  <2> QED
    BY <1>1, <2>1, <2>2 DEF GatheringInv
<1>2. PolicyInv
  BY DEF GatheringInv
<1>3. ASSUME NEW r \in Runs, RunStep(r) PROVE GatheringInv'
  BY <1>3, RunStepKeepsInv
<1>4. ASSUME NEW e \in Evaluators, Request(e) PROVE GatheringInv'
  <2>1. PolicyInv'
    BY <1>2, <1>4, StartKeepsPolicy, EndKeepsPolicy DEF Request
  <2> QED
    BY <1>1, <1>4, <2>1 DEF Request
<1>5. ASSUME NEW e \in Evaluators, Evaluate(e), UNCHANGED runVars PROVE GatheringInv'
  BY <1>1, <1>2, <1>5, EvaluateKeepsPolicy
<1>6. ASSUME NEW w \in Writers, Write(w), UNCHANGED runVars PROVE GatheringInv'
  BY <1>1, <1>2, <1>6, WriteKeepsPolicy
<1>7. ASSUME Tick, UNCHANGED runVars PROVE GatheringInv'
  BY <1>1, <1>2, <1>7, TickKeepsPolicy
<1>8. CASE UNCHANGED vars
  BY <1>1, <1>2, <1>8, StutterKeepsPolicy DEF vars
<1> QED
  BY <1>3, <1>4, <1>5, <1>6, <1>7, <1>8 DEF Next

\* Every reachable state satisfies the invariant.
LEMMA GatheringInvariant == Spec => []GatheringInv
  BY InitInv, NextKeepsInv, PTL DEF Spec

\* TypeOK: the policies, their cache and the runs keep their types.
THEOREM GatheringTypeCorrect == Spec => []TypeOK
<1>1. GatheringInv => TypeOK
  BY DEF GatheringInv, PolicyInv, RunTypes, TypeOK
<1> QED
  BY <1>1, GatheringInvariant, PTL

\* DecisionsAreRecent: no tool call is decided by rules that were replaced TTL
\* or longer before (_policies_for_scope), in any number of replicas' writes.
THEOREM PoliciesAreRecent == Spec => []DecisionsAreRecent
<1>1. GatheringInv => DecisionsAreRecent
  BY PolicyProperties DEF GatheringInv
<1> QED
  BY <1>1, GatheringInvariant, PTL

\* StaleOnlyAfterRace: without a race, or a write elsewhere, the cache holds
\* the rules in force (_invalidate_on_write).
THEOREM StaleEntriesAreExplained == Spec => []StaleOnlyAfterRace
<1>1. GatheringInv => StaleOnlyAfterRace
  BY PolicyProperties DEF GatheringInv
<1> QED
  BY <1>1, GatheringInvariant, PTL

\* WithinBudget: for any roster and any limit (record_tool_call, _safe_call).
THEOREM BudgetHolds == Spec => []WithinBudget
<1>1. GatheringInv => WithinBudget
  BY DEF GatheringInv, Gathered, Budgeted, WithinBudget
<1> QED
  BY <1>1, GatheringInvariant, PTL

\* EverySourceAccounted: an investigation that has gathered says of every
\* source what came of it or why it was skipped (run_specialists).
THEOREM NothingIsSilent == Spec => []EverySourceAccounted
<1>1. ASSUME GatheringInv PROVE EverySourceAccounted
  <2> SUFFICES ASSUME NEW r \in Runs, place[r] = "done", NEW s \in Specialists
               PROVE  \E n \in 1..Len(steps[r]) :
                        /\ StepOf(r, s) = {n}
                        /\ LET step == steps[r][n]
                           IN  /\ step.taken => \E row \in evidence[r] : row.specialist = s
                               /\ step.why = "budget" => used[r] = LIMIT
                               /\ step.why = "failing" =>
                                    \E m \in 1..n - 1 :
                                      [specialist |-> steps[r][m].specialist,
                                       outcome |-> "named"] \in evidence[r]
    BY DEF EverySourceAccounted
  <2>1. Gathered(r) /\ Len(steps[r]) = N
    BY <1>1 DEF GatheringInv, Gathered, Planned
  <2>2. DOMAIN steps[r] = 1..N
    BY <1>1, <2>1, LenProperties DEF GatheringInv, RunTypes
  <2>3. PICK n \in 1..N : \A m \in 1..N : order_specialists[m] = s <=> m = n
    BY OrderIsComplete
  <2>4. StepOf(r, s) = {n} /\ steps[r][n].specialist = s
    BY <2>1, <2>2, <2>3 DEF StepOf, Gathered, Planned
  <2>5. Accounted(r, n)
    BY <2>1 DEF Gathered
  <2> QED
    BY <2>1, <2>4, <2>5 DEF Accounted, Named
<1> QED
  BY <1>1, GatheringInvariant, PTL
=============================================================================
