---------------------------- MODULE PolicyCache ----------------------------
(***************************************************************************)
(* The policies that say which tools an investigation may call, and the    *)
(* cache in front of them: aiops_api/modules/policy.                       *)
(*                                                                         *)
(* Every tool call evaluates the policies, on the threads of one process.  *)
(* A write clears the cache when it is flushed, and takes effect when it   *)
(* is committed; an evaluation reads the clock, the cache and the table in *)
(* three steps and stores in a fourth.                                     *)
(***************************************************************************)
EXTENDS Naturals, Sequences

CONSTANTS
  Evaluators, \* those that evaluate: investigations, and dry runs of the API
  ScopesOf,   \* ScopesOf[e]: the scopes e consults, in order (tenant, then "*")
  Scopes,     \* tenant_id of the policies
  Writers,    \* the writes of policies: PUT, and the seed at startup
  Changes,    \* Changes[w]: the scopes of the policy before and after the write
  Classes,    \* execution classes of tools
  Contents,   \* what policies of a scope may say of the classes
  TTL,        \* _POLICY_CACHE_TTL_SECONDS
  MaxClock    \* bound: the clock stops here

ASSUME PolicyAssumption ==
  /\ ScopesOf \in [Evaluators -> Seq(Scopes) \ {<<>>}]
  /\ Changes \in [Writers -> SUBSET Scopes \ {{}}]
  /\ Classes # {}
  /\ Contents \subseteq [Classes -> {"allow", "deny", "none"}]
  /\ TTL \in Nat \ {0}
  /\ MaxClock \in Nat

VARIABLES
  clock,   \* time.monotonic()
  log,     \* log[s]: the rules ever committed for scope s, the last in force
  cache,   \* _POLICY_CACHE
  writing, \* the writes that are flushed and not committed
  written, \* the writes that have ended
  eval,    \* eval[e]: e's evaluation
  raced    \* history: scopes whose entry a write overtook on its way into the cache

policyVars == <<clock, log, cache, writing, written, eval, raced>>

-----------------------------------------------------------------------------
(***************************************************************************)
(* A version of a scope is its position in log; rules says what the first  *)
(* matching rule decides, "none" if no rule matches.  approval_required    *)
(* stops a call as deny does.                                              *)
(***************************************************************************)
Version == [since : Nat, rules : Contents]
Entry == [expires : Nat, version : Nat]
NoEntry == [expires |-> 0, version |-> 0]

\* version 0 is the static default, when the table cannot be read.
Evaluation ==
  [stage : {"idle", "lookup", "query", "store", "decided"}, class : Classes,
   at : Nat, now : Nat, version : Nat, verdict : {"none", "allow", "deny"}]
NoEvaluation == [stage |-> "idle", class |-> CHOOSE c \in Classes : TRUE,
                 at |-> 1, now |-> 0, version |-> 0, verdict |-> "none"]

ScopeOf(e) == ScopesOf[e][eval[e].at]

InitPolicy ==
  /\ clock = 0
  /\ log \in [Scopes -> {<<[since |-> 0, rules |-> c]>> : c \in Contents}]
  /\ cache = [s \in Scopes |-> NoEntry]
  /\ writing = {}
  /\ written = {}
  /\ eval = [e \in Evaluators |-> NoEvaluation]
  /\ raced = {}

-----------------------------------------------------------------------------
StartEvaluation(e, c) ==
  /\ eval[e].stage = "idle"
  /\ eval' = [eval EXCEPT ![e] = [NoEvaluation EXCEPT !.stage = "lookup", !.class = c]]

\* evaluate, the loop over scopes and rules: the first rule that matches
\* decides; after the last scope it is deny.
Judged(e, v) ==
  LET verdict == log[ScopeOf(e)][v].rules[eval[e].class]
      ended   == [eval[e] EXCEPT !.stage = "decided", !.version = v]
  IN  IF verdict # "none" THEN [ended EXCEPT !.verdict = verdict]
      ELSE IF eval[e].at = Len(ScopesOf[e]) THEN [ended EXCEPT !.verdict = "deny"]
      ELSE [NoEvaluation EXCEPT !.stage = "lookup", !.class = eval[e].class,
                                !.at = eval[e].at + 1]

\* _policies_for_scope up to the query.
Lookup(e) ==
  /\ eval[e].stage = "lookup"
  /\ LET hit == cache[ScopeOf(e)]
     IN  eval' = [eval EXCEPT ![e] =
           IF hit.version # 0 /\ hit.expires > clock
             THEN [Judged(e, hit.version) EXCEPT !.now = clock]
             ELSE [@ EXCEPT !.stage = "query", !.now = clock]]
  /\ UNCHANGED <<clock, log, cache, writing, written, raced>>

Query(e) ==
  /\ eval[e].stage = "query"
  /\ eval' = [eval EXCEPT ![e].stage = "store", ![e].version = Len(log[ScopeOf(e)])]
  /\ UNCHANGED <<clock, log, cache, writing, written, raced>>

\* assert_tool_allowed, its except branch: _static_default.
QueryFails(e) ==
  /\ eval[e].stage = "query"
  /\ eval' = [eval EXCEPT ![e].stage = "decided", ![e].version = 0,
                ![e].verdict = IF eval[e].class = "read" THEN "allow" ELSE "deny"]
  /\ UNCHANGED <<clock, log, cache, writing, written, raced>>

\* A write to the scope is flushed, or was committed since the query.
Overtaken(e) ==
  \/ \E w \in writing : ScopeOf(e) \in Changes[w]
  \/ eval[e].version < Len(log[ScopeOf(e)])

Stored(e, expires) ==
  /\ eval[e].stage = "store"
  /\ cache' = [cache EXCEPT ![ScopeOf(e)] =
                 [expires |-> expires, version |-> eval[e].version]]
  /\ eval' = [eval EXCEPT ![e] = Judged(e, @.version)]
  /\ raced' = IF Overtaken(e) THEN raced \union {ScopeOf(e)} ELSE raced \ {ScopeOf(e)}
  /\ UNCHANGED <<clock, log, writing, written>>

\* Mutant of Store: the time to live counts from the end of the query.
StoreForLonger(e) == Stored(e, clock + TTL)

\* The rest of _policies_for_scope: the time to live counts from before the query.
Store(e) == Stored(e, eval[e].now + TTL)

EndEvaluation(e) == eval' = [eval EXCEPT ![e] = NoEvaluation]

-----------------------------------------------------------------------------
\* Mutant of Flush: an update of policies is no reason to clear the cache.
FlushUnnoticed(w, here) ==
  /\ w \notin writing \union written
  /\ writing' = writing \union {w}
  /\ UNCHANGED <<clock, log, written, eval, cache, raced>>

(***************************************************************************)
(* upsert_policy up to the flush that its commit begins with, here or in   *)
(* another replica.  Moving a policy to another tenant changes two scopes. *)
(* Only writes of one policy wait for each other: those of different       *)
(* policies of a scope overlap.  The mapper events clear the cache of      *)
(* their own process.                                                      *)
(***************************************************************************)
Flush(w, here) ==
  /\ w \notin writing \union written
  /\ writing' = writing \union {w}
  /\ IF here
       THEN /\ cache' = [s \in Scopes |-> NoEntry]
            /\ raced' = {}
       ELSE /\ raced' = raced \union Changes[w]
            /\ UNCHANGED cache
  /\ UNCHANGED <<clock, log, written, eval>>

EndWrite(w) ==
  /\ w \in writing
  /\ writing' = writing \ {w}
  /\ written' = written \union {w}

Commit(w, new) ==
  /\ EndWrite(w)
  /\ log' = [s \in Scopes |->
       IF s \in Changes[w]
         THEN Append(log[s], [since |-> clock, rules |-> new[s]]) ELSE log[s]]
  /\ UNCHANGED <<clock, cache, eval, raced>>

Rollback(w) == EndWrite(w) /\ UNCHANGED <<clock, log, cache, eval, raced>>

Tick ==
  /\ clock < MaxClock
  /\ clock' = clock + 1
  /\ UNCHANGED <<log, cache, writing, written, eval, raced>>

Evaluate(e) == Lookup(e) \/ Query(e) \/ QueryFails(e) \/ Store(e)

Write(w) ==
  \/ \E here \in BOOLEAN : Flush(w, here)
  \/ \E new \in [Scopes -> Contents] : Commit(w, new)
  \/ Rollback(w)

-----------------------------------------------------------------------------
\* Type of the table, its cache, the writes and the evaluations.
PolicyTypeOK ==
  /\ clock \in Nat
  /\ log \in [Scopes -> Seq(Version) \ {<<>>}]
  /\ cache \in [Scopes -> Entry]
  /\ writing \subseteq Writers
  /\ written \subseteq Writers
  /\ eval \in [Evaluators -> Evaluation]
  /\ \A e \in Evaluators : eval[e].at \in 1..Len(ScopesOf[e])
  /\ raced \subseteq Scopes

\* v is in force in s, or was less than TTL before t.
RecentlyInForce(s, v, t) == v < Len(log[s]) => t < log[s][v + 1].since + TTL

\* However lookups, queries, stores and writes of all replicas overlap, an
\* evaluation decides by rules that were in force less than TTL before it
\* read the clock.
DecisionsAreRecent ==
  \A e \in Evaluators :
    (eval[e].stage = "decided" /\ eval[e].version # 0) =>
      RecentlyInForce(ScopeOf(e), eval[e].version, eval[e].now)

\* "A policy change that failed to invalidate would leave tool calls governed
\* by rules the operator already replaced": a cached set that was replaced was
\* stored while the write was under way or by an evaluation it overtook, or
\* the write was another replica's.
StaleOnlyAfterRace ==
  \A s \in Scopes :
    (cache[s].version # 0 /\ cache[s].version < Len(log[s])) => s \in raced
=============================================================================
