-------------------------- MODULE PolicyCacheProofs --------------------------
(***************************************************************************)
(* Why the cache of policies is never older than its time to live, for any *)
(* evaluators, scopes and writes.                                          *)
(*                                                                         *)
(* An entry expires TTL after a moment at which its rules were in force    *)
(* (Entries), because the clock is read before the table (Evaluating); and *)
(* while a write is under way, whatever the cache holds of its scope was   *)
(* stored after the flush, which is recorded in raced (Races).             *)
(***************************************************************************)
EXTENDS PolicyCache, SequenceTheorems, TLAPS

\* The next version of s, if there is one, was committed at t or later.
ReplacedAfter(s, v, t) == v < Len(log[s]) => t <= log[s][v + 1].since

Entries(s) ==
  cache[s].version # 0 =>
    /\ cache[s].version \in 1..Len(log[s])
    /\ cache[s].expires <= clock + TTL
    /\ cache[s].version < Len(log[s]) =>
         cache[s].expires <= log[s][cache[s].version + 1].since + TTL

Evaluating(e) ==
  /\ eval[e].stage \in {"query", "store", "decided"} => eval[e].now <= clock
  /\ eval[e].stage = "store" =>
       /\ eval[e].version \in 1..Len(log[ScopeOf(e)])
       /\ ReplacedAfter(ScopeOf(e), eval[e].version, eval[e].now)
  /\ (eval[e].stage = "decided" /\ eval[e].version # 0) =>
       /\ eval[e].version \in 1..Len(log[ScopeOf(e)])
       /\ RecentlyInForce(ScopeOf(e), eval[e].version, eval[e].now)

Races(s) ==
  cache[s].version # 0 =>
    /\ cache[s].version < Len(log[s]) => s \in raced
    /\ (\E w \in writing : s \in Changes[w]) => s \in raced

PolicyInv ==
  /\ PolicyTypeOK
  /\ \A s \in Scopes : Entries(s) /\ Races(s)
  /\ \A e \in Evaluators : Evaluating(e)

-----------------------------------------------------------------------------
LEMMA ScopeOfType ==
  ASSUME PolicyTypeOK, NEW e \in Evaluators
  PROVE  ScopeOf(e) \in Scopes
<1>1. ScopesOf[e] \in Seq(Scopes) /\ eval[e].at \in 1..Len(ScopesOf[e])
  BY PolicyAssumption DEF PolicyTypeOK
<1> QED
  BY <1>1, ElementOfSeq DEF ScopeOf

LEMMA NoEvaluationType ==
  /\ NoEvaluation \in Evaluation
  /\ NoEvaluation.at = 1
  /\ NoEvaluation.stage = "idle"
  /\ \A e \in Evaluators : 1 \in 1..Len(ScopesOf[e])
<1>1. (CHOOSE c \in Classes : TRUE) \in Classes
  BY PolicyAssumption
<1>2. ASSUME NEW e \in Evaluators PROVE 1 \in 1..Len(ScopesOf[e])
  BY PolicyAssumption, EmptySeq
<1> QED
  BY <1>1, <1>2 DEF NoEvaluation, Evaluation

LEMMA InitPolicyInv == InitPolicy => PolicyInv
<1> SUFFICES ASSUME InitPolicy PROVE PolicyInv
  OBVIOUS
<1>1. PolicyTypeOK
  <2>1. ASSUME NEW c \in Contents PROVE <<[since |-> 0, rules |-> c]>> \in Seq(Version) \ {<<>>}
    <3>1. [since |-> 0, rules |-> c] \in Version
      BY DEF Version
    <3> QED
      BY <3>1
  <2> DEFINE first == {<<[since |-> 0, rules |-> c]>> : c \in Contents}
  <2>2. log \in [Scopes -> first]
    BY DEF InitPolicy
  <2>3. first \subseteq Seq(Version) \ {<<>>}
    BY <2>1
  <2> HIDE DEF first
  <2>4. log \in [Scopes -> Seq(Version) \ {<<>>}]
    BY <2>2, <2>3
  <2> QED
    BY <2>4, NoEvaluationType DEF InitPolicy, PolicyTypeOK, Entry, NoEntry
<1>2. ASSUME NEW s \in Scopes PROVE Entries(s) /\ Races(s)
  BY DEF InitPolicy, NoEntry, Entries, Races
<1>3. ASSUME NEW e \in Evaluators PROVE Evaluating(e)
  BY NoEvaluationType DEF InitPolicy, Evaluating
<1> QED
  BY <1>1, <1>2, <1>3 DEF PolicyInv

-----------------------------------------------------------------------------
(***************************************************************************)
(* A step of evaluation e that leaves the table alone keeps the invariant  *)
(* if what it stores and what it becomes do.                               *)
(***************************************************************************)
LEMMA EvaluationStep ==
  ASSUME PolicyInv, NEW e \in Evaluators, NEW x \in Evaluation,
         x.at \in 1..Len(ScopesOf[e]),
         eval' = [eval EXCEPT ![e] = x],
         UNCHANGED <<clock, log, cache, writing, written, raced>>,
         Evaluating(e)'
  PROVE  PolicyInv'
<1> USE DEF PolicyInv
<1>1. PolicyTypeOK'
  BY DEF PolicyTypeOK
<1>2. ASSUME NEW s \in Scopes PROVE Entries(s)' /\ Races(s)'
  BY DEF Entries, Races
<1>3. ASSUME NEW f \in Evaluators PROVE Evaluating(f)'
  <2>1. CASE f = e
    BY <2>1
  <2>2. CASE f # e
    <3>1. eval'[f] = eval[f]
      BY <2>2 DEF PolicyTypeOK
    <3> QED
      BY <3>1 DEF Evaluating, ScopeOf, ReplacedAfter, RecentlyInForce
  <2> QED
    BY <2>1, <2>2
<1> QED
  BY <1>1, <1>2, <1>3

LEMMA StartKeepsPolicy ==
  ASSUME PolicyInv, NEW e \in Evaluators, NEW c \in Classes, StartEvaluation(e, c),
         UNCHANGED <<clock, log, cache, writing, written, raced>>
  PROVE  PolicyInv'
<1> DEFINE x == [NoEvaluation EXCEPT !.stage = "lookup", !.class = c]
<1>1. x \in Evaluation /\ x.at \in 1..Len(ScopesOf[e]) /\ x.stage = "lookup"
  BY NoEvaluationType DEF NoEvaluation, Evaluation
<1>2. eval' = [eval EXCEPT ![e] = x]
  BY DEF StartEvaluation
<1>3. eval'[e] = x
  BY <1>2 DEF PolicyInv, PolicyTypeOK
<1> HIDE DEF x
<1> QED
  BY <1>1, <1>2, <1>3, EvaluationStep DEF Evaluating

LEMMA EndKeepsPolicy ==
  ASSUME PolicyInv, NEW e \in Evaluators, EndEvaluation(e),
         UNCHANGED <<clock, log, cache, writing, written, raced>>
  PROVE  PolicyInv'
<1>1. eval' = [eval EXCEPT ![e] = NoEvaluation] /\ eval'[e] = NoEvaluation
  BY DEF EndEvaluation, PolicyInv, PolicyTypeOK
<1> QED
  BY <1>1, NoEvaluationType, EvaluationStep DEF Evaluating

\* Judged ends with a verdict of version v, or goes on with the next scope.
LEMMA JudgedType ==
  ASSUME PolicyInv, NEW e \in Evaluators, NEW v \in 1..Len(log[ScopeOf(e)])
  PROVE  /\ Judged(e, v) \in Evaluation
         /\ Judged(e, v).at \in 1..Len(ScopesOf[e])
         /\ Judged(e, v).stage \in {"lookup", "decided"}
         /\ Judged(e, v).stage = "decided" =>
              /\ Judged(e, v).version = v
              /\ Judged(e, v).at = eval[e].at
              /\ Judged(e, v).now = eval[e].now
<1> USE DEF PolicyInv
<1>1. log[ScopeOf(e)] \in Seq(Version)
  BY ScopeOfType DEF PolicyTypeOK
<1>2. log[ScopeOf(e)][v] \in Version /\ v \in Nat
  BY <1>1, ElementOfSeq, LenProperties
<1>3. eval[e] \in Evaluation /\ eval[e].at \in 1..Len(ScopesOf[e])
  BY DEF PolicyTypeOK
<1> DEFINE verdict == log[ScopeOf(e)][v].rules[eval[e].class]
<1>4. verdict \in {"none", "allow", "deny"}
  BY <1>2, <1>3, PolicyAssumption DEF Version, Evaluation
<1>5. Len(ScopesOf[e]) \in Nat
  BY PolicyAssumption, LenProperties
<1>6. CASE verdict # "none"
  <2>1. Judged(e, v) = [eval[e] EXCEPT !.stage = "decided", !.version = v, !.verdict = verdict]
    BY <1>3, <1>6 DEF Judged, Evaluation
  <2> HIDE DEF verdict
  <2> QED
    BY <1>2, <1>3, <1>4, <2>1 DEF Evaluation
<1>7. CASE verdict = "none" /\ eval[e].at = Len(ScopesOf[e])
  <2>1. Judged(e, v) = [eval[e] EXCEPT !.stage = "decided", !.version = v, !.verdict = "deny"]
    BY <1>3, <1>7 DEF Judged, Evaluation
  <2> QED
    BY <1>2, <1>3, <2>1 DEF Evaluation
<1>8. CASE verdict = "none" /\ eval[e].at # Len(ScopesOf[e])
  <2>1. Judged(e, v) = [NoEvaluation EXCEPT !.stage = "lookup", !.class = eval[e].class,
                                            !.at = eval[e].at + 1]
    BY <1>8 DEF Judged
  <2>2. eval[e].at + 1 \in 1..Len(ScopesOf[e]) /\ eval[e].at + 1 \in Nat
    BY <1>3, <1>5, <1>8
  <2>3. eval[e].class \in Classes
    BY <1>3 DEF Evaluation
  <2>4. /\ Judged(e, v) \in Evaluation
        /\ Judged(e, v).at = eval[e].at + 1
        /\ Judged(e, v).stage = "lookup"
    BY <2>1, <2>2, <2>3, NoEvaluationType DEF Evaluation
  <2> QED
    BY <2>2, <2>4
<1> QED
  BY <1>6, <1>7, <1>8

\* A hit has not expired, so its rules were in force less than TTL ago.
LEMMA LookupKeepsPolicy ==
  ASSUME PolicyInv, NEW e \in Evaluators, Lookup(e)
  PROVE  PolicyInv'
<1> USE DEF PolicyInv
<1> DEFINE s == ScopeOf(e)
           hit == cache[s]
<1>1. s \in Scopes /\ clock \in Nat /\ hit \in Entry /\ log[s] \in Seq(Version)
  BY ScopeOfType DEF PolicyTypeOK
<1>2. UNCHANGED <<clock, log, cache, writing, written, raced>>
  BY DEF Lookup
<1>3. eval[e] \in Evaluation /\ eval[e].at \in 1..Len(ScopesOf[e])
  BY DEF PolicyTypeOK
<1>4. CASE hit.version # 0 /\ hit.expires > clock
  <2> DEFINE x == [Judged(e, hit.version) EXCEPT !.now = clock]
  <2>1. eval' = [eval EXCEPT ![e] = x] /\ eval'[e] = x
    BY <1>4 DEF Lookup, PolicyTypeOK
  <2>2. hit.version \in 1..Len(log[s]) /\ Entries(s)
    BY <1>1, <1>4 DEF Entries
  <2>3. /\ x \in Evaluation
        /\ x.at \in 1..Len(ScopesOf[e])
        /\ x.now = clock
        /\ x.stage \in {"lookup", "decided"}
        /\ x.stage = "decided" => x.version = hit.version /\ x.at = eval[e].at
    BY <1>1, <2>2, JudgedType DEF Evaluation
  <2>4. RecentlyInForce(s, hit.version, clock)
    <3> SUFFICES ASSUME hit.version < Len(log[s])
                 PROVE  clock < log[s][hit.version + 1].since + TTL
      BY DEF RecentlyInForce
    <3>1. log[s][hit.version + 1] \in Version
      BY <1>1, <2>2, ElementOfSeq, LenProperties
    <3>2. hit.expires <= log[s][hit.version + 1].since + TTL
      BY <1>4, <2>2 DEF Entries
    <3> QED
      BY <1>1, <1>4, <3>1, <3>2, PolicyAssumption DEF Entry, Version
  <2> HIDE DEF x
  <2>5. Evaluating(e)'
    <3>1. CASE x.stage = "lookup"
      BY <2>1, <3>1 DEF Evaluating
    <3>2. CASE x.stage = "decided"
      <4>1. ScopeOf(e)' = s
        BY <2>1, <2>3, <3>2 DEF ScopeOf
      <4>2. log' = log /\ clock' = clock /\ clock <= clock
        BY <1>1, <1>2
      <4> HIDE DEF s
      <4> QED
        BY <2>1, <2>2, <2>3, <2>4, <3>2, <4>1, <4>2 DEF Evaluating, RecentlyInForce
    <3> QED
      BY <2>3, <3>1, <3>2
  <2> QED
    BY <1>2, <2>1, <2>3, <2>5, EvaluationStep
<1>5. CASE ~(hit.version # 0 /\ hit.expires > clock)
  <2> DEFINE x == [eval[e] EXCEPT !.stage = "query", !.now = clock]
  <2>1. eval' = [eval EXCEPT ![e] = x] /\ eval'[e] = x
    BY <1>5 DEF Lookup, PolicyTypeOK
  <2>2. x \in Evaluation /\ x.at \in 1..Len(ScopesOf[e]) /\ x.stage = "query" /\ x.now = clock
    BY <1>1, <1>3 DEF Evaluation
  <2> HIDE DEF x
  <2>3. Evaluating(e)'
    BY <1>1, <1>2, <2>1, <2>2 DEF Evaluating
  <2> QED
    BY <1>2, <2>1, <2>2, <2>3, EvaluationStep
<1> QED
  BY <1>4, <1>5

\* The clock was read before the query: what replaces the rules comes later.
LEMMA QueryKeepsPolicy ==
  ASSUME PolicyInv, NEW e \in Evaluators, Query(e)
  PROVE  PolicyInv'
<1> USE DEF PolicyInv
<1> DEFINE s == ScopeOf(e)
           x == [eval[e] EXCEPT !.stage = "store", !.version = Len(log[s])]
<1>1. s \in Scopes /\ log[s] \in Seq(Version) /\ log[s] # <<>>
  BY ScopeOfType DEF PolicyTypeOK
<1>2. Len(log[s]) \in Nat /\ Len(log[s]) \in 1..Len(log[s])
  BY <1>1, EmptySeq
<1>3. eval' = [eval EXCEPT ![e] = x] /\ eval'[e] = x /\ eval[e].stage = "query"
      /\ UNCHANGED <<clock, log, cache, writing, written, raced>>
  BY DEF Query, PolicyTypeOK
<1>4. /\ x \in Evaluation /\ x.at = eval[e].at /\ x.at \in 1..Len(ScopesOf[e])
      /\ x.stage = "store" /\ x.now = eval[e].now /\ x.version = Len(log[s])
  BY <1>2 DEF PolicyTypeOK, Evaluation
<1>5. eval[e].now <= clock
  BY <1>3 DEF Evaluating
<1> HIDE DEF x
<1>6. ScopeOf(e)' = s
  BY <1>3, <1>4 DEF ScopeOf
<1> HIDE DEF s
<1>7. Evaluating(e)'
  BY <1>2, <1>3, <1>4, <1>5, <1>6 DEF Evaluating, ReplacedAfter
<1> QED
  BY <1>3, <1>4, <1>7, EvaluationStep

LEMMA QueryFailsKeepsPolicy ==
  ASSUME PolicyInv, NEW e \in Evaluators, QueryFails(e)
  PROVE  PolicyInv'
<1> USE DEF PolicyInv
<1> DEFINE x == [eval[e] EXCEPT !.stage = "decided", !.version = 0,
                   !.verdict = IF eval[e].class = "read" THEN "allow" ELSE "deny"]
<1>1. eval' = [eval EXCEPT ![e] = x] /\ eval'[e] = x /\ eval[e].stage = "query"
      /\ UNCHANGED <<clock, log, cache, writing, written, raced>>
  BY DEF QueryFails, PolicyTypeOK
<1>2. /\ x \in Evaluation /\ x.at \in 1..Len(ScopesOf[e])
      /\ x.stage = "decided" /\ x.now = eval[e].now /\ x.version = 0
  BY DEF PolicyTypeOK, Evaluation
<1> HIDE DEF x
<1>3. Evaluating(e)'
  BY <1>1, <1>2 DEF Evaluating
<1> QED
  BY <1>1, <1>2, <1>3, EvaluationStep

\* An entry that is stored expires TTL after the clock was read.
LEMMA StoreKeepsPolicy ==
  ASSUME PolicyInv, NEW e \in Evaluators, Store(e)
  PROVE  PolicyInv'
<1> USE DEF PolicyInv
<1> DEFINE s == ScopeOf(e)
           v == eval[e].version
           entry == [expires |-> eval[e].now + TTL, version |-> v]
           x == Judged(e, v)
<1>1. /\ eval[e].stage = "store"
      /\ cache' = [cache EXCEPT ![s] = entry]
      /\ eval' = [eval EXCEPT ![e] = x]
      /\ raced' = IF Overtaken(e) THEN raced \union {s} ELSE raced \ {s}
      /\ UNCHANGED <<clock, log, writing, written>>
  BY DEF Store, Stored
<1>2. /\ s \in Scopes /\ log[s] \in Seq(Version) /\ Len(log[s]) \in Nat /\ clock \in Nat
      /\ eval[e] \in Evaluation /\ TTL \in Nat \ {0}
  BY ScopeOfType, LenProperties, PolicyAssumption DEF PolicyTypeOK
<1>3. v \in 1..Len(log[s]) /\ ReplacedAfter(s, v, eval[e].now) /\ eval[e].now <= clock
  BY <1>1 DEF Evaluating
<1>4. /\ x \in Evaluation /\ x.at \in 1..Len(ScopesOf[e])
      /\ x.stage \in {"lookup", "decided"}
      /\ x.stage = "decided" => x.version = v /\ x.at = eval[e].at /\ x.now = eval[e].now
  BY <1>3, JudgedType
<1>5. entry \in Entry /\ v \in Nat /\ v # 0 /\ eval[e].now \in Nat
  BY <1>2, <1>3 DEF Entry, Evaluation
<1>6. v < Len(log[s]) => log[s][v + 1] \in Version /\ eval[e].now <= log[s][v + 1].since
  BY <1>2, <1>3, ElementOfSeq DEF ReplacedAfter
<1> HIDE DEF x
<1>7. PolicyTypeOK'
  BY <1>1, <1>2, <1>4, <1>5 DEF PolicyTypeOK
<1>8. ASSUME NEW z \in Scopes PROVE Entries(z)'
  <2>1. CASE z = s
    <3>1. cache'[z] = entry
      BY <1>1, <2>1 DEF PolicyTypeOK
    <3>2. cache'[z].version = v /\ cache'[z].expires = eval[e].now + TTL
      BY <3>1
    <3>3. eval[e].now + TTL <= clock + TTL
      BY <1>2, <1>3, <1>5
    <3>4. v < Len(log[z]) => eval[e].now + TTL <= log[z][v + 1].since + TTL
      BY <1>2, <1>5, <1>6, <2>1 DEF Version
    <3> HIDE DEF s, v
    <3> QED
      BY <1>1, <1>3, <2>1, <3>2, <3>3, <3>4 DEF Entries
  <2>2. CASE z # s
    <3>1. cache'[z] = cache[z]
      BY <1>1, <2>2 DEF PolicyTypeOK
    <3> QED
      BY <1>1, <3>1 DEF Entries
  <2> QED
    BY <2>1, <2>2
<1>9. ASSUME NEW z \in Scopes PROVE Races(z)'
  <2>1. CASE z = s
    BY <1>1, <1>2, <2>1 DEF Races, Overtaken, PolicyTypeOK
  <2>2. CASE z # s
    <3>1. cache'[z] = cache[z] /\ (z \in raced => z \in raced')
      BY <1>1, <2>2 DEF PolicyTypeOK
    <3> QED
      BY <1>1, <3>1 DEF Races
  <2> QED
    BY <2>1, <2>2
<1>10. ASSUME NEW f \in Evaluators PROVE Evaluating(f)'
  <2>1. CASE f # e
    <3>1. eval'[f] = eval[f]
      BY <1>1, <2>1 DEF PolicyTypeOK
    <3> QED
      BY <1>1, <3>1 DEF Evaluating, ScopeOf, ReplacedAfter, RecentlyInForce
  <2>2. CASE f = e
    <3>1. eval'[e] = x
      BY <1>1 DEF PolicyTypeOK
    <3>2. CASE x.stage = "lookup"
      BY <2>2, <3>1, <3>2 DEF Evaluating
    <3>3. CASE x.stage = "decided"
      <4>1. ScopeOf(e)' = s
        BY <1>4, <3>1, <3>3 DEF ScopeOf
      <4> HIDE DEF s, v
      <4>2. RecentlyInForce(s, v, eval[e].now)
        BY <1>2, <1>5, <1>6 DEF RecentlyInForce, Version
      <4> QED
        BY <1>1, <1>3, <1>4, <2>2, <3>1, <3>3, <4>1, <4>2 DEF Evaluating, RecentlyInForce
    <3> QED
      BY <1>4, <3>2, <3>3
  <2> QED
    BY <2>1, <2>2
<1> QED
  BY <1>7, <1>8, <1>9, <1>10

LEMMA EvaluateKeepsPolicy ==
  ASSUME PolicyInv, NEW e \in Evaluators, Evaluate(e)
  PROVE  PolicyInv'
  BY LookupKeepsPolicy, QueryKeepsPolicy, QueryFailsKeepsPolicy, StoreKeepsPolicy DEF Evaluate

-----------------------------------------------------------------------------
(***************************************************************************)
(* Writes and time.                                                        *)
(***************************************************************************)
\* A flush clears the cache of its process, or is noticed in raced.
LEMMA FlushKeepsPolicy ==
  ASSUME PolicyInv, NEW w \in Writers, NEW here \in BOOLEAN, Flush(w, here)
  PROVE  PolicyInv'
<1> USE DEF PolicyInv
<1>1. writing' = writing \union {w} /\ UNCHANGED <<clock, log, written, eval>>
  BY DEF Flush
<1> PICK S \in SUBSET Scopes : S = Changes[w]
  BY PolicyAssumption
<1>2. ASSUME NEW e \in Evaluators PROVE Evaluating(e)'
  BY <1>1 DEF Evaluating, ScopeOf, ReplacedAfter, RecentlyInForce
<1>3. CASE here
  <2>1. cache' = [s \in Scopes |-> NoEntry] /\ raced' = {}
    BY <1>3 DEF Flush
  <2>2. PolicyTypeOK'
    BY <1>1, <2>1 DEF PolicyTypeOK, NoEntry, Entry
  <2>3. ASSUME NEW s \in Scopes PROVE Entries(s)' /\ Races(s)'
    BY <2>1 DEF Entries, Races, NoEntry
  <2> QED
    BY <1>2, <2>2, <2>3
<1>4. CASE ~here
  <2>1. raced' = raced \union S /\ cache' = cache
    BY <1>4 DEF Flush
  <2>2. PolicyTypeOK'
    BY <1>1, <2>1 DEF PolicyTypeOK
  <2>3. ASSUME NEW s \in Scopes PROVE Entries(s)'
    BY <1>1, <2>1 DEF Entries
  <2>4. ASSUME NEW s \in Scopes PROVE Races(s)'
    BY <1>1, <2>1 DEF Races, PolicyTypeOK
  <2> QED
    BY <1>2, <2>2, <2>3, <2>4
<1> QED
  BY <1>3, <1>4

\* A commit replaces the rules in force at the clock's time, so nobody has
\* read the clock later.
LEMMA CommitKeepsPolicy ==
  ASSUME PolicyInv, NEW w \in Writers, NEW new \in [Scopes -> Contents], Commit(w, new)
  PROVE  PolicyInv'
<1> USE DEF PolicyInv
<1> DEFINE version(s) == [since |-> clock, rules |-> new[s]]
<1>1. /\ log' = [s \in Scopes |->
                   IF s \in Changes[w] THEN Append(log[s], version(s)) ELSE log[s]]
      /\ w \in writing /\ writing' = writing \ {w}
      /\ written' = written \union {w}
      /\ UNCHANGED <<clock, cache, eval, raced>>
  BY DEF Commit, EndWrite
<1>2. clock \in Nat /\ TTL \in Nat \ {0}
  BY PolicyAssumption DEF PolicyTypeOK
<1>3. ASSUME NEW s \in Scopes
      PROVE  /\ log[s] \in Seq(Version) /\ Len(log[s]) \in Nat
             /\ log'[s] \in Seq(Version) /\ log'[s] # <<>>
             /\ s \notin Changes[w] => log'[s] = log[s]
             /\ s \in Changes[w] =>
                  /\ Len(log'[s]) = Len(log[s]) + 1
                  /\ \A k \in 1..Len(log[s]) : log'[s][k] = log[s][k]
                  /\ log'[s][Len(log[s]) + 1].since = clock
  <2>1. version(s) \in Version
    BY <1>2 DEF Version
  <2>2. log[s] \in Seq(Version) /\ log[s] # <<>> /\ Len(log[s]) \in Nat
    BY LenProperties DEF PolicyTypeOK
  <2> QED
    BY <1>1, <2>1, <2>2, AppendProperties
<1>4. PolicyTypeOK'
  <2>1. log' \in [Scopes -> Seq(Version) \ {<<>>}]
    BY <1>1, <1>3
  <2> QED
    BY <1>1, <1>3, <2>1 DEF PolicyTypeOK
<1>5. ASSUME NEW s \in Scopes, NEW v \in 1..Len(log[s]), NEW t \in Nat, t <= clock
      PROVE  /\ v \in 1..Len(log'[s])
             /\ ReplacedAfter(s, v, t) => ReplacedAfter(s, v, t)'
             /\ RecentlyInForce(s, v, t) => RecentlyInForce(s, v, t)'
  <2>1. CASE s \notin Changes[w]
    <3>1. log'[s] = log[s]
      BY <1>3, <2>1
    <3> QED
      BY <1>5, <3>1 DEF ReplacedAfter, RecentlyInForce
  <2>2. CASE s \in Changes[w]
    <3>1. /\ Len(log[s]) \in Nat
          /\ Len(log'[s]) = Len(log[s]) + 1
          /\ v + 1 = Len(log[s]) + 1 \/ v + 1 \in 1..Len(log[s])
      BY <1>3, <2>2
    <3>2. CASE v + 1 = Len(log[s]) + 1
      <4>1. log'[s][v + 1].since = clock
        BY <1>3, <2>2, <3>2
      <4> QED
        BY <1>2, <1>5, <3>1, <4>1 DEF ReplacedAfter, RecentlyInForce
    <3>3. CASE v + 1 \in 1..Len(log[s])
      <4>1. log'[s][v + 1] = log[s][v + 1]
        BY <1>3, <2>2, <3>3
      <4> QED
        BY <1>5, <3>1, <3>3, <4>1 DEF ReplacedAfter, RecentlyInForce
    <3> QED
      BY <3>1, <3>2, <3>3
  <2> QED
    BY <2>1, <2>2
<1>6. ASSUME NEW s \in Scopes PROVE Entries(s)'
  <2>1. cache[s] \in Entry
    BY DEF PolicyTypeOK
  <2> DEFINE v == cache[s].version
  <2> SUFFICES ASSUME v # 0
               PROVE  /\ v \in 1..Len(log'[s])
                      /\ cache[s].expires <= clock + TTL
                      /\ v < Len(log'[s]) => cache[s].expires <= log'[s][v + 1].since + TTL
    BY <1>1 DEF Entries
  <2>2. /\ v \in 1..Len(log[s]) /\ cache[s].expires <= clock + TTL
        /\ v < Len(log[s]) => cache[s].expires <= log[s][v + 1].since + TTL
    BY DEF Entries
  <2>3. CASE s \notin Changes[w]
    <3>1. log'[s] = log[s]
      BY <1>3, <2>3
    <3> QED
      BY <2>2, <3>1
  <2>4. CASE s \in Changes[w]
    <3>1. /\ Len(log[s]) \in Nat /\ Len(log'[s]) = Len(log[s]) + 1
          /\ v = Len(log[s]) \/ v + 1 \in 1..Len(log[s])
      BY <1>3, <2>2, <2>4
    <3>2. v = Len(log[s]) => log'[s][v + 1].since = clock
      BY <1>3, <2>4
    <3>3. v + 1 \in 1..Len(log[s]) => log'[s][v + 1] = log[s][v + 1]
      BY <1>3, <2>4
    <3> HIDE DEF v
    <3> QED
      BY <2>2, <3>1, <3>2, <3>3
  <2> QED
    BY <2>3, <2>4
<1>7. ASSUME NEW s \in Scopes PROVE Races(s)'
  <2>1. cache[s] \in Entry
    BY DEF PolicyTypeOK
  <2> QED
    BY <1>1, <1>3, <2>1 DEF Races, Entry
<1>8. ASSUME NEW e \in Evaluators PROVE Evaluating(e)'
  <2>1. ScopeOf(e) \in Scopes /\ ScopeOf(e)' = ScopeOf(e) /\ eval[e].now \in Nat
    BY <1>1, ScopeOfType DEF ScopeOf, PolicyTypeOK, Evaluation
  <2> QED
    BY <1>1, <1>5, <2>1 DEF Evaluating, ReplacedAfter, RecentlyInForce
<1> QED
  BY <1>4, <1>6, <1>7, <1>8

LEMMA RollbackKeepsPolicy ==
  ASSUME PolicyInv, NEW w \in Writers, Rollback(w)
  PROVE  PolicyInv'
<1> USE DEF PolicyInv
<1>1. /\ writing' = writing \ {w}
      /\ written' = written \union {w}
      /\ UNCHANGED <<clock, log, cache, eval, raced>>
  BY DEF Rollback, EndWrite
<1>2. PolicyTypeOK'
  BY <1>1 DEF PolicyTypeOK
<1>3. ASSUME NEW s \in Scopes PROVE Entries(s)' /\ Races(s)'
  BY <1>1 DEF Entries, Races, PolicyTypeOK
<1>4. ASSUME NEW e \in Evaluators PROVE Evaluating(e)'
  BY <1>1 DEF Evaluating, ScopeOf, ReplacedAfter, RecentlyInForce
<1> QED
  BY <1>2, <1>3, <1>4

LEMMA WriteKeepsPolicy ==
  ASSUME PolicyInv, NEW w \in Writers, Write(w)
  PROVE  PolicyInv'
  BY FlushKeepsPolicy, CommitKeepsPolicy, RollbackKeepsPolicy DEF Write

LEMMA TickKeepsPolicy ==
  ASSUME PolicyInv, Tick
  PROVE  PolicyInv'
<1> USE DEF PolicyInv
<1>1. clock \in Nat /\ clock' = clock + 1 /\ TTL \in Nat
      /\ UNCHANGED <<log, cache, writing, written, eval, raced>>
  BY PolicyAssumption DEF Tick, PolicyTypeOK
<1>2. PolicyTypeOK'
  BY <1>1 DEF PolicyTypeOK
<1>3. ASSUME NEW s \in Scopes PROVE Entries(s)' /\ Races(s)'
  <2>1. cache[s] \in Entry
    BY DEF PolicyTypeOK
  <2> QED
    BY <1>1, <2>1 DEF Entries, Races, Entry
<1>4. ASSUME NEW e \in Evaluators PROVE Evaluating(e)'
  <2>1. eval[e].now \in Nat
    BY DEF PolicyTypeOK, Evaluation
  <2>2. eval[e].now <= clock => eval[e].now <= clock'
    BY <1>1, <2>1
  <2>3. UNCHANGED <<log, eval>>
    BY <1>1
  <2> QED
    BY <2>2, <2>3 DEF Evaluating, ScopeOf, ReplacedAfter, RecentlyInForce
<1> QED
  BY <1>2, <1>3, <1>4

LEMMA StutterKeepsPolicy ==
  ASSUME PolicyInv, UNCHANGED policyVars
  PROVE  PolicyInv'
  BY DEF PolicyInv, policyVars, PolicyTypeOK, Entries, Races, Evaluating, ScopeOf,
         ReplacedAfter, RecentlyInForce

\* The invariant gives the two properties of the cache.
LEMMA PolicyProperties == PolicyInv => DecisionsAreRecent /\ StaleOnlyAfterRace
  BY DEF PolicyInv, Evaluating, Races, DecisionsAreRecent, StaleOnlyAfterRace
=============================================================================
