------------------------ MODULE RuleSuggestionsProofs ------------------------
(***************************************************************************)
(* The safety properties of RuleSuggestions, for any number of passes,     *)
(* requests and rules, any floor and any window.                           *)
(*                                                                         *)
(* Three inductive facts, one per group of variables.  Pace: the stored    *)
(* time of the last run is never older than any claim, and what a pass has *)
(* read is never older than the claims it could read, and past the floor   *)
(* when it claims.  Tables: a rule that a pass will add has been added     *)
(* since it was looked up by later batches only.  Operator:                *)
(* a request that is about to record an acceptance names a rule of Keep    *)
(* that came from its suggestion, and Keep never loses one.                *)
(***************************************************************************)
EXTENDS RuleSuggestions, SequenceTheorems, TLAPS

PaceTypes ==
  /\ lastRun \in Ages
  /\ stage \in [Passes -> Stages]
  /\ seen \in [Passes -> Ages] /\ since \in [Passes -> Ages]
  /\ earlier \in [Passes -> SUBSET Passes]

Pace ==
  /\ PaceTypes
  /\ \A q \in Passes : lastRun <= since[q]
  /\ \A p \in Passes : \A q \in earlier[p] : seen[p] <= since[q]
  /\ \A p \in Passes : stage[p] = "claim" => due_for_run(p, FLOOR)

TableTypes ==
  /\ stage \in [Passes -> Stages]
  /\ found \in [Passes -> SUBSET Cels]
  /\ batches \in Nat
  /\ fresh \in [Passes -> SUBSET Cels]
  /\ looked \in [Passes -> [Cels -> 0..batches]]
  /\ Ids \subseteq Cels \X (1..batches)
  /\ suggestion \in [Ids -> Suggestion]

\* What p will add was not in the table when p looked it up.
AddsNewRules(p) ==
  \A id \in Ids : id[1] \in fresh[p] => looked[p][id[1]] < id[2]

Tables ==
  /\ TableTypes
  /\ \A p \in Passes : AddsNewRules(p)
  /\ ProposedOnce

\* What a request knows of its suggestion and of the rule Keep has created.
Request(a) ==
  \/ \E s \in {"idle", "done"} : accept[a] = [NoAccept EXCEPT !.stage = s]
  \/ /\ accept[a] \in [stage : {"call", "record"}, id : Ids, rule : 0..Len(rules)]
     /\ accept[a].stage = "record" =>
          accept[a].rule \in 1..Len(rules) /\ rules[accept[a].rule] = accept[a].id

Operator ==
  /\ rules \in Seq(Ids)
  /\ \A a \in Accepts : Request(a)
  /\ DOMAIN accept = Accepts
  /\ AcceptedHasRule

SuggestionsInv == Pace /\ Tables /\ Operator

-----------------------------------------------------------------------------
\* Time passes for every age alike, and saturates at the same bound.
LEMMA OlderIsAge ==
  ASSUME NEW a \in Ages
  PROVE  Older(a) \in Ages
  BY SuggestionAssumption DEF Ages, Older

LEMMA OlderKeepsOrder ==
  ASSUME NEW a \in Ages, NEW b \in Ages, a <= b
  PROVE  Older(a) \in Ages /\ Older(b) \in Ages /\ Older(a) <= Older(b)
  BY SuggestionAssumption DEF Ages, Older

LEMMA InitInv == Init => SuggestionsInv
<1> SUFFICES ASSUME Init PROVE SuggestionsInv
  OBVIOUS
<1>1. Pace
  BY SuggestionAssumption DEF Init, Pace, PaceTypes, Ages, Stages, due_for_run
<1>2. Ids = {}
  BY DEF Init, Ids
<1>3. Tables
  BY <1>2 DEF Init, Tables, TableTypes, AddsNewRules, ProposedOnce, Stages, Ids, NotLooked
<1>4. Operator
  BY <1>2 DEF Init, Operator, Request, AcceptedHasRule, NoAccept
<1> QED
  BY <1>1, <1>3, <1>4 DEF SuggestionsInv

-----------------------------------------------------------------------------
(***************************************************************************)
(* Pace.                                                                   *)
(***************************************************************************)
LEMMA TickKeepsPace ==
  ASSUME Pace, Tick
  PROVE  Pace'
<1> USE DEF Pace, PaceTypes
<1>1. /\ lastRun' = Older(lastRun)
      /\ seen' = [p \in Passes |-> Older(seen[p])]
      /\ since' = [p \in Passes |-> Older(since[p])]
      /\ UNCHANGED <<earlier, stage>>
  BY DEF Tick
<1>2. PaceTypes'
  BY <1>1, OlderIsAge
<1>3. ASSUME NEW q \in Passes PROVE lastRun' <= since'[q]
  BY <1>1, OlderKeepsOrder
<1>4. ASSUME NEW p \in Passes, NEW q \in earlier'[p] PROVE seen'[p] <= since'[q]
  <2>1. q \in Passes /\ seen[p] \in Ages /\ since[q] \in Ages /\ seen[p] <= since[q]
    BY <1>1, <1>4
  <2> QED
    BY <1>1, <2>1, OlderKeepsOrder
<1>5. ASSUME NEW p \in Passes, stage'[p] = "claim" PROVE due_for_run(p, FLOOR)'
  BY <1>1, <1>5, SuggestionAssumption DEF due_for_run, Older, Ages
<1> QED
  BY <1>2, <1>3, <1>4, <1>5

\* Every step of a pass or a request: only a claim makes an age younger, and
\* the claim takes itself out of what the others have read.
LEMMA NextKeepsPace ==
  ASSUME Pace, [Next]_vars
  PROVE  Pace'
<1> USE DEF Pace, PaceTypes
<1>1. CASE Tick
  BY <1>1, TickKeepsPace
<1>2. ASSUME NEW p \in Passes, Remind(p) PROVE Pace'
  BY <1>2 DEF Remind, Goto, Stages, paceVars, due_for_run
<1>3. ASSUME NEW p \in Passes, ReadClient(p) PROVE Pace'
  BY <1>3 DEF ReadClient, Goto, Stages, Ages, due_for_run
<1>4. ASSUME NEW p \in Passes, Gate(p) PROVE Pace'
  <2>1. PICK s \in {"claim", "idle"} :
          stage' = [stage EXCEPT ![p] = s] /\ (s = "claim" => due_for_run(p, FLOOR))
    BY <1>4 DEF Gate, Goto
  <2> QED
    BY <1>4, <2>1 DEF Gate, Stages, due_for_run, paceVars
<1>5. ASSUME NEW p \in Passes, claim_run(p) PROVE Pace'
  <2>1. /\ lastRun' = 0
        /\ since' = [since EXCEPT ![p] = 0]
        /\ earlier' = [q \in Passes |-> earlier[q] \ {p}]
        /\ stage' = [stage EXCEPT ![p] = "config"]
        /\ seen' = seen
    BY <1>5 DEF claim_run, Claim, Goto
  <2>2. 0 \in Ages
    BY SuggestionAssumption DEF Ages
  <2> QED
    BY <2>1, <2>2 DEF Stages, Ages, due_for_run
<1>6. ASSUME NEW p \in Passes, ReadConfig(p) PROVE Pace'
  BY <1>6 DEF ReadConfig, Goto, Stages, paceVars, due_for_run
<1>7. ASSUME NEW p \in Passes, Analyse(p) PROVE Pace'
  BY <1>7 DEF Analyse, Goto, Stages, paceVars, due_for_run
<1>8. ASSUME NEW p \in Passes, CheckProposal(p) PROVE Pace'
  BY <1>8 DEF CheckProposal, paceVars, due_for_run
<1>9. ASSUME NEW p \in Passes, AddProposals(p) PROVE Pace'
  BY <1>9 DEF AddProposals, Goto, Stages, paceVars, due_for_run
<1>10. ASSUME NEW p \in Passes, Restamp(p) PROVE Pace'
  BY <1>10, SuggestionAssumption DEF Restamp, Goto, Stages, Ages, due_for_run
<1>11. ASSUME NEW a \in Accepts, NEW id \in Ids, BeginAccept(a, id) PROVE Pace'
  BY <1>11 DEF BeginAccept, paceVars, due_for_run
<1>12. ASSUME NEW a \in Accepts, CreateRule(a) \/ RecordAccept(a) PROVE Pace'
  BY <1>12 DEF CreateRule, RecordAccept, paceVars, due_for_run
<1>13. ASSUME NEW id \in Ids, Dismiss(id) PROVE Pace'
  BY <1>13 DEF Dismiss, paceVars, due_for_run
<1>14. CASE UNCHANGED vars
  BY <1>14 DEF vars, paceVars, due_for_run
<1> QED
  BY <1>1, <1>2, <1>3, <1>4, <1>6, <1>7, <1>8, <1>9, <1>10, <1>11, <1>12, <1>13, <1>14,
     <1>5 DEF Next, PassStep

-----------------------------------------------------------------------------
(***************************************************************************)
(* The table of suggestions.                                               *)
(***************************************************************************)
LEMMA CheckKeepsTables ==
  ASSUME Tables, NEW p \in Passes, CheckProposal(p)
  PROVE  Tables'
<1> USE DEF Tables
<1>1. PICK c \in found[p] :
        /\ found' = [found EXCEPT ![p] = @ \ {c}]
        /\ IF _existing_signature(c)
             THEN UNCHANGED <<fresh, looked>>
             ELSE /\ fresh' = [fresh EXCEPT ![p] = @ \union {c}]
                  /\ looked' = [looked EXCEPT ![p][c] = batches]
  BY DEF CheckProposal
<1>2. c \in Cels /\ UNCHANGED <<stage, batches, suggestion>> /\ Ids' = Ids
  BY <1>1 DEF CheckProposal, TableTypes, Ids
<1>3. CASE _existing_signature(c)
  BY <1>1, <1>2, <1>3 DEF TableTypes, AddsNewRules, ProposedOnce
<1>4. CASE ~_existing_signature(c)
  <2>1. \A id \in Ids : id[1] # c
    BY <1>4 DEF _existing_signature
  <2>2. TableTypes'
    <3>1. looked' \in [Passes -> [Cels -> 0..batches]]
      <4>1. looked' = [looked EXCEPT ![p] = [looked[p] EXCEPT ![c] = batches]]
        BY <1>1, <1>4
      <4>2. batches \in 0..batches
        BY DEF TableTypes
      <4>3. [looked[p] EXCEPT ![c] = batches] \in [Cels -> 0..batches]
        BY <4>2 DEF TableTypes
      <4> QED
        BY <4>1, <4>3 DEF TableTypes
    <3>2. fresh' \in [Passes -> SUBSET Cels] /\ found' \in [Passes -> SUBSET Cels]
      BY <1>1, <1>2, <1>4 DEF TableTypes
    <3> QED
      BY <1>2, <3>1, <3>2 DEF TableTypes
  <2>3. ASSUME NEW q \in Passes, NEW id \in Ids, id[1] \in fresh'[q]
        PROVE  looked'[q][id[1]] < id[2]
    <3>1. id[1] \in Cels /\ id[1] # c /\ id[1] \in fresh[q]
      BY <1>1, <1>4, <2>1, <2>3 DEF TableTypes
    <3>2. looked'[q][id[1]] = looked[q][id[1]]
      BY <1>1, <1>4, <3>1 DEF TableTypes
    <3> QED
      BY <3>1, <3>2 DEF AddsNewRules
  <2> QED
    BY <1>2, <2>2, <2>3 DEF AddsNewRules, ProposedOnce
<1> QED
  BY <1>3, <1>4

\* The rows of one batch are new, and later than any batch a pass has looked at.
LEMMA AddKeepsTables ==
  ASSUME Tables, NEW p \in Passes, AddProposals(p)
  PROVE  Tables'
<1> USE DEF Tables
<1> DEFINE new == {<<c, batches + 1>> : c \in fresh[p]}
           row(c) == [status |-> "pending", rule |-> 0, checked |-> looked[p][c]]
<1>1. /\ suggestion' = [id \in Ids \union new |->
                         IF id \in new THEN row(id[1]) ELSE suggestion[id]]
      /\ batches' = IF new = {} THEN batches ELSE batches + 1
      /\ found' = found
      /\ fresh' = [fresh EXCEPT ![p] = {}]
      /\ looked' = [looked EXCEPT ![p] = NotLooked]
      /\ stage' = [stage EXCEPT ![p] = "stamp"]
  BY DEF AddProposals, Goto
<1>2. /\ Ids' = Ids \union new
      /\ \A id \in new : suggestion'[id] = row(id[1])
      /\ \A id \in Ids \ new : suggestion'[id] = suggestion[id]
  BY <1>1 DEF Ids
<1>3. \A id \in new : id[1] \in fresh[p] /\ id[1] \in Cels /\ id[2] = batches + 1
  BY DEF TableTypes
<1>4. \A id \in Ids : id[2] \in 1..batches /\ id \notin new
  BY <1>3 DEF TableTypes
<1>5. TableTypes'
  <2>1. new \subseteq Cels \X (1..batches + 1)
    BY DEF TableTypes
  <2>2. \A c \in Cels : row(c) \in Suggestion
    BY DEF TableTypes, Suggestion
  <2>3. batches' \in Nat /\ batches <= batches'
    BY <1>1 DEF TableTypes
  <2>4. Ids' \subseteq Cels \X (1..batches')
    BY <1>1, <1>2, <2>1, <2>3 DEF TableTypes
  <2>5. suggestion' \in [Ids' -> Suggestion]
    <3> HIDE DEF row, new
    <3>1. \A id \in Ids \union new :
            (IF id \in new THEN row(id[1]) ELSE suggestion[id]) \in Suggestion
      BY <1>3, <2>2 DEF TableTypes
    <3> QED
      BY <1>1, <1>2, <3>1
  <2>6. looked' \in [Passes -> [Cels -> 0..batches']]
    <3>1. NotLooked \in [Cels -> 0..batches'] /\ 0..batches \subseteq 0..batches'
      BY <2>3 DEF NotLooked, TableTypes
    <3>2. looked \in [Passes -> [Cels -> 0..batches']]
      BY <3>1 DEF TableTypes
    <3> QED
      BY <1>1, <3>1, <3>2
  <2> QED
    BY <1>1, <2>3, <2>4, <2>5, <2>6 DEF TableTypes, Stages
<1>6. ASSUME NEW q \in Passes PROVE AddsNewRules(q)'
  <2>1. CASE q = p
    BY <1>1, <2>1 DEF TableTypes, AddsNewRules
  <2>2. CASE q # p
    <3>1. fresh'[q] = fresh[q] /\ looked'[q] = looked[q]
      BY <1>1, <2>2
    <3>2. \A c \in Cels : looked[q][c] < batches + 1
      BY DEF TableTypes
    <3>3. \A id \in new : looked[q][id[1]] < id[2]
      BY <1>3, <3>2
    <3> QED
      BY <1>2, <3>1, <3>3 DEF AddsNewRules
  <2> QED
    BY <2>1, <2>2
<1>7. ProposedOnce'
  <2> SUFFICES ASSUME NEW i \in Ids', NEW j \in Ids', i[1] = j[1], i[2] < j[2]
               PROVE  suggestion'[j].checked < i[2]
    BY DEF ProposedOnce
  <2>1. CASE i \in Ids /\ j \in Ids
    BY <1>2, <1>4, <2>1 DEF ProposedOnce
  <2>2. CASE i \in Ids /\ j \in new
    <3>1. looked[p][i[1]] < i[2]
      BY <1>3, <2>2 DEF AddsNewRules
    <3>2. suggestion'[j] = row(j[1]) /\ row(j[1]).checked = looked[p][j[1]]
      <4> HIDE DEF new
      <4> QED
        BY <1>2, <2>2
    <3> QED
      BY <3>1, <3>2
  <2>3. CASE i \in new
    BY <1>2, <1>3, <1>4, <2>3 DEF TableTypes
  <2> QED
    BY <1>2, <2>1, <2>2, <2>3
<1> QED
  BY <1>5, <1>6, <1>7

\* Deciding a suggestion changes neither its rule and batch nor when it was checked.
LEMMA DecisionKeepsTables ==
  ASSUME Tables, NEW id \in Ids, NEW row \in Suggestion,
         row.checked = suggestion[id].checked,
         suggestion' = [suggestion EXCEPT ![id] = row],
         UNCHANGED <<stage, found, fresh, looked, batches>>
  PROVE  Tables'
<1> USE DEF Tables
<1>1. Ids' = Ids /\ \A i \in Ids : suggestion'[i].checked = suggestion[i].checked
  BY DEF Ids, TableTypes
<1>2. TableTypes'
  BY <1>1 DEF TableTypes
<1>3. ASSUME NEW q \in Passes PROVE AddsNewRules(q)'
  BY <1>1 DEF AddsNewRules
<1>4. ProposedOnce'
  BY <1>1 DEF ProposedOnce
<1> QED
  BY <1>2, <1>3, <1>4

LEMMA NextKeepsTables ==
  ASSUME Tables, Operator, [Next]_vars
  PROVE  Tables'
<1> USE DEF Tables
<1>1. ASSUME UNCHANGED <<found, tableVars>>, NEW p \in Passes,
             NEW s \in Stages, Goto(p, s)
      PROVE  Tables'
  BY <1>1 DEF tableVars, Goto, TableTypes, AddsNewRules, ProposedOnce, Ids
<1>2. ASSUME UNCHANGED <<stage, found, tableVars>> PROVE Tables'
  BY <1>2 DEF tableVars, TableTypes, AddsNewRules, ProposedOnce, Ids
<1>3. CASE Tick
  BY <1>2, <1>3 DEF Tick
<1>4. ASSUME NEW p \in Passes, Remind(p) \/ ReadClient(p) \/ ReadConfig(p) \/ Restamp(p)
      PROVE  Tables'
  BY <1>1, <1>4 DEF Remind, ReadClient, ReadConfig, Restamp, Stages
<1>5. ASSUME NEW p \in Passes, Gate(p) \/ claim_run(p) PROVE Tables'
  BY <1>1, <1>5 DEF Gate, claim_run, Claim, Stages
<1>6. ASSUME NEW p \in Passes, Analyse(p) PROVE Tables'
  <2>1. \E C \in SUBSET Cels, s \in {"check", "idle"} :
          (found' = [found EXCEPT ![p] = C] \/ found' = found) /\ Goto(p, s)
    BY <1>6 DEF Analyse
  <2> QED
    BY <1>6, <2>1 DEF Analyse, tableVars, Goto, Stages, TableTypes, AddsNewRules,
                      ProposedOnce, Ids
<1>7. ASSUME NEW p \in Passes, CheckProposal(p) PROVE Tables'
  BY <1>7, CheckKeepsTables
<1>8. ASSUME NEW p \in Passes, AddProposals(p) PROVE Tables'
  BY <1>8, AddKeepsTables
<1>9. ASSUME NEW a \in Accepts, NEW id \in Ids, BeginAccept(a, id) PROVE Tables'
  BY <1>2, <1>9 DEF BeginAccept
<1>10. ASSUME NEW a \in Accepts, CreateRule(a) PROVE Tables'
  BY <1>2, <1>10 DEF CreateRule
<1>11. ASSUME NEW a \in Accepts, RecordAccept(a) PROVE Tables'
  <2> DEFINE id == accept[a].id
             row == [suggestion[id] EXCEPT !.status = "accepted", !.rule = accept[a].rule]
  <2>1. id \in Ids /\ accept[a].rule \in Nat
    BY <1>11 DEF RecordAccept, Operator, Request, NoAccept
  <2>2. row \in Suggestion /\ row.checked = suggestion[id].checked
    BY <2>1 DEF TableTypes, Suggestion
  <2>3. suggestion' = [suggestion EXCEPT ![id] = row]
    BY <1>11, <2>1 DEF RecordAccept, TableTypes
  <2> HIDE DEF row, id
  <2> QED
    BY <1>11, <2>1, <2>2, <2>3, DecisionKeepsTables DEF RecordAccept
<1>12. ASSUME NEW id \in Ids, Dismiss(id) PROVE Tables'
  <2> DEFINE row == [suggestion[id] EXCEPT !.status = "dismissed"]
  <2>1. row \in Suggestion /\ row.checked = suggestion[id].checked
    BY DEF TableTypes, Suggestion
  <2>2. suggestion' = [suggestion EXCEPT ![id] = row]
    BY <1>12 DEF Dismiss, TableTypes
  <2> HIDE DEF row
  <2> QED
    BY <1>12, <2>1, <2>2, DecisionKeepsTables DEF Dismiss
<1>13. CASE UNCHANGED vars
  BY <1>2, <1>13 DEF vars
<1> QED
  BY <1>3, <1>4, <1>5, <1>6, <1>7, <1>8, <1>9, <1>10, <1>11, <1>12, <1>13
     DEF Next, PassStep

-----------------------------------------------------------------------------
(***************************************************************************)
(* The operator's requests and the rules of Keep.                          *)
(***************************************************************************)
\* What holds of a request still holds when Keep has more rules and the table
\* more suggestions.
LEMMA RequestKept ==
  ASSUME NEW a, Request(a), Ids \subseteq Ids', accept'[a] = accept[a],
         rules \in Seq(Ids), rules' \in Seq(Ids'), Len(rules) <= Len(rules'),
         \A k \in 1..Len(rules) : rules'[k] = rules[k]
  PROVE  Request(a)'
<1>1. Len(rules) \in Nat /\ Len(rules') \in Nat
  BY LenProperties
<1>2. CASE \E s \in {"idle", "done"} : accept[a] = [NoAccept EXCEPT !.stage = s]
  BY <1>2 DEF Request, NoAccept
<1>3. CASE /\ accept[a] \in [stage : {"call", "record"}, id : Ids, rule : 0..Len(rules)]
           /\ accept[a].stage = "record" =>
                accept[a].rule \in 1..Len(rules) /\ rules[accept[a].rule] = accept[a].id
  BY <1>1, <1>3 DEF Request
<1> QED
  BY <1>2, <1>3 DEF Request

\* A step of a pass: the table may grow, Keep and the requests stay.
LEMMA PassKeepsOperator ==
  ASSUME Tables, Operator, Ids \subseteq Ids', UNCHANGED operatorVars,
         \A id \in Ids : suggestion'[id] = suggestion[id],
         \A id \in Ids' \ Ids : suggestion'[id].status = "pending"
  PROVE  Operator'
<1> USE DEF Operator, operatorVars
<1>1. rules' \in Seq(Ids')
  BY DEF Tables, TableTypes
<1>2. ASSUME NEW a \in Accepts PROVE Request(a)'
  BY <1>1, RequestKept, LenProperties
<1>3. AcceptedHasRule'
  BY DEF AcceptedHasRule
<1> QED
  BY <1>1, <1>2, <1>3

\* Keep may have one more rule; request a moves on.
LEMMA RequestKeepsOperator ==
  ASSUME Operator, NEW a \in Accepts, UNCHANGED suggestion,
         rules' \in Seq(Ids), Len(rules) <= Len(rules'),
         \A k \in 1..Len(rules) : rules'[k] = rules[k],
         NEW request, accept' = [accept EXCEPT ![a] = request],
         Request(a)'
  PROVE  Operator'
<1> USE DEF Operator
<1>1. Ids' = Ids
  BY DEF Ids
<1>2. ASSUME NEW b \in Accepts PROVE Request(b)'
  <2>1. CASE b = a
    BY <2>1
  <2>2. CASE b # a
    <3>1. accept'[b] = accept[b]
      BY <2>2
    <3> QED
      BY <1>1, <3>1, RequestKept
  <2> QED
    BY <2>1, <2>2
<1>3. AcceptedHasRule'
  BY <1>1, LenProperties DEF AcceptedHasRule
<1> QED
  BY <1>1, <1>2, <1>3

LEMMA CreateKeepsOperator ==
  ASSUME Operator, NEW a \in Accepts, CreateRule(a)
  PROVE  Operator'
<1> USE DEF Operator
<1>1. PICK created \in BOOLEAN, answered \in BOOLEAN :
        /\ answered => created
        /\ rules' = IF created THEN Append(rules, accept[a].id) ELSE rules
        /\ accept' = [accept EXCEPT ![a] =
             IF answered THEN [accept[a] EXCEPT !.stage = "record", !.rule = Len(rules) + 1]
                         ELSE [NoAccept EXCEPT !.stage = "done"]]
  BY DEF CreateRule
<1>2. accept[a].stage = "call" /\ UNCHANGED suggestion
  BY DEF CreateRule, tableVars
<1>3. accept[a] \in [stage : {"call", "record"}, id : Ids, rule : 0..Len(rules)]
  BY <1>2 DEF Request, NoAccept
<1>4. /\ Len(rules) \in Nat
      /\ rules' \in Seq(Ids)
      /\ Len(rules) <= Len(rules')
      /\ \A k \in 1..Len(rules) : rules'[k] = rules[k]
      /\ created => Len(rules') = Len(rules) + 1 /\ rules'[Len(rules) + 1] = accept[a].id
  BY <1>1, <1>3, AppendProperties, LenProperties
<1>5. Request(a)'
  <2>1. Ids' = Ids
    BY <1>2 DEF Ids
  <2>2. CASE answered
    <3>1. accept'[a] = [stage |-> "record", id |-> accept[a].id, rule |-> Len(rules) + 1]
      BY <1>1, <1>3, <2>2
    <3>2. Len(rules') = Len(rules) + 1 /\ rules'[Len(rules) + 1] = accept[a].id
      BY <1>1, <1>4, <2>2
    <3> QED
      BY <1>3, <1>4, <2>1, <3>1, <3>2 DEF Request
  <2>3. CASE ~answered
    BY <1>1, <2>3 DEF Request, NoAccept
  <2> QED
    BY <2>2, <2>3
<1> QED
  BY <1>1, <1>2, <1>4, <1>5, RequestKeepsOperator

LEMMA RecordKeepsOperator ==
  ASSUME Tables, Operator, NEW a \in Accepts, RecordAccept(a)
  PROVE  Operator'
<1> USE DEF Operator
<1> DEFINE id == accept[a].id
<1>1. /\ accept[a].stage = "record"
      /\ suggestion' = [suggestion EXCEPT ![id] =
           [suggestion[id] EXCEPT !.status = "accepted", !.rule = accept[a].rule]]
      /\ accept' = [accept EXCEPT ![a] = [NoAccept EXCEPT !.stage = "done"]]
      /\ rules' = rules
  BY DEF RecordAccept
<1>2. id \in Ids /\ accept[a].rule \in 1..Len(rules) /\ rules[accept[a].rule] = id
  BY <1>1 DEF Request, NoAccept
<1>3. Ids' = Ids
  BY <1>1 DEF Ids, Tables, TableTypes
<1>4. ASSUME NEW b \in Accepts PROVE Request(b)'
  BY <1>1, <1>3 DEF Request, NoAccept
<1>5. AcceptedHasRule'
  <2> SUFFICES ASSUME NEW i \in Ids, suggestion'[i].status = "accepted"
               PROVE  /\ suggestion'[i].rule \in 1..Len(rules)
                      /\ rules[suggestion'[i].rule] = i
    BY <1>1, <1>3 DEF AcceptedHasRule
  <2>1. CASE i = id
    <3>1. suggestion[id] \in Suggestion
      BY <1>2 DEF Tables, TableTypes
    <3>2. suggestion'[id].rule = accept[a].rule
      BY <1>1, <1>2, <3>1 DEF Tables, TableTypes, Suggestion
    <3> QED
      BY <1>2, <2>1, <3>2
  <2>2. CASE i # id
    BY <1>1, <2>2 DEF AcceptedHasRule, Tables, TableTypes
  <2> QED
    BY <2>1, <2>2
<1> QED
  BY <1>1, <1>3, <1>4, <1>5

LEMMA BeginKeepsOperator ==
  ASSUME Operator, NEW a \in Accepts, NEW id \in Ids, BeginAccept(a, id)
  PROVE  Operator'
<1> USE DEF Operator
<1>1. accept[a].stage = "idle" /\ UNCHANGED <<rules, suggestion>>
  BY DEF BeginAccept, tableVars
<1>2. Len(rules) \in Nat /\ Ids' = Ids
  BY <1>1, LenProperties DEF Ids
<1>3. accept[a] = [NoAccept EXCEPT !.stage = "idle"]
  BY <1>1 DEF Request, NoAccept
<1>4. PICK request \in {[stage |-> "call", id |-> id, rule |-> 0],
                       [NoAccept EXCEPT !.stage = "done"]} :
        accept' = [accept EXCEPT ![a] = request]
  BY <1>3 DEF BeginAccept, NoAccept
<1>5. Request(a)'
  <2>1. CASE request = [stage |-> "call", id |-> id, rule |-> 0]
    BY <1>1, <1>2, <1>4, <2>1 DEF Request
  <2>2. CASE request = [NoAccept EXCEPT !.stage = "done"]
    BY <1>4, <2>2 DEF Request, NoAccept
  <2> QED
    BY <1>4, <2>1, <2>2
<1>6. rules' \in Seq(Ids) /\ Len(rules) <= Len(rules')
  BY <1>1, <1>2
<1> QED
  BY <1>1, <1>4, <1>5, <1>6, RequestKeepsOperator

LEMMA NextKeepsOperator ==
  ASSUME Tables, Operator, [Next]_vars
  PROVE  Operator'
<1>1. ASSUME UNCHANGED <<suggestion, operatorVars>> PROVE Operator'
  BY <1>1 DEF Operator, operatorVars, Request, AcceptedHasRule, Ids
<1>2. CASE Tick
  BY <1>1, <1>2 DEF Tick, tableVars
<1>3. ASSUME NEW p \in Passes, Remind(p) \/ ReadClient(p) \/ ReadConfig(p) \/ Restamp(p)
      PROVE  Operator'
  BY <1>1, <1>3 DEF Remind, ReadClient, ReadConfig, Restamp, tableVars
<1>4. ASSUME NEW p \in Passes, Gate(p) \/ claim_run(p) \/ Analyse(p) \/ CheckProposal(p)
      PROVE  Operator'
  BY <1>1, <1>4 DEF Gate, claim_run, Claim, Analyse, CheckProposal, tableVars
<1>5. ASSUME NEW p \in Passes, AddProposals(p) PROVE Operator'
  <2> DEFINE new == {<<c, batches + 1>> : c \in fresh[p]}
             row(c) == [status |-> "pending", rule |-> 0, checked |-> looked[p][c]]
  <2>1. suggestion' = [id \in Ids \union new |->
                         IF id \in new THEN row(id[1]) ELSE suggestion[id]]
    BY <1>5 DEF AddProposals
  <2>2. Ids' = Ids \union new
    BY <2>1 DEF Ids
  <2>3. \A id \in Ids : id \notin new
    BY DEF Tables, TableTypes
  <2> QED
    BY <1>5, <2>1, <2>2, <2>3, PassKeepsOperator DEF AddProposals
<1>6. ASSUME NEW a \in Accepts, NEW id \in Ids, BeginAccept(a, id) PROVE Operator'
  BY <1>6, BeginKeepsOperator
<1>7. ASSUME NEW a \in Accepts, CreateRule(a) PROVE Operator'
  BY <1>7, CreateKeepsOperator
<1>8. ASSUME NEW a \in Accepts, RecordAccept(a) PROVE Operator'
  BY <1>8, RecordKeepsOperator
<1>9. ASSUME NEW id \in Ids, Dismiss(id) PROVE Operator'
  <2>1. /\ Ids' = Ids
        /\ suggestion'[id].status = "dismissed"
        /\ \A i \in Ids \ {id} : suggestion'[i] = suggestion[i]
        /\ UNCHANGED <<rules, accept>>
    BY <1>9 DEF Dismiss, operatorVars, Ids, Tables, TableTypes, Suggestion
  <2> QED
    BY <2>1 DEF Operator, Request, AcceptedHasRule
<1>10. CASE UNCHANGED vars
  BY <1>1, <1>10 DEF vars, tableVars
<1> QED
  BY <1>2, <1>3, <1>4, <1>5, <1>6, <1>7, <1>8, <1>9, <1>10 DEF Next, PassStep

-----------------------------------------------------------------------------
\* Every reachable state satisfies the invariant.
LEMMA SuggestionsInvariant == Spec => []SuggestionsInv
<1>1. SuggestionsInv /\ [Next]_vars => SuggestionsInv'
  BY NextKeepsPace, NextKeepsTables, NextKeepsOperator DEF SuggestionsInv
<1> QED
  BY <1>1, InitInv, PTL DEF Spec

\* TypeOK: tables, passes and requests keep their types, however passes and
\* requests overlap.
THEOREM SuggestionsTypeCorrect == Spec => []TypeOK
<1>1. SuggestionsInv => TypeOK
  BY DEF SuggestionsInv, Pace, PaceTypes, Tables, TableTypes, Operator, Request, TypeOK
<1> QED
  BY <1>1, SuggestionsInvariant, PTL

\* ProposedOnce: a rule is proposed again only by passes that had both looked it
\* up before either added it (_existing_signature, store_proposals).
THEOREM ProposalsDoNotComeBack == Spec => []ProposedOnce
<1>1. SuggestionsInv => ProposedOnce
  BY DEF SuggestionsInv, Tables
<1> QED
  BY <1>1, SuggestionsInvariant, PTL

\* AcceptedHasRule: accepted is never said of a suggestion without its rule
\* (accept_suggestion), whatever fails and whoever dismisses in between.
THEOREM AcceptanceIsReal == Spec => []AcceptedHasRule
<1>1. SuggestionsInv => AcceptedHasRule
  BY DEF SuggestionsInv, Operator
<1> QED
  BY <1>1, SuggestionsInvariant, PTL

\* PassesAreSpaced: a pass does not start within the floor of a claim it could
\* read (claim_run), for any floor and any number of passes.
THEOREM FeedbackIsPaced == Spec => PassesAreSpaced
<1>1. ASSUME SuggestionsInv, NEW p \in Passes, stage[p] = "claim", NEW q \in earlier[p]
      PROVE  since[q] >= FLOOR
  <2>1. due_for_run(p, FLOOR)
    BY <1>1 DEF SuggestionsInv, Pace
  <2> QED
    BY <1>1, <2>1, SuggestionAssumption
       DEF due_for_run, SuggestionsInv, Pace, PaceTypes, Ages
<1>2. SuggestionsInv =>
        \A p \in Passes : (stage[p] = "claim" /\ stage'[p] = "config") =>
          \A q \in earlier[p] : since[q] >= FLOOR
  BY <1>1
<1> QED
  BY <1>2, SuggestionsInvariant, PTL DEF Spec, PassesAreSpaced
=============================================================================
