-------------------------- MODULE RuleSuggestions --------------------------
(***************************************************************************)
(* The correlation plugin of Keep AIOps,                                   *)
(* aiops_api/modules/correlation: reminders from Keep start analysis       *)
(* passes, a pass queues suggestions, and an operator turns a suggestion   *)
(* into a rule of Keep or dismisses it.                                    *)
(*                                                                         *)
(* One tenant.  Every pass and every request of the operator runs on a     *)
(* thread of its own, and what a pass reads of Keep makes Keep send the    *)
(* next reminder.  Every transaction and every call of Keep is a step.     *)
(***************************************************************************)
EXTENDS Naturals, Sequences

CONSTANTS
  Passes,      \* background tasks that exist at a time
  Accepts,     \* requests to accept a suggestion
  Cels,        \* the rules an analysis may propose
  FLOOR,       \* MIN_SECONDS_BETWEEN_RUNS, in ticks
  WINDOW,      \* the correlation window, in ticks
  KeepAnswers  \* how reading the settings may end: on, off, unreachable

ASSUME SuggestionAssumption ==
  /\ FLOOR \in Nat \ {0}
  /\ WINDOW \in Nat /\ WINDOW >= FLOOR
  /\ KeepAnswers \subseteq {"on", "off", "unreachable"}

VARIABLES
  lastRun,    \* ticks since correlation_client.last_run_at; WINDOW if never
  stage,      \* stage[p]: where the pass is
  seen,       \* seen[p]: ticks since the last_run_at that p has read
  found,      \* found[p]: the rules p proposes and has still to look up
  fresh,      \* fresh[p]: the rules p found to be new, and will add
  looked,     \* looked[p][c]: history: the batches in the table when p looked c up
  batches,    \* batches of suggestions committed so far
  suggestion, \* the table rule_suggestion, by rule and batch
  rules,      \* Keep: the rules created, each the suggestion it came from
  accept,     \* accept[a]: a request to accept
  since,      \* since[p]: history: ticks since p last claimed a run
  earlier     \* earlier[p]: history: passes whose last claim p could read

paceVars == <<lastRun, seen, since, earlier>>
tableVars == <<fresh, looked, batches, suggestion>>
operatorVars == <<rules, accept>>
vars == <<paceVars, stage, found, tableVars, operatorVars>>

-----------------------------------------------------------------------------
Ages == 0..WINDOW
Stages == {"idle", "reminded", "gate", "claim", "config", "fetch", "check", "stamp"}

\* checked is looked[p], for its rule, of the pass p that added the row.
Suggestion == [status : {"pending", "accepted", "dismissed"}, rule : Nat, checked : Nat]
Ids == DOMAIN suggestion

NotLooked == [c \in Cels |-> 0]
NoAccept == [stage |-> "idle", id |-> <<"none", 0>>, rule |-> 0]

Older(age) == IF age < WINDOW THEN age + 1 ELSE age
Goto(p, s) == stage' = [stage EXCEPT ![p] = s]

Init ==
  /\ lastRun = WINDOW
  /\ stage = [p \in Passes |-> "idle"]
  /\ seen = [p \in Passes |-> WINDOW]
  /\ found = [p \in Passes |-> {}]
  /\ fresh = [p \in Passes |-> {}]
  /\ looked = [p \in Passes |-> NotLooked]
  /\ batches = 0
  /\ suggestion = <<>>
  /\ rules = <<>>
  /\ accept = [a \in Accepts |-> NoAccept]
  /\ since = [p \in Passes |-> WINDOW]
  /\ earlier = [p \in Passes |-> {}]

-----------------------------------------------------------------------------
\* remind_about_the_client: the task it adds runs later.
Remind(p) ==
  /\ stage[p] = "idle"
  /\ Goto(p, "reminded")
  /\ UNCHANGED <<paceVars, found, tableVars, operatorVars>>

\* _run_safely reads the client (active_clients) ...
ReadClient(p) ==
  /\ stage[p] = "reminded"
  /\ seen' = [seen EXCEPT ![p] = lastRun]
  /\ earlier' = [earlier EXCEPT ![p] = Passes]
  /\ Goto(p, "gate")
  /\ UNCHANGED <<lastRun, since, found, tableVars, operatorVars>>

\* due_for_run, of the row a pass has read.
due_for_run(p, interval) == seen[p] >= interval

\* ... and checks the floor.
Gate(p) ==
  /\ stage[p] = "gate"
  /\ Goto(p, IF due_for_run(p, FLOOR) THEN "claim" ELSE "idle")
  /\ UNCHANGED <<paceVars, found, tableVars, operatorVars>>

Claim(p, run) ==
  /\ stage[p] = "claim"
  /\ lastRun' = run
  /\ since' = [since EXCEPT ![p] = 0]
  /\ earlier' = [q \in Passes |-> earlier[q] \ {p}]
  /\ Goto(p, "config")
  /\ UNCHANGED <<seen, found, tableVars, operatorVars>>

\* Mutant of claim_run: a run is stamped only when it is complete.
ClaimAtTheEnd(p) == Claim(p, lastRun)

\* run_for_client begins with it.  Its clock is read just before the
\* transaction; no tick is counted between the two.
claim_run(p) == Claim(p, 0)

\* fetch_config, and what a pass decides by it.  The window is checked on the
\* row that was read before the claim.
ReadConfig(p) ==
  /\ stage[p] = "config"
  /\ \E answer \in KeepAnswers :
       Goto(p, IF answer = "on" /\ due_for_run(p, WINDOW) THEN "fetch" ELSE "idle")
  /\ UNCHANGED <<paceVars, found, tableVars, operatorVars>>

\* The alerts are read and grouped: any rules may be proposed.
Analyse(p) ==
  /\ stage[p] = "fetch"
  /\ \/ /\ \E C \in SUBSET Cels : found' = [found EXCEPT ![p] = C]
        /\ Goto(p, "check")
     \/ /\ "unreachable" \in KeepAnswers
        /\ Goto(p, "idle")
        /\ UNCHANGED found
  /\ UNCHANGED <<paceVars, tableVars, operatorVars>>

\* Mutant of _existing_signature: only a suggestion still to be decided counts.
PendingSignature(cel) ==
  \E id \in Ids : id[1] = cel /\ suggestion[id].status = "pending"

_existing_signature(cel) == \E id \in Ids : id[1] = cel

\* store_proposals: the proposals are looked up one by one, ...
CheckProposal(p) ==
  /\ stage[p] = "check"
  /\ \E c \in found[p] :
       /\ found' = [found EXCEPT ![p] = @ \ {c}]
       /\ IF _existing_signature(c)
            THEN UNCHANGED <<fresh, looked>>
            ELSE /\ fresh' = [fresh EXCEPT ![p] = @ \union {c}]
                 /\ looked' = [looked EXCEPT ![p][c] = batches]
  /\ UNCHANGED <<paceVars, stage, batches, suggestion, operatorVars>>

\* ... and the new ones are committed together.
AddProposals(p) ==
  LET new    == {<<c, batches + 1>> : c \in fresh[p]}
      row(c) == [status |-> "pending", rule |-> 0, checked |-> looked[p][c]]
  IN  /\ stage[p] = "check"
      /\ found[p] = {}
      /\ suggestion' = [id \in Ids \union new |->
                          IF id \in new THEN row(id[1]) ELSE suggestion[id]]
      /\ batches' = IF new = {} THEN batches ELSE batches + 1
      /\ fresh' = [fresh EXCEPT ![p] = {}]
      /\ looked' = [looked EXCEPT ![p] = NotLooked]
      /\ Goto(p, "stamp")
      /\ UNCHANGED <<paceVars, found, operatorVars>>

\* last_run_at again, at the end of run_for_client.
Restamp(p) ==
  /\ stage[p] = "stamp"
  /\ lastRun' = 0
  /\ Goto(p, "idle")
  /\ UNCHANGED <<seen, since, earlier, found, tableVars, operatorVars>>

Tick ==
  /\ lastRun' = Older(lastRun)
  /\ seen' = [p \in Passes |-> Older(seen[p])]
  /\ since' = [p \in Passes |-> Older(since[p])]
  /\ UNCHANGED <<earlier, stage, found, tableVars, operatorVars>>

-----------------------------------------------------------------------------
\* Mutant of BeginAccept: the suggestion is decided before the rule exists.
BeginAcceptDecided(a, id) ==
  /\ accept[a].stage = "idle"
  /\ IF suggestion[id].status = "pending"
       THEN /\ accept' = [accept EXCEPT ![a] = [stage |-> "call", id |-> id, rule |-> 0]]
            /\ suggestion' = [suggestion EXCEPT ![id].status = "accepted"]
       ELSE /\ accept' = [accept EXCEPT ![a].stage = "done"]
            /\ UNCHANGED suggestion
  /\ UNCHANGED <<paceVars, stage, found, fresh, looked, batches, rules>>

\* accept_suggestion, its first transaction: one that is decided is returned.
BeginAccept(a, id) ==
  /\ accept[a].stage = "idle"
  /\ accept' = [accept EXCEPT ![a] =
       IF suggestion[id].status = "pending"
         THEN [stage |-> "call", id |-> id, rule |-> 0]
         ELSE [@ EXCEPT !.stage = "done"]]
  /\ UNCHANGED <<paceVars, stage, found, tableVars, rules>>

\* Mutant of CreateRule: the status of the response is not checked.
CreateRuleUnchecked(a) ==
  /\ accept[a].stage = "call"
  /\ \E created \in BOOLEAN :
       /\ rules' = IF created THEN Append(rules, accept[a].id) ELSE rules
       /\ accept' = [accept EXCEPT ![a].stage = "record", ![a].rule = Len(rules) + 1]
  /\ UNCHANGED <<paceVars, stage, found, tableVars>>

\* POST /rules/from-cel: an error may also hide a rule that was created.
CreateRule(a) ==
  /\ accept[a].stage = "call"
  /\ \E created, answered \in BOOLEAN :
       /\ answered => created
       /\ rules' = IF created THEN Append(rules, accept[a].id) ELSE rules
       /\ accept' = [accept EXCEPT ![a] =
            IF answered THEN [@ EXCEPT !.stage = "record", !.rule = Len(rules) + 1]
                        ELSE [NoAccept EXCEPT !.stage = "done"]]
  /\ UNCHANGED <<paceVars, stage, found, tableVars>>

\* The last transaction does not look at the status again.
RecordAccept(a) ==
  /\ accept[a].stage = "record"
  /\ suggestion' = [suggestion EXCEPT ![accept[a].id] =
       [@ EXCEPT !.status = "accepted", !.rule = accept[a].rule]]
  /\ accept' = [accept EXCEPT ![a] = [NoAccept EXCEPT !.stage = "done"]]
  /\ UNCHANGED <<paceVars, stage, found, fresh, looked, batches, rules>>

\* dismiss_suggestion: whatever the status is.
Dismiss(id) ==
  /\ suggestion' = [suggestion EXCEPT ![id].status = "dismissed"]
  /\ UNCHANGED <<paceVars, stage, found, fresh, looked, batches, operatorVars>>

-----------------------------------------------------------------------------
PassStep(p) ==
  \/ ReadClient(p)
  \/ Gate(p)
  \/ claim_run(p)
  \/ ReadConfig(p)
  \/ Analyse(p)
  \/ CheckProposal(p)
  \/ AddProposals(p)
  \/ Restamp(p)

Next ==
  \/ Tick
  \/ \E p \in Passes : Remind(p) \/ PassStep(p)
  \/ \E a \in Accepts :
       \/ \E id \in Ids : BeginAccept(a, id)
       \/ CreateRule(a)
       \/ RecordAccept(a)
  \/ \E id \in Ids : Dismiss(id)

Spec == Init /\ [][Next]_vars

(***************************************************************************)
(* Tasks run, time passes, and reminders keep coming, as they do while     *)
(* somebody has Keep's AI page open: it polls GET /ai/stats every few      *)
(* seconds.                                                                *)
(***************************************************************************)
FairSpec ==
  /\ Spec
  /\ WF_vars(Tick)
  /\ \A p \in Passes : WF_vars(Remind(p)) /\ WF_vars(PassStep(p))

-----------------------------------------------------------------------------
\* Type invariant of the tables, the passes and the requests.
TypeOK ==
  /\ lastRun \in Ages
  /\ stage \in [Passes -> Stages]
  /\ seen \in [Passes -> Ages] /\ since \in [Passes -> Ages]
  /\ earlier \in [Passes -> SUBSET Passes]
  /\ found \in [Passes -> SUBSET Cels]
  /\ batches \in Nat
  /\ fresh \in [Passes -> SUBSET Cels]
  /\ looked \in [Passes -> [Cels -> 0..batches]]
  /\ Ids \subseteq Cels \X (1..batches)
  /\ suggestion \in [Ids -> Suggestion]
  /\ rules \in Seq(Ids)
  /\ \A a \in Accepts :
       \/ \E s \in {"idle", "done"} : accept[a] = [NoAccept EXCEPT !.stage = s]
       \/ accept[a] \in [stage : {"call", "record"}, id : Ids, rule : 0..Len(rules)]

\* "The timestamp has to move before the work" (claim_run): a pass whose
\* reminder was caused by another pass, or was read after its claim, does not
\* start within FLOOR of that claim; only passes that overlap between reading
\* the row and claiming it may.
PassesAreSpaced ==
  [][\A p \in Passes : (stage[p] = "claim" /\ stage'[p] = "config") =>
       \A q \in earlier[p] : since[q] >= FLOOR]_vars

\* A rule that was proposed does not come back, decided or not, unless two
\* passes had both looked it up before either added it ("a dismissed proposal would
\* keep coming back", _existing_signature).
ProposedOnce ==
  \A i, j \in Ids : (i[1] = j[1] /\ i[2] < j[2]) => suggestion[j].checked < i[2]

\* An accepted suggestion has the rule it names in Keep, whatever fails or
\* overlaps between the calls and transactions of accept and dismiss.
AcceptedHasRule ==
  \A id \in Ids : suggestion[id].status = "accepted" =>
    /\ suggestion[id].rule \in 1..Len(rules)
    /\ rules[suggestion[id].rule] = id

\* "A reminder after the window runs again" (tests/test_correlation.py): with
\* the analysis on, Keep readable and reminders coming, it is made again and
\* again.
AnalysisRecurs == []<>(\E p \in Passes : stage[p] = "check")
=============================================================================
