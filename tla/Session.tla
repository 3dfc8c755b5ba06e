------------------------------- MODULE Session -------------------------------
(***************************************************************************)
(* One session screened by parallel hooks: its log and its database rows   *)
(* (prismor/runtime/store.py), the incremental analysis (cli.py) and the   *)
(* ledger of tags that tag rules are about (trifecta.py, tag_rules.py,     *)
(* policy_engine.py), in the order evaluate_tool_call works them           *)
(* (runtime.py).                                                           *)
(*                                                                         *)
(* A hook is a process that judges one call; the call is named by it.  An  *)
(* event is its position in the log.  One tag rule is in force, and every  *)
(* finding is one of that rule's.                                          *)
(***************************************************************************)
EXTENDS Integers, Sequences, FiniteSets, SequencesExt, FiniteSetsExt

CONSTANTS
  Hooks,         \* processes, one for each call of the session
  Tags,
  Policies,      \* tag rules, their mode, and the tags of the calls they meet
  HistCap,       \* TagLedger._HIST_CAP
  MaxDeaths,     \* bound: hooks killed
  None

ConstantsOK ==
  /\ \A p \in Policies :
       /\ p.rule.steps \in Seq((SUBSET Tags) \ {{}}) /\ p.rule.steps # << >>
       /\ p.rule.action \in {"block", "redact", "warn"}
       /\ p.mode \in {"observe", "enforce"} /\ p.tags \in [Hooks -> SUBSET Tags]
  /\ HistCap \in Nat \ {0} /\ MaxDeaths \in Nat /\ None \notin Hooks /\ IsFiniteSet(Hooks)

VARIABLES
  policy,        \* one of Policies, throughout
  log,           \* the session's log
  ledger,        \* trifecta/<session>.json: its hist and its fired
  sidecar,       \* <session>.analysis.json: how many events, which of them were found
  lock,          \* who holds the sidecar's lock
  rows,          \* the session's rows of the events table
  findings,      \* the session's rows of the findings table
  pc,
  view,          \* per hook: how many events it read
  at, found,     \* per hook: the analysis' progress and findings
  done,          \* per hook: the event judged last completes the rule
  outcome        \* per hook: what became of its call

filev   == <<log, ledger, sidecar, lock, rows, findings>>
hookv   == <<pc, view, at, found, done, outcome>>
vars    == <<policy, filev, hookv>>

rule == policy.rule      \* [steps, action]
mode == policy.mode
tags == policy.tags      \* what each call carries

Events == 1 .. Cardinality(Hooks)
Row    == [event : Events, call : Hooks, runtime : BOOLEAN]

Init ==
  /\ policy \in Policies
  /\ log = << >>
  /\ ledger = [hist |-> [t \in Tags |-> {}], fired |-> 0]
  /\ sidecar = [events |-> 0, found |-> {}] /\ lock = None
  /\ rows = << >> /\ findings = {}
  /\ pc = [h \in Hooks |-> "start"]
  /\ view = [h \in Hooks |-> 0] /\ at = [h \in Hooks |-> 0]
  /\ found = [h \in Hooks |-> {}] /\ done = [h \in Hooks |-> FALSE]
  /\ outcome = [h \in Hooks |-> "none"]

Goto(h, l) == pc' = [pc EXCEPT ![h] = l]

-----------------------------------------------------------------------------
(* TagLedger.                                                              *)

\* Occurrences of a tag that are prior to event e and after a position.
Occurs(t, after, e) == {i \in ledger.hist[t] : after < i /\ i < e}

\* Where a warn rule's walk starts: behind the call it fired on last, unless a
\* tag that must recur has a full history.
Start(new, e) ==
  LET mustRecur == UNION {rule.steps[k] : k \in 1 .. Len(rule.steps) - 1} \cup (Last(rule.steps) \ new)
      full      == \E t \in mustRecur : Cardinality(ledger.hist[t]) >= HistCap
  IN  IF rule.action = "warn" /\ ledger.fired # 0 /\ ledger.fired < e /\ ~ full THEN ledger.fired ELSE 0

\* The walk of one step: every tag behind the cursor, the last of them is next.
Walk(step, cursor, e) ==
  IF cursor = None \/ \E t \in step : Occurs(t, cursor, e) = {} THEN None
  ELSE Max({cursor} \cup {Min(Occurs(t, cursor, e)) : t \in step})

\* Where the walk is after each of the steps before the last.
Cursors(new, e) ==
  LET ends[k \in 0 .. Len(rule.steps) - 1] ==
        IF k = 0 THEN Start(new, e) ELSE Walk(rule.steps[k], ends[k - 1], e)
  IN  ends

\* completes_rules(): the call whose tags are new completes the rule as event e.
Completes(new, e) ==
  LET final  == Last(rule.steps)
      cursor == Cursors(new, e)[Len(rule.steps) - 1]
  IN  /\ final \cap new # {}
      /\ cursor # None
      /\ \A t \in final \ new : Occurs(t, cursor, e) # {}

\* _commit(): merged into the file as it is by now.
Noted(hist, e) == IF e \in hist \/ Cardinality(hist) >= HistCap THEN hist ELSE hist \cup {e}
Commit(new, e, fires) ==
  ledger' = [hist  |-> [t \in Tags |-> IF t \in new THEN Noted(ledger.hist[t], e) ELSE ledger.hist[t]],
             fired |-> IF fires /\ e > ledger.fired THEN e ELSE ledger.fired]

\* A call the rule stops leaves no tags; a warn rule stops none.
Stops(completes) == completes /\ mode = "enforce" /\ rule.action # "warn"
Record(new, e, completes) ==
  IF Stops(completes) THEN UNCHANGED ledger ELSE Commit(new, e, completes /\ rule.action = "warn")

-----------------------------------------------------------------------------
(* Recording the event and analysing the session.                          *)

\* append_session_event(): one write under the log's lock.
AppendEvent(h) ==
  /\ pc[h] = "start" /\ Goto(h, "read")
  /\ log' = Append(log, h)
  /\ UNCHANGED <<policy, ledger, sidecar, lock, rows, findings, view, at, found, done, outcome>>

\* read_session_events(): later events may be there already.
ReadEvents(h) ==
  /\ pc[h] = "read" /\ Goto(h, "lock")
  /\ view' = [view EXCEPT ![h] = Len(log)]
  /\ UNCHANGED <<policy, filev, at, found, done, outcome>>

\* analyze_session_incremental(), under the sidecar's lock: goes on where the
\* sidecar ends, or from the start if that is behind the events read.
\* Mutant: the newest event only.
AnalyseNewest(h) ==
  /\ pc[h] = "lock" /\ lock = None
  /\ lock' = h /\ Goto(h, "analyse")
  /\ at' = [at EXCEPT ![h] = view[h] - 1]
  /\ UNCHANGED <<policy, log, ledger, sidecar, rows, findings, view, found, done, outcome>>
Analyse(h) ==
  LET inStep == sidecar.events <= view[h]
  IN  /\ pc[h] = "lock" /\ lock = None
      /\ lock' = h /\ Goto(h, "analyse")
      /\ at'    = [at EXCEPT ![h] = IF inStep THEN sidecar.events ELSE 0]
      /\ found' = [found EXCEPT ![h] = IF inStep THEN sidecar.found ELSE {}]
      /\ UNCHANGED <<policy, log, ledger, sidecar, rows, findings, view, done, outcome>>

\* One event: the ledger is read and judged by ...
AnalyseJudge(h) ==
  /\ pc[h] = "analyse" /\ at[h] < view[h]
  /\ done' = [done EXCEPT ![h] = Completes(tags[log[at[h] + 1]], at[h] + 1)]
  /\ Goto(h, "analyse_record")
  /\ UNCHANGED <<policy, filev, view, at, found, outcome>>

\* ... and then written.
AnalyseRecord(h) ==
  LET e == at[h] + 1
  IN  /\ pc[h] = "analyse_record" /\ Goto(h, "analyse")
      /\ Record(tags[log[e]], e, done[h])
      /\ found' = [found EXCEPT ![h] = IF done[h] THEN @ \cup {e} ELSE @]
      /\ at' = [at EXCEPT ![h] = e]
      /\ UNCHANGED <<policy, log, sidecar, lock, rows, findings, view, done, outcome>>

AnalyseEnd(h) ==
  /\ pc[h] = "analyse" /\ at[h] = view[h]
  /\ sidecar' = [events |-> view[h], found |-> found[h]]
  /\ lock' = None /\ Goto(h, "save")
  /\ at' = [at EXCEPT ![h] = 0] /\ done' = [done EXCEPT ![h] = FALSE]
  /\ UNCHANGED <<policy, log, ledger, rows, findings, view, found, outcome>>

\* save_session_snapshot(), one transaction: the rows that are missing, or all
\* of them if more are stored than were read; findings of earlier analyses go,
\* those of a judged call stay and keep their id.
\* Mutant: all events are added again, but the rows are not deleted.
SaveWithoutDelete(events) ==
  rows \o SubSeq(events, IF Len(rows) > Len(events) THEN 1 ELSE Len(rows) + 1, Len(events))
SaveRows(events) ==
  IF Len(rows) > Len(events) THEN events ELSE rows \o SubSeq(events, Len(rows) + 1, Len(events))
Save(h) ==
  LET kept == {f \in findings : f.runtime}
  IN  /\ pc[h] = "save" /\ Goto(h, "judge")
      /\ rows' = SaveRows(SubSeq(log, 1, view[h]))
      /\ findings' = kept \cup {[event |-> e, call |-> log[e], runtime |-> FALSE] :
                                  e \in found[h] \ {f.event : f \in kept}}
      /\ found' = [found EXCEPT ![h] = {}]
      /\ UNCHANGED <<policy, log, ledger, sidecar, lock, view, at, done, outcome>>

-----------------------------------------------------------------------------
(* Judging the call: as the last of the events read.                       *)

Judge(h) ==
  /\ pc[h] = "judge" /\ Goto(h, "record")
  /\ done' = [done EXCEPT ![h] = Completes(tags[h], view[h])]
  /\ UNCHANGED <<policy, filev, view, at, found, outcome>>

JudgeRecord(h) ==
  /\ pc[h] = "record"
  /\ Record(tags[h], view[h], done[h])
  /\ Goto(h, IF done[h] THEN "persist" ELSE "done")
  /\ outcome' = [outcome EXCEPT ![h] = IF done[h] THEN "none" ELSE "ran"]
  /\ UNCHANGED <<policy, log, sidecar, lock, rows, findings, view, at, found, done>>

\* persist_runtime_findings() replaces a row of this id; then the answer: a call
\* that completes a "-> redact" rule runs, rewritten.
Persist(h) ==
  /\ pc[h] = "persist" /\ Goto(h, "done")
  /\ findings' = {f \in findings : f.event # view[h]}
                   \cup {[event |-> view[h], call |-> h, runtime |-> TRUE]}
  /\ outcome' = [outcome EXCEPT ![h] =
       IF ~ Stops(done[h]) THEN "ran" ELSE IF rule.action = "redact" THEN "rewritten" ELSE "blocked"]
  /\ UNCHANGED <<policy, log, ledger, sidecar, lock, rows, view, at, found, done>>

\* A killed hook: the kernel releases its lock, nobody hears its answer.
Killed == Cardinality({h \in Hooks : pc[h] = "dead"})
Die(h) ==
  /\ pc[h] \notin {"start", "done", "dead"} /\ Killed < MaxDeaths
  /\ Goto(h, "dead")
  /\ lock' = IF lock = h THEN None ELSE lock
  /\ view' = [view EXCEPT ![h] = 0] /\ at' = [at EXCEPT ![h] = 0]
  /\ found' = [found EXCEPT ![h] = {}] /\ done' = [done EXCEPT ![h] = FALSE]
  /\ UNCHANGED <<policy, log, ledger, sidecar, rows, findings, outcome>>

Next ==
  \E h \in Hooks :
    \/ AppendEvent(h) \/ ReadEvents(h)
    \/ Analyse(h) \/ AnalyseJudge(h) \/ AnalyseRecord(h) \/ AnalyseEnd(h) \/ Save(h)
    \/ Judge(h) \/ JudgeRecord(h) \/ Persist(h) \/ Die(h)

Spec == Init /\ [][Next]_vars

-----------------------------------------------------------------------------
\* Types of the session's files and of the hooks.
TypeOK ==
  /\ policy \in Policies
  /\ log \in SeqOf(Hooks, Cardinality(Hooks)) /\ rows \in SeqOf(Hooks, Cardinality(Hooks))
  /\ ledger.hist \in [Tags -> SUBSET Events] /\ ledger.fired \in Events \cup {0}
  /\ sidecar.events \in Events \cup {0} /\ sidecar.found \subseteq Events
  /\ findings \subseteq Row /\ lock \in Hooks \cup {None}
  /\ view \in [Hooks -> Events \cup {0}] /\ at \in [Hooks -> Events \cup {0}]
  /\ found \in [Hooks -> SUBSET Events] /\ done \in [Hooks -> BOOLEAN]
  /\ outcome \in [Hooks -> {"none", "ran", "rewritten", "blocked"}]

\* What the events in a set carry between two positions.
Carried(events, from, to) == UNION {tags[log[i]] : i \in {j \in events : from < j /\ j <= to}}
\* The steps of the rule, one behind the other, are covered by these events, the
\* last step by those.
CoveredBy(these, those) ==
  \E p \in [0 .. Len(rule.steps) -> 0 .. Len(log)] :
    /\ p[0] = 0
    /\ \A k \in 1 .. Len(rule.steps) :
         /\ p[k - 1] <= p[k]
         /\ rule.steps[k] \subseteq Carried(IF k < Len(rule.steps) THEN these ELSE those, p[k - 1], p[k])

\* The calls an enforced block rule lets through never amount to what the rule
\* forbids, in the order of the log, however their hooks interleave and
\* whoever dies.
CombinationHeld ==
  (mode = "enforce" /\ rule.action = "block")
    => LET ran == {i \in DOMAIN log : outcome[log[i]] = "ran"} IN ~ CoveredBy(ran, ran)

\* "the current call's own tag can already be in `seen` ...; it must still be
\* treated as "new", not "already seen"" (trifecta.py:774-776): a call the rule
\* stops completes steps that others' events cover.
CompletesOthers ==
  \A h \in Hooks :
    outcome[h] \in {"blocked", "rewritten"}
      => CoveredBy({i \in DOMAIN log : log[i] # h}, DOMAIN log)

\* The rows stored are always the first events of the log: none twice, none
\* left out, whichever hook, with however old a copy of the log, saves last.
StoredIsPrefix == IsPrefix(rows, log)

=============================================================================
