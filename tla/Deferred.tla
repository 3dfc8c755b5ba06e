------------------------------- MODULE Deferred -------------------------------
(***************************************************************************)
(* Resolving `action: defer` (prismor/runtime/enterprise/deferred.py): an  *)
(* action the fast path will not decide goes to a judge, and the verdict   *)
(* is remembered in one file per session, under the action's fingerprint.  *)
(* The hook reads the file before the judge is asked and writes what it    *)
(* read, with the verdict added, after; there is no lock, and all writers  *)
(* share one temporary file.                                               *)
(*                                                                         *)
(* A fingerprint is the tool and a marker: the finding's evidence hash, or *)
(* else its pattern, or else its rule.  No finding carries an evidence     *)
(* hash, so that two actions of one tool held by one rule have the same    *)
(* fingerprint, and the verdict on the one is the verdict on the other.    *)
(***************************************************************************)
EXTENDS Naturals, Sequences

CONSTANTS
  Hooks,         \* processes that resolve a held action
  Actions,       \* held actions of one session
  FingerprintOf, \* _fingerprint: each action's key in the cache
  None,
  MaxAnswers     \* bound: an action with so many answers is not tried again

ConstantsOK == /\ None \notin {"allow", "deny"} /\ MaxAnswers \in Nat
               /\ DOMAIN FingerprintOf = Actions

VARIABLES
  cache,         \* <session>.json: a verdict or None for each fingerprint
  tmp,           \* <session>.tmp, or None
  pc, act, copy, \* per hook: where it is, its action, the cache it read
  answers,       \* history: the verdicts given, in order, per action
  cleared        \* history: actions the judge has cleared

vars == <<cache, tmp, pc, act, copy, answers, cleared>>

Verdicts == {"allow", "deny"}
Fingerprints == {FingerprintOf[a] : a \in Actions}
Caches       == [Fingerprints -> Verdicts \cup {None}]

Init ==
  /\ cache = [f \in Fingerprints |-> None] /\ tmp = None
  /\ pc = [h \in Hooks |-> "idle"] /\ act = [h \in Hooks |-> None]
  /\ copy = [h \in Hooks |-> None]
  /\ answers = [a \in Actions |-> <<>>] /\ cleared = {}

Answer(h, a, v) ==
  /\ answers' = [answers EXCEPT ![a] = Append(@, v)]
  /\ pc' = [pc EXCEPT ![h] = "idle"] /\ act' = [act EXCEPT ![h] = None] /\ copy' = [copy EXCEPT ![h] = None]

\* What cache c says of action a.
Known(c, a) == c[FingerprintOf[a]]

\* The cache has the verdict, on this action or on another of its fingerprint ...
Hit(h, a) ==
  /\ pc[h] = "idle" /\ Len(answers[a]) < MaxAnswers
  /\ Known(cache, a) # None
  /\ Answer(h, a, Known(cache, a))
  /\ UNCHANGED <<cache, tmp, cleared>>
\* ... or the action goes to the judge.
Miss(h, a) ==
  /\ pc[h] = "idle" /\ Len(answers[a]) < MaxAnswers
  /\ Known(cache, a) = None
  /\ pc' = [pc EXCEPT ![h] = "judge"] /\ act' = [act EXCEPT ![h] = a]
  /\ copy' = [copy EXCEPT ![h] = cache]
  /\ UNCHANGED <<cache, tmp, answers, cleared>>

Remember(h, v) ==
  /\ copy' = [copy EXCEPT ![h] = [copy[h] EXCEPT ![FingerprintOf[act[h]]] = v]]
  /\ pc' = [pc EXCEPT ![h] = "save"]
  /\ UNCHANGED <<cache, tmp, act, answers>>

\* The judge clears it; it blocks it; it fails, which denies.
Clear(h) == pc[h] = "judge" /\ cleared' = cleared \cup {act[h]} /\ Remember(h, "allow")
Block(h) == pc[h] = "judge" /\ Remember(h, "deny") /\ UNCHANGED cleared
\* Mutant: a judge that fails lets the action through.
FailOpen(h) == pc[h] = "judge" /\ Remember(h, "allow") /\ UNCHANGED cleared
Fail(h)  == pc[h] = "judge" /\ Remember(h, "deny") /\ UNCHANGED cleared

\* _save_cache: the temporary file is written (or cannot be), then moved.
Save(h) ==
  /\ pc[h] = "save" /\ tmp' \in {copy[h], tmp}
  /\ pc' = [pc EXCEPT ![h] = "replace"]
  /\ UNCHANGED <<cache, act, copy, answers, cleared>>
\* Whoever wrote it last: its content.  If it is gone, the verdict stands
\* but is not remembered.
Replace(h) ==
  /\ pc[h] = "replace"
  /\ cache' = IF tmp # None THEN tmp ELSE cache
  /\ tmp' = None
  /\ Answer(h, act[h], Known(copy[h], act[h]))
  /\ UNCHANGED cleared

\* A killed hook leaves what it has written; its action does not run.
Die(h) ==
  /\ pc[h] # "idle"
  /\ pc' = [pc EXCEPT ![h] = "idle"] /\ act' = [act EXCEPT ![h] = None] /\ copy' = [copy EXCEPT ![h] = None]
  /\ UNCHANGED <<cache, tmp, answers, cleared>>

Next ==
  \E h \in Hooks :
    \/ \E a \in Actions : Hit(h, a) \/ Miss(h, a)
    \/ Clear(h) \/ Block(h) \/ Fail(h) \/ Save(h) \/ Replace(h) \/ Die(h)

Spec == Init /\ [][Next]_vars

-----------------------------------------------------------------------------
\* Types of the files and of the hooks' copies.
TypeOK ==
  /\ cache \in Caches /\ tmp \in Caches \cup {None}
  /\ pc \in [Hooks -> {"idle", "judge", "save", "replace"}]
  /\ act \in [Hooks -> Actions \cup {None}] /\ copy \in [Hooks -> Caches \cup {None}]
  /\ answers \in [Actions -> Seq(Verdicts)]
  /\ cleared \subseteq Actions

\* The judge has cleared an action of this fingerprint.
KeyCleared(f) == \E a \in cleared : FingerprintOf[a] = f

\* However the hooks overwrite each other's file, and whoever fails or dies: an
\* action is let through, and the cache allows it to others, only under a
\* fingerprint the judge has cleared, be it for this action or another of its
\* rule and tool.  A verdict never moves to another fingerprint.
AllowedWasCleared ==
  /\ \A a \in Actions : (\E i \in DOMAIN answers[a] : answers[a][i] = "allow") => KeyCleared(FingerprintOf[a])
  /\ \A f \in Fingerprints : cache[f] = "allow" => KeyCleared(f)

\* "a deferred action that cannot be adjudicated is never allowed through"
\* (deferred.py:13-14): what is let through, the judge itself has cleared.
ClearedItself ==
  \A a \in Actions : (\E i \in DOMAIN answers[a] : answers[a][i] = "allow") => a \in cleared

\* "the agent's retry of the same action resolves [...] consistently"
\* (deferred.py:9): one verdict per action and session.
RetryIsConsistent ==
  \A a \in Actions : \A i, j \in DOMAIN answers[a] : answers[a][i] = answers[a][j]

=============================================================================
