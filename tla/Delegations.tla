----------------------------- MODULE Delegations -----------------------------
(***************************************************************************)
(* Numbering the subagents an agent launches                               *)
(* (prismor/runtime/delegations.py), as the gate uses it: a call reserves  *)
(* its number under the session's lock before it is judged, and releases   *)
(* it when it is refused (prismor/runtime/runtime.py).  What happens to a  *)
(* refused call afterwards is up to the hook: a person may approve it, the *)
(* deferred judge may clear it, or enforcement is paused (prismor/cli.py). *)
(***************************************************************************)
EXTENDS Integers, FiniteSets

CONSTANTS
  Hooks,         \* processes that judge calls of one session
  Parents,       \* agents that launch subagents
  Keys,          \* the host's ids of launch calls, and subagent ids
  NoKey,         \* a launch call without an id
  Idle,          \* a hook without a call
  Cap,           \* the rule: a launch with a number above it is refused
  MaxLines       \* bound: reservations ever made

VARIABLES
  lines,         \* the spawn and start lines of the session's file
  cancelled,     \* the rids of its cancel lines
  call,          \* per hook: the call it judges
  launched,      \* history: reservations of launches the gate let run
  overruled      \* history: reservations of launches that ran though refused

vars == <<lines, cancelled, call, launched, overruled>>

Kinds == {"spawn", "start"}
Rids  == 1 .. MaxLines
Lines == [kind : Kinds, key : Keys \cup {NoKey}, parent : Parents, number : Nat \ {0}, rid : Rids]
\* A call's rid is 0 when it reserved nothing.
CallsOf == [kind : Kinds, parent : Parents, number : Nat \ {0}, rid : {0} \cup Rids, refused : BOOLEAN]

ASSUME ConstantsAssumption ==
  /\ Cap \in Nat /\ MaxLines \in Nat
  /\ NoKey \notin Keys /\ Idle \notin CallsOf

Init ==
  /\ lines = {} /\ cancelled = {}
  /\ call = [h \in Hooks |-> Idle]
  /\ launched = {} /\ overruled = {}

\* records(): the lines that are not cancelled.
Live == {l \in lines : l.rid \notin cancelled}
Of(kind, parent) == {l \in Live : l.kind = kind /\ l.parent = parent}
Mine(kind, key)  == {l \in Live : key # NoKey /\ l.kind = kind /\ l.key = key}

\* Mutant: reservations of calls still under way are not counted.
NumberOfLaunched(kind, parent) == 1 + Cardinality({l \in Of(kind, parent) : l.rid \in launched})
\* Mutant: the first subagent has number 0.
NumberFromZero(kind, parent) == Cardinality(Of(kind, parent))
Number(kind, parent) == 1 + Cardinality(Of(kind, parent))

Judge(h, kind, parent, number, rid) ==
  call' = [call EXCEPT ![h] = [kind |-> kind, parent |-> parent, number |-> number, rid |-> rid, refused |-> FALSE]]

\* stamp(): an earlier call of the subagent, or the other install of the agent,
\* has reserved the number ...
StampAgain(h, kind, key, parent) ==
  /\ call[h] = Idle
  /\ \E m \in Mine(kind, key) : Judge(h, kind, parent, m.number, 0)
  /\ UNCHANGED <<lines, cancelled, launched, overruled>>

\* ... or it is the next one, which a dry run does not reserve, nor does a call
\* whose line cannot be written ...
Peek(h, kind, key, parent) ==
  /\ call[h] = Idle /\ Mine(kind, key) = {}
  /\ Judge(h, kind, parent, Number(kind, parent), 0)
  /\ UNCHANGED <<lines, cancelled, launched, overruled>>

\* ... and which any other call does.
Reserve(h, kind, key, parent) ==
  LET line == [kind |-> kind, key |-> key, parent |-> parent,
               number |-> Number(kind, parent), rid |-> Cardinality(lines) + 1]
  IN  /\ Cardinality(lines) < MaxLines
      /\ lines' = lines \cup {line}
      /\ Judge(h, kind, parent, line.number, line.rid)
\* Mutant: a reservation is not looked for before it is made.
StampBlindly(h, kind, key, parent) ==
  /\ call[h] = Idle /\ Reserve(h, kind, key, parent)
  /\ UNCHANGED <<cancelled, launched, overruled>>
Stamp(h, kind, key, parent) ==
  /\ call[h] = Idle /\ Mine(kind, key) = {}
  /\ Reserve(h, kind, key, parent)
  /\ UNCHANGED <<cancelled, launched, overruled>>

Judging(h) == call[h] # Idle /\ ~ call[h].refused
End(h)     == call' = [call EXCEPT ![h] = Idle]

\* The gate allows the call.
\* Mutant: every judged call releases its number, not only a refused one.
AllowReleased(h) ==
  /\ Judging(h)
  /\ call[h].kind = "spawn" => call[h].number <= Cap
  /\ launched' = IF call[h].kind = "spawn" /\ call[h].rid # 0 THEN launched \cup {call[h].rid} ELSE launched
  /\ cancelled' = IF call[h].rid # 0 THEN cancelled \cup {call[h].rid} ELSE cancelled
  /\ End(h)
  /\ UNCHANGED <<lines, overruled>>
Allow(h) ==
  /\ Judging(h)
  /\ call[h].kind = "spawn" => call[h].number <= Cap
  /\ launched' = IF call[h].kind = "spawn" /\ call[h].rid # 0 THEN launched \cup {call[h].rid} ELSE launched
  /\ End(h)
  /\ UNCHANGED <<lines, cancelled, overruled>>

\* It refuses it, by the cap or for another reason, and releases the number
\* (unless the cancel line cannot be written, which nobody is told).
Refuse(h) ==
  /\ Judging(h)
  /\ cancelled' \in {cancelled, IF call[h].rid # 0 THEN cancelled \cup {call[h].rid} ELSE cancelled}
  /\ call' = [call EXCEPT ![h] = [call[h] EXCEPT !.refused = TRUE]]
  /\ UNCHANGED <<lines, launched, overruled>>

\* The hook ends in a refusal, or dies.
Stop(h) == call[h] # Idle /\ End(h) /\ UNCHANGED <<lines, cancelled, launched, overruled>>

\* The refused call runs all the same: approved, cleared or paused.
Overrule(h) ==
  /\ call[h] # Idle /\ call[h].refused
  /\ overruled' = IF call[h].kind = "spawn" /\ call[h].rid # 0 THEN overruled \cup {call[h].rid} ELSE overruled
  /\ End(h)
  /\ UNCHANGED <<lines, cancelled, launched>>

\* A subagent's calls carry its id; a launch carries the host's id or none.
Next ==
  \E h \in Hooks :
    \/ \E k \in Kinds, key \in Keys, p \in Parents : StampAgain(h, k, key, p) \/ Peek(h, k, key, p) \/ Stamp(h, k, key, p)
    \/ \E p \in Parents : Peek(h, "spawn", NoKey, p) \/ Stamp(h, "spawn", NoKey, p)
    \/ Allow(h) \/ Refuse(h) \/ Stop(h) \/ Overrule(h)

Spec == Init /\ [][Next]_vars

-----------------------------------------------------------------------------
\* Types of the file and the calls under way.
TypeOK ==
  /\ lines \subseteq Lines /\ cancelled \subseteq Rids
  /\ call \in [Hooks -> CallsOf \cup {Idle}]
  /\ launched \subseteq Rids /\ overruled \subseteq Rids

Launched(parent, rids) == {l \in lines : l.kind = "spawn" /\ l.parent = parent /\ l.rid \in rids}

\* The cap holds for what the gate itself lets run with a reservation: whatever
\* hooks reserve and release at the same time, die before they release or
\* fail to, an agent gets no more launches than the rule allows.
CapHolds == \A p \in Parents : Cardinality(Launched(p, launched)) <= Cap

\* A launch seen by both installs of an agent, and a subagent's many calls,
\* have one live reservation between them.
OneReservation ==
  \A l, m \in Live : (l.kind = m.kind /\ l.key = m.key /\ l.key # NoKey) => l = m

\* A launch the gate let run keeps its reservation: no refusal, of this call or
\* of another, releases it later.
LaunchIsCounted == launched \cap cancelled = {}

\* "A rule then caps how many subagents an agent launches" (delegations.py:16):
\* also those launches count that the cap allowed, another rule held back, and
\* a person then approved or the judge cleared.
LaunchesAreCapped ==
  \A p \in Parents : Cardinality({l \in Launched(p, launched \cup overruled) : l.number <= Cap}) <= Cap

=============================================================================
